------------------------- MODULE DiscoveryFlightProofs -------------------------
(***************************************************************************)
(* Single flight, the currency of waiting runs, the order of a run's       *)
(* statuses and the implementation of DiscoveryRunLifecycle, proved for    *)
(* every value of the constants.                                           *)
(*                                                                         *)
(* Most transactions are calm: every row keeps its status or takes one     *)
(* further on.  Calm transactions preserve everything below at once, so    *)
(* that only publication, manual requests, promotion, deferral and the     *)
(* claim need an argument of their own.                                    *)
(***************************************************************************)
EXTENDS DiscoveryCoordinatorProofs

-------------------------------------------------------------------------------
(* The invariants, over any job table and programme row *)

AtMostOne(tbl, S) ==
    \A j, k \in Keys : tbl[j].status \in S /\ tbl[k].status \in S => j = k

OneEach(tbl) ==
    /\ AtMostOne(tbl, {"pending"})
    /\ AtMostOne(tbl, {"deferred"})
    /\ AtMostOne(tbl, ActiveStatuses)

Current(tbl, p) ==
    \A k \in Keys : tbl[k].status \in WaitingStatuses =>
        /\ p.state = "active"
        /\ tbl[k].gen = p.gen
        /\ tbl[k].version = IF tbl[k].status = "pending" THEN p.published ELSE 0

Good(tbl, p) == OneEach(tbl) /\ Current(tbl, p)

LEMMA GoodState == (SingleFlight /\ WaitingRunsAreCurrent) <=> Good(job, programme)
  <1>1. SingleFlight <=> OneEach(job)
    BY DEF SingleFlight, OneEach, AtMostOne
  <1>2. WaitingRunsAreCurrent <=> Current(job, programme)
    BY DEF WaitingRunsAreCurrent, Current
  <1>3. QED
    BY <1>1, <1>2 DEF Good

LEMMA GoodNextState ==
    (SingleFlight /\ WaitingRunsAreCurrent)' <=> Good(job', programme')
  <1>1. SingleFlight' <=> OneEach(job')
    BY DEF SingleFlight, OneEach, AtMostOne
  <1>2. WaitingRunsAreCurrent' <=> Current(job', programme')
    BY DEF WaitingRunsAreCurrent, Current
  <1>3. QED
    BY <1>1, <1>2 DEF Good

-------------------------------------------------------------------------------
(* The order of statuses *)

StartedStatuses == ActiveStatuses \cup TerminalStatuses

\* The statuses a row may have after a step that claims no run.
Allowed(st) ==
    CASE st = "none" -> {"none", "pending", "deferred"}
      [] st = "pending" -> {"pending", "deferred", "cancelled", "coalesced"}
      [] st = "deferred" -> {"deferred", "pending", "cancelled"}
      [] st = "running" -> {"running", "cancel_requested",
                            "completed", "partial", "failed", "cancelled"}
      [] st = "cancel_requested" -> {"cancel_requested", "cancelled", "failed"}
      [] OTHER -> {st}

KeepsAttempt(a, b) == b.attempts = a.attempts /\ (a.authorized => b.authorized)

PermittedRow(a, b) ==
    /\ b.status \in Allowed(a.status)
    /\ a.status \in StartedStatuses => KeepsAttempt(a, b)

Permitted(tbl, result) == \A k \in Keys : PermittedRow(tbl[k], result[k])

\* A calm change of a row: at most it ends, or is asked to stop.
CalmRow(a, b) ==
    /\ b.gen = a.gen
    /\ b.version = a.version
    /\ KeepsAttempt(a, b)
    /\ \/ b.status = a.status
       \/ /\ a.status \in WaitingStatuses \cup ActiveStatuses
          /\ b.status \in Allowed(a.status) \cap (TerminalStatuses \cup {"cancel_requested"})

Calm(tbl, result) ==
    /\ result \in Tables
    /\ \A k \in Keys : CalmRow(tbl[k], result[k])

LEMMA CalmGood ==
    ASSUME NEW tbl, NEW result, NEW p, Good(tbl, p), Calm(tbl, result)
    PROVE  Good(result, p)
  <1>1. \A k \in Keys :
          /\ result[k].status \in {"pending"} => tbl[k].status \in {"pending"}
          /\ result[k].status \in {"deferred"} => tbl[k].status \in {"deferred"}
          /\ result[k].status \in ActiveStatuses => tbl[k].status \in ActiveStatuses
    BY DEF Calm, CalmRow, Allowed, WaitingStatuses, ActiveStatuses, TerminalStatuses
  <1>2. OneEach(result)
    BY <1>1 DEF Good, OneEach, AtMostOne
  <1>3. Current(result, p)
    BY <1>1 DEF Good, Current, WaitingStatuses, Calm, CalmRow, Allowed, TerminalStatuses
  <1>4. QED
    BY <1>2, <1>3 DEF Good

LEMMA CalmPermitted ==
    ASSUME NEW tbl \in Tables, NEW result, Calm(tbl, result)
    PROVE  Permitted(tbl, result)
  <1>1. \A k \in Keys : tbl[k].status \in Statuses
    BY DEF Tables, Rows
  <1>2. QED
    BY <1>1 DEF Calm, CalmRow, Permitted, PermittedRow, Allowed, Statuses,
                WaitingStatuses, ActiveStatuses, TerminalStatuses

\* A permitted change may follow a calm one.
LEMMA CalmThenPermitted ==
    ASSUME NEW tbl \in Tables, NEW mid, NEW result, Calm(tbl, mid), Permitted(mid, result)
    PROVE  Permitted(tbl, result)
  <1> SUFFICES ASSUME NEW k \in Keys PROVE PermittedRow(tbl[k], result[k])
    BY DEF Permitted
  <1>1. CalmRow(tbl[k], mid[k]) /\ PermittedRow(mid[k], result[k])
    BY DEF Calm, Permitted
  <1>2. tbl[k].status \in Statuses
    BY DEF Tables, Rows
  <1>3. result[k].status \in Allowed(tbl[k].status)
    BY <1>1, <1>2 DEF CalmRow, PermittedRow, Allowed, Statuses,
                      WaitingStatuses, ActiveStatuses, TerminalStatuses
  <1>4. tbl[k].status \in StartedStatuses => mid[k].status \in StartedStatuses
    BY <1>1 DEF CalmRow, StartedStatuses, ActiveStatuses, TerminalStatuses
  <1>5. QED
    BY <1>1, <1>3, <1>4 DEF CalmRow, PermittedRow, KeepsAttempt

LEMMA CalmCompose ==
    ASSUME NEW tbl, NEW mid, NEW result, Calm(tbl, mid), Calm(mid, result)
    PROVE  Calm(tbl, result)
  <1> SUFFICES ASSUME NEW k \in Keys PROVE CalmRow(tbl[k], result[k])
    BY DEF Calm
  <1>1. CalmRow(tbl[k], mid[k]) /\ CalmRow(mid[k], result[k])
    BY DEF Calm
  <1>2. QED
    BY <1>1 DEF CalmRow, KeepsAttempt, Allowed, WaitingStatuses, ActiveStatuses,
                TerminalStatuses

LEMMA CalmRefl ==
    ASSUME NEW tbl \in Tables
    PROVE  Calm(tbl, tbl)
  BY DEF Calm, CalmRow, KeepsAttempt

\* A change of one row is calm when that of the row is.
LEMMA CalmUpdate ==
    ASSUME NEW tbl \in Tables, NEW k \in Keys, NEW row \in Rows, CalmRow(tbl[k], row)
    PROVE  Calm(tbl, [tbl EXCEPT ![k] = row])
  BY DEF Calm, CalmRow, KeepsAttempt, Tables

\* Cancelling every run that waits, and asking every running one to stop.
LEMMA CalmMoves ==
    ASSUME NEW tbl \in Tables
    PROVE  /\ \A S \in SUBSET WaitingStatuses :
                 /\ Calm(tbl, Move(tbl, S, "cancelled"))
                 /\ InStatus(Move(tbl, S, "cancelled"), S) = {}
           /\ Calm(tbl, Move(tbl, {"running"}, "cancel_requested"))
  <1>1. \A k \in Keys : tbl[k] \in Rows
    BY DEF Tables
  <1>2. ASSUME NEW S \in SUBSET WaitingStatuses
        PROVE  /\ Calm(tbl, Move(tbl, S, "cancelled"))
               /\ InStatus(Move(tbl, S, "cancelled"), S) = {}
    <2> DEFINE result == Move(tbl, S, "cancelled")
    <2>1. result \in Tables
      BY MoveType, StatusValues
    <2>2. \A k \in Keys : result[k] = IF tbl[k].status \in S
                                      THEN [tbl[k] EXCEPT !.status = "cancelled"]
                                      ELSE tbl[k]
      BY DEF Move
    <2>3. ASSUME NEW k \in Keys PROVE CalmRow(tbl[k], result[k])
      <3> HIDE DEF result
      <3>1. CASE tbl[k].status \in S
        <4>1. result[k].status = "cancelled" /\ result[k].gen = tbl[k].gen
          BY <1>1, <2>2, <3>1 DEF Rows
        <4>2. result[k].version = tbl[k].version /\ KeepsAttempt(tbl[k], result[k])
          BY <1>1, <2>2, <3>1 DEF Rows, KeepsAttempt
        <4>3. tbl[k].status \in WaitingStatuses
          BY <3>1
        <4>4. "cancelled" \in Allowed(tbl[k].status)
          BY <4>3 DEF Allowed, WaitingStatuses
        <4>5. QED
          BY <4>1, <4>2, <4>3, <4>4 DEF CalmRow, TerminalStatuses
      <3>2. CASE tbl[k].status \notin S
        BY <2>2, <3>2 DEF CalmRow, KeepsAttempt
      <3>3. QED
        BY <3>1, <3>2
    <2>4. \A k \in Keys : result[k].status \notin S
      BY <1>1, <2>2 DEF Rows, WaitingStatuses
    <2>5. QED
      BY <2>1, <2>3, <2>4 DEF Calm, InStatus
  <1>3. Calm(tbl, Move(tbl, {"running"}, "cancel_requested"))
    <2>1. Move(tbl, {"running"}, "cancel_requested") \in Tables
      BY MoveType, StatusValues
    <2>2. QED
      BY <1>1, <2>1 DEF Calm, CalmRow, KeepsAttempt, Move, Rows, Allowed, ActiveStatuses
  <1>4. QED
    BY <1>2, <1>3

\* Closing an active run is calm, if the status it ends with is one it may have.
LEMMA CalmClose ==
    ASSUME NEW tbl \in Tables, NEW k \in Keys, tbl[k].status \in ActiveStatuses,
           NEW st \in Allowed(tbl[k].status) \cap TerminalStatuses
    PROVE  Calm(tbl, Close(tbl, k, st))
  <1> DEFINE row == [tbl[k] EXCEPT !.status = st, !.token = 0, !.lease = Null]
  <1>1. tbl[k] \in Rows /\ st \in Statuses
    BY DEF Tables, Statuses
  <1>2. row \in Rows
    BY <1>1 DEF Rows
  <1>3. CalmRow(tbl[k], row)
    BY <1>1 DEF CalmRow, KeepsAttempt, Rows
  <1>4. Close(tbl, k, st) = [tbl EXCEPT ![k] = row]
    BY DEF Close
  <1>5. QED
    <2> HIDE DEF row
    <2>1. QED
      BY <1>2, <1>3, <1>4, CalmUpdate

-------------------------------------------------------------------------------
(* Promotion and insertion *)

\* Promotion takes one run from the deferred set and cancels the pending one.
LEMMA PromotionGood ==
    ASSUME NEW tbl \in Tables, NEW result, NEW d, Promotion(tbl, result, d),
           Good(tbl, programme)
    PROVE  Good(result, programme) /\ Permitted(tbl, result)
  <1>1. /\ d \in Keys /\ tbl[d].status = "deferred"
        /\ \A k \in Keys : tbl[k].status \notin ActiveStatuses
        /\ \A k \in Keys : tbl[k] \in Rows
    BY DEF Promotion, InStatus, Tables
  <1>2. /\ result[d].status = "pending"
        /\ result[d].gen = tbl[d].gen
        /\ result[d].version = programme.published
    BY <1>1 DEF Promotion, Rows
  <1>3. ASSUME NEW k \in Keys \ {d}
        PROVE  /\ tbl[k].status = "pending" => result[k].status = "cancelled"
               /\ tbl[k].status # "pending" => result[k] = tbl[k]
               /\ tbl[k].status # "deferred"
    BY <1>1, <1>3 DEF Promotion, Rows, Good, OneEach, AtMostOne
  <1>4. \A k \in Keys :
          /\ result[k].status = "pending" => k = d
          /\ result[k].status # "deferred"
          /\ result[k].status \notin ActiveStatuses
    BY <1>1, <1>2, <1>3 DEF ActiveStatuses
  <1>5. OneEach(result)
    BY <1>4 DEF OneEach, AtMostOne
  <1>6. Current(result, programme)
    BY <1>1, <1>2, <1>4 DEF Good, Current, WaitingStatuses
  <1>7. ASSUME NEW k \in Keys PROVE PermittedRow(tbl[k], result[k])
    <2>1. CASE k = d
      BY <1>1, <1>2, <2>1 DEF PermittedRow, Allowed, StartedStatuses, ActiveStatuses,
                              TerminalStatuses
    <2>2. CASE k # d /\ tbl[k].status = "pending"
      BY <1>3, <2>2 DEF PermittedRow, Allowed, StartedStatuses, ActiveStatuses,
                        TerminalStatuses
    <2>3. CASE k # d /\ tbl[k].status # "pending"
      <3>1. result[k] = tbl[k] /\ tbl[k].status \in Statuses
        BY <1>1, <1>3, <2>3 DEF Rows
      <3>2. QED
        BY <3>1 DEF PermittedRow, KeepsAttempt, Allowed, Statuses, WaitingStatuses,
                    ActiveStatuses, TerminalStatuses
    <2>4. QED
      BY <2>1, <2>2, <2>3
  <1>8. QED
    BY <1>5, <1>6, <1>7 DEF Good, Permitted

LEMMA PromoteGood ==
    ASSUME TypeOK, NEW tbl \in Tables, Good(tbl, programme)
    PROVE  /\ Good(PromoteDeferred(tbl), programme)
           /\ Permitted(tbl, PromoteDeferred(tbl))
  <1>1. CASE PromoteDeferred(tbl) = tbl
    BY <1>1, CalmRefl, CalmPermitted
  <1>2. CASE \E d \in Keys : Promotion(tbl, PromoteDeferred(tbl), d)
    BY <1>2, PromotionGood
  <1>3. QED
    BY <1>1, <1>2, PromoteRows, Typing

\* A slot is inserted only where nothing is pending, with the programme's
\* generation and published version.
LEMMA InsertGood ==
    ASSUME NEW tbl \in Tables, NEW p, Good(tbl, p), p.state = "active",
           p.gen \in Nat, p.published \in Nat, NEW at \in Nat,
           InStatus(tbl, {"pending"}) = {}
    PROVE  LET result == InsertPendingSlot(tbl, p.gen, at, p.published) IN
           Good(result, p) /\ Permitted(tbl, result)
  <1> DEFINE result == InsertPendingSlot(tbl, p.gen, at, p.published)
             key == <<p.gen, at>>
  <1>1. /\ NewRow("pending", p.gen, at, p.published).status = "pending"
        /\ NewRow("pending", p.gen, at, p.published).gen = p.gen
        /\ NewRow("pending", p.gen, at, p.published).version = p.published
    <2>1. "pending" \in Statuses
      BY StatusValues
    <2>2. QED
      BY <2>1, NewRowType
  <1>2. \A k \in Keys :
          \/ result[k] = tbl[k]
          \/ /\ k = key
             /\ result[k].status = "pending"
             /\ result[k].gen = p.gen
             /\ result[k].version = p.published
             /\ tbl[k].status = "none"
    BY <1>1, InsertRow
  <1>3. \A k \in Keys : tbl[k].status # "pending" /\ tbl[k].status \in Statuses
    BY DEF InStatus, Tables, Rows
  <1> HIDE DEF result, key
  <1>4. OneEach(result)
    BY <1>2, <1>3 DEF Good, OneEach, AtMostOne, ActiveStatuses
  <1>5. Current(result, p)
    BY <1>2, <1>3 DEF Good, Current, WaitingStatuses
  <1>6. Permitted(tbl, result)
    <2> SUFFICES ASSUME NEW k \in Keys PROVE PermittedRow(tbl[k], result[k])
      BY DEF Permitted
    <2>1. CASE result[k] = tbl[k]
      BY <1>3, <2>1 DEF PermittedRow, KeepsAttempt, Allowed, Statuses, WaitingStatuses,
                        ActiveStatuses, TerminalStatuses
    <2>2. CASE result[k].status = "pending" /\ tbl[k].status = "none"
      BY <2>2 DEF PermittedRow, Allowed, StartedStatuses, ActiveStatuses, TerminalStatuses
    <2>3. QED
      BY <1>2, <2>1, <2>2
  <1>7. QED
    BY <1>4, <1>5, <1>6 DEF Good, result

\* A waiting run is added under a key that has no row.
LEMMA AddGood ==
    ASSUME NEW tbl \in Tables, NEW p, Good(tbl, p), p.state = "active",
           NEW r \in Keys, tbl[r].status = "none",
           NEW row, row.status \in WaitingStatuses, row.gen = p.gen,
           row.version = IF row.status = "pending" THEN p.published ELSE 0,
           InStatus(tbl, {row.status}) = {}
    PROVE  LET result == [tbl EXCEPT ![r] = row] IN
           Good(result, p) /\ Permitted(tbl, result)
  <1> DEFINE result == [tbl EXCEPT ![r] = row]
  <1>1. result[r] = row /\ \A k \in Keys \ {r} : result[k] = tbl[k]
    BY DEF Tables
  <1>2. \A k \in Keys : tbl[k].status # row.status /\ tbl[k].status \in Statuses
    BY DEF InStatus, Tables, Rows
  <1> HIDE DEF result
  <1>3. OneEach(result)
    BY <1>1, <1>2 DEF Good, OneEach, AtMostOne, WaitingStatuses, ActiveStatuses
  <1>4. Current(result, p)
    BY <1>1 DEF Good, Current
  <1>5. Permitted(tbl, result)
    <2> SUFFICES ASSUME NEW k \in Keys PROVE PermittedRow(tbl[k], result[k])
      BY DEF Permitted
    <2>1. CASE k = r
      BY <1>1, <2>1 DEF PermittedRow, Allowed, StartedStatuses, ActiveStatuses,
                        TerminalStatuses, WaitingStatuses
    <2>2. CASE k # r
      BY <1>1, <1>2, <2>2 DEF PermittedRow, KeepsAttempt, Allowed, Statuses,
                              WaitingStatuses, ActiveStatuses, TerminalStatuses
    <2>3. QED
      BY <2>1, <2>2
  <1>6. QED
    BY <1>3, <1>4, <1>5 DEF Good, result

\* What claiming and deferring share: the next slot is inserted into the table.
LEMMA NextSlotGood ==
    ASSUME TypeOK, NEW k \in Keys, NEW tbl \in Tables, Good(tbl, programme),
           programme.state = "active", InStatus(tbl, {"pending"}) = {},
           WithNextSlot(tbl, k)
    PROVE  /\ Good(job', programme')
           /\ \A j \in Keys :
                 \/ job'[j] = tbl[j]
                 \/ tbl[j].status = "none" /\ job'[j].status = "pending"
  <1> DEFINE next == NextSlot(IF now >= job[k].runAt THEN now ELSE job[k].runAt)
  <1>1. next \in Nat
    <2>1. job[k].runAt \in Nat /\ now \in Nat
      BY Typing DEF Rows
    <2>2. (IF now >= job[k].runAt THEN now ELSE job[k].runAt) \in Nat
      BY <2>1
    <2>3. QED
      BY <2>2, NextSlotType
  <1>2. /\ job' = InsertPendingSlot(tbl, programme.gen, next, programme.published)
        /\ programme' = [programme EXCEPT !.nextDueAt = next]
    BY DEF WithNextSlot
  <1> HIDE DEF next
  <1>3. /\ programme'.state = programme.state
        /\ programme'.gen = programme.gen
        /\ programme'.published = programme.published
    BY <1>2 DEF TypeOK
  <1>4. Good(job', programme)
    BY <1>1, <1>2, InsertGood, Typing
  <1>5. Good(job', programme')
    BY <1>3, <1>4 DEF Good, Current
  <1>6. NewRow("pending", programme.gen, next, programme.published).status = "pending"
    <2>1. "pending" \in Statuses
      BY StatusValues
    <2>2. QED
      BY <1>1, <2>1, NewRowType, Typing
  <1>7. \A j \in Keys :
          \/ job'[j] = tbl[j]
          \/ tbl[j].status = "none" /\ job'[j].status = "pending"
    BY <1>1, <1>2, <1>6, InsertRow, Typing
  <1>8. QED
    BY <1>5, <1>7

-------------------------------------------------------------------------------
(* The steps *)

\* A step that claims no run.
Advances == Good(job', programme') /\ Permitted(job, job')

\* The step that claims k.
Claims(k) ==
    /\ job[k].status = "pending"
    /\ job'[k].status = "running"
    /\ job[k].runAt <= now
    /\ programme.state = "active"
    /\ job'[k].version = programme.published
    /\ InStatus(job, ActiveStatuses) = {}
    /\ \A j \in Keys \ {k} : PermittedRow(job[j], job'[j])
    /\ Good(job', programme')

\* A transaction that settles runs calmly, and then may promote the deferred one.
LEMMA SettleStep ==
    ASSUME TypeOK, Good(job, programme), NEW mid, Calm(job, mid),
           job' = mid \/ job' = PromoteDeferred(mid), programme' = programme
    PROVE  Advances
  <1>1. mid \in Tables /\ Good(mid, programme)
    BY CalmGood DEF Calm
  <1>2. CASE job' = mid
    BY <1>1, <1>2, CalmPermitted, Typing DEF Advances
  <1>3. CASE job' = PromoteDeferred(mid)
    BY <1>1, <1>3, PromoteGood, CalmThenPermitted, Typing DEF Advances
  <1>4. QED
    BY <1>2, <1>3

LEMMA SameStep ==
    ASSUME TypeOK, Good(job, programme), job' = job, programme' = programme
    PROVE  Advances
  BY SettleStep, CalmRefl, Typing

\* A transaction that changes one row, calmly.
LEMMA RowStep ==
    ASSUME TypeOK, Good(job, programme), NEW k \in Keys, NEW row \in Rows,
           CalmRow(job[k], row), job' = [job EXCEPT ![k] = row], programme' = programme
    PROVE  Advances
  BY SettleStep, CalmUpdate, Typing

\* Changes of a row that leave its status alone are calm.
LEMMA CalmDispatch ==
    ASSUME NEW row \in Rows, NEW state, NEW attempt, NEW lease, NEW sent
    PROVE  /\ CalmRow(row, [row EXCEPT !.dispatch = state, !.sent = sent,
                                       !.dispatchToken = attempt, !.dispatchLease = lease])
           /\ CalmRow(row, [row EXCEPT !.dispatch = state, !.dispatchToken = attempt,
                                       !.dispatchLease = lease])
           /\ CalmRow(row, [row EXCEPT !.dispatch = state, !.dispatchLease = lease,
                                       !.dispatchToken = attempt])
  BY DEF CalmRow, KeepsAttempt, Rows

LEMMA CalmCallback ==
    ASSUME NEW row \in Rows, NEW lease, NEW open, NEW provider
    PROVE  /\ CalmRow(row, [row EXCEPT !.claimed = TRUE, !.lease = lease, !.open = open])
           /\ CalmRow(row, [row EXCEPT !.claimed = TRUE, !.provider = provider])
           /\ CalmRow(row, [row EXCEPT !.claimed = TRUE])
           /\ CalmRow(row, [row EXCEPT !.lease = lease])
           /\ CalmRow(row, [row EXCEPT !.open = open])
           /\ CalmRow(row, [row EXCEPT !.authorized = TRUE])
           /\ CalmRow(row, [row EXCEPT !.deadline = Null])
  BY DEF CalmRow, KeepsAttempt, Rows

LEMMA OperatorStep ==
    ASSUME TypeOK, Good(job, programme), Command
    PROVE  Advances
  <1> USE Typing
  <1>1. ASSUME NEW edited \in BOOLEAN, Publish(edited) PROVE Advances
    <2> DEFINE cleared == Move(job, WaitingStatuses, "cancelled")
               version == IF edited THEN programme.published + 1 ELSE programme.published
               p == [state |-> "active", gen |-> programme.gen + 1,
                     published |-> version, nextDueAt |-> NextSlot(now)]
    <2>1. /\ Calm(job, cleared)
          /\ InStatus(cleared, WaitingStatuses) = {}
      BY CalmMoves
    <2>2. cleared \in Tables
      BY <2>1 DEF Calm
    <2>3. OneEach(cleared)
      BY <2>1, CalmGood DEF Good
    <2>4. \A k \in Keys : cleared[k].status \notin WaitingStatuses
      BY <2>1 DEF InStatus
    <2>5. Current(cleared, p)
      BY <2>4 DEF Current
    <2>6. InStatus(cleared, {"pending"}) = {}
      BY <2>4 DEF InStatus, WaitingStatuses
    <2>7. /\ p.state = "active"
          /\ p.gen = programme.gen + 1
          /\ p.published = version
          /\ p.gen \in Nat /\ p.published \in Nat
      OBVIOUS
    <2>8. /\ programme' = p
          /\ job' = InsertPendingSlot(cleared, p.gen, NextSlot(now), p.published)
      BY <1>1 DEF Publish
    <2>9. NextSlot(now) \in Nat
      BY NextSlotType
    <2> HIDE DEF cleared, p
    <2>10. Good(job', p) /\ Permitted(cleared, job')
      BY <2>2, <2>3, <2>5, <2>6, <2>7, <2>8, <2>9, InsertGood DEF Good
    <2>11. QED
      BY <2>1, <2>8, <2>10, CalmThenPermitted DEF Advances
  <1>2. CASE Pause
    <2> DEFINE cleared == Move(job, WaitingStatuses, "cancelled")
    <2>1. /\ Calm(job, cleared)
          /\ InStatus(cleared, WaitingStatuses) = {}
      BY CalmMoves
    <2>2. cleared \in Tables
      BY <2>1 DEF Calm
    <2>3. Calm(cleared, job')
      BY <1>2, <2>2, CalmMoves DEF Pause
    <2>4. Calm(job, job')
      BY <2>1, <2>3, CalmCompose
    <2>5. \A k \in Keys : job'[k].status \notin WaitingStatuses
      <3> SUFFICES ASSUME NEW k \in Keys PROVE job'[k].status \notin WaitingStatuses
        OBVIOUS
      <3>1. cleared[k].status \notin WaitingStatuses
        BY <2>1 DEF InStatus
      <3>2. CalmRow(cleared[k], job'[k])
        BY <2>3 DEF Calm
      <3> HIDE DEF cleared
      <3>3. QED
        BY <3>1, <3>2 DEF CalmRow, WaitingStatuses, TerminalStatuses
    <2>6. OneEach(job')
      BY <2>4, CalmGood DEF Good
    <2>7. QED
      BY <2>4, <2>5, <2>6, CalmPermitted DEF Advances, Good, Current
  <1>3. ASSUME NEW r \in Requests, NEW overlap \in Overlaps, RequestRun(r, overlap)
        PROVE  Advances
    <2>1. /\ r \in Keys
          /\ programme.state = "active"
          /\ job[r].status = "none"
          /\ programme' = programme
      BY <1>3 DEF Keys, RequestRun
    <2>2. CASE /\ RequestDeferred(r, overlap)
               /\ InStatus(job, {"deferred"}) # {}
      <3>1. job' = job \/ job' = Move(job, {"running"}, "cancel_requested")
        BY <2>2 DEF RequestDeferred
      <3>2. Calm(job, job')
        BY <3>1, CalmMoves, CalmRefl
      <3>3. QED
        BY <2>1, <3>2, SettleStep
    <2>3. CASE /\ RequestDeferred(r, overlap)
               /\ InStatus(job, {"deferred"}) = {}
      <3> DEFINE stopped == IF overlap = "cancel_and_restart"
                            THEN Move(job, {"running"}, "cancel_requested")
                            ELSE job
                 row == NewRow("deferred", programme.gen, now, 0)
      <3>1. Calm(job, stopped)
        BY CalmMoves, CalmRefl
      <3>2. stopped \in Tables /\ Good(stopped, programme)
        BY <3>1, CalmGood DEF Calm
      <3>3. stopped[r].status = "none"
        BY <2>1, <3>1 DEF Calm, CalmRow, WaitingStatuses, ActiveStatuses
      <3>4. InStatus(stopped, {"deferred"}) = {}
        BY <2>3, <3>1 DEF InStatus, Calm, CalmRow, TerminalStatuses
      <3>5. row.status = "deferred" /\ row.gen = programme.gen /\ row.version = 0
        <4>1. "deferred" \in Statuses
          BY StatusValues
        <4>2. QED
          BY <4>1, NewRowType
      <3>6. job' = [stopped EXCEPT ![r] = row]
        BY <2>3 DEF RequestDeferred
      <3> HIDE DEF stopped, row
      <3>7. Good(job', programme) /\ Permitted(stopped, job')
        <4>1. /\ row.status \in WaitingStatuses
              /\ row.version = IF row.status = "pending" THEN programme.published ELSE 0
          BY <3>5 DEF WaitingStatuses
        <4>2. InStatus(stopped, {row.status}) = {}
          BY <3>4, <3>5
        <4>3. row.gen = programme.gen
          BY <3>5
        <4>4. QED
          BY <2>1, <3>2, <3>3, <3>6, <4>1, <4>2, <4>3, AddGood
      <3>8. QED
        BY <2>1, <3>1, <3>7, CalmThenPermitted DEF Advances
    <2>4. CASE RequestPending(r)
      <3> DEFINE moved == Move(job, {"pending"}, "cancelled")
                 row == NewRow("pending", programme.gen, now, programme.published)
      <3>1. {"pending"} \in SUBSET WaitingStatuses
        BY DEF WaitingStatuses
      <3>2. Calm(job, moved) /\ InStatus(moved, {"pending"}) = {}
        BY <3>1, CalmMoves
      <3>3. moved \in Tables /\ Good(moved, programme)
        BY <3>2, CalmGood DEF Calm
      <3>4. moved[r].status = "none"
        BY <2>1, <3>2 DEF Calm, CalmRow, WaitingStatuses, ActiveStatuses
      <3>5. /\ row.status = "pending" /\ row.gen = programme.gen
            /\ row.version = programme.published
        <4>1. "pending" \in Statuses
          BY StatusValues
        <4>2. QED
          BY <4>1, NewRowType
      <3>6. job' = [moved EXCEPT ![r] = row]
        BY <2>4 DEF RequestPending
      <3> HIDE DEF moved, row
      <3>7. Good(job', programme) /\ Permitted(moved, job')
        <4>1. /\ row.status \in WaitingStatuses
              /\ row.version = IF row.status = "pending" THEN programme.published ELSE 0
          BY <3>5 DEF WaitingStatuses
        <4>2. InStatus(moved, {row.status}) = {}
          BY <3>2, <3>5
        <4>3. row.gen = programme.gen
          BY <3>5
        <4>4. QED
          BY <2>1, <3>2, <3>3, <3>4, <3>6, <4>1, <4>2, <4>3, AddGood
      <3>8. QED
        BY <2>1, <3>2, <3>7, CalmThenPermitted DEF Advances
    <2>5. QED
      BY <1>3, <2>2, <2>3, <2>4 DEF RequestRun
  <1>4. ASSUME NEW k \in Keys, CancelRun(k)
        PROVE  Advances
    <2>1. job[k] \in Rows /\ programme' = programme
      BY <1>4 DEF CancelRun
    <2>2. CASE job[k].status \in WaitingStatuses
      <3> DEFINE row == [job[k] EXCEPT !.status = "cancelled"]
      <3>1. row \in Rows
        BY <2>1, StatusValues DEF Rows
      <3>2. CalmRow(job[k], row)
        BY <2>1, <2>2 DEF CalmRow, KeepsAttempt, Rows, Allowed, WaitingStatuses,
                          TerminalStatuses
      <3>3. job' = PromoteDeferred([job EXCEPT ![k] = row])
        BY <1>4, <2>2 DEF CancelRun, WaitingStatuses
      <3> HIDE DEF row
      <3>4. QED
        BY <2>1, <3>1, <3>2, <3>3, CalmUpdate, SettleStep
    <2>3. CASE job[k].status = "running"
      <3> DEFINE row == [job[k] EXCEPT !.status = "cancel_requested"]
      <3>1. row \in Rows
        BY <2>1, StatusValues DEF Rows
      <3>2. CalmRow(job[k], row)
        BY <2>1, <2>3 DEF CalmRow, KeepsAttempt, Rows, Allowed, ActiveStatuses
      <3>3. job' = [job EXCEPT ![k] = row]
        BY <1>4, <2>3 DEF CancelRun, WaitingStatuses
      <3> HIDE DEF row
      <3>4. QED
        BY <2>1, <3>1, <3>2, <3>3, RowStep
    <2>4. QED
      BY <1>4, <2>2, <2>3 DEF CancelRun
  <1>5. QED
    BY <1>1, <1>2, <1>3, <1>4 DEF Command

LEMMA DispatchStep ==
    ASSUME TypeOK, Good(job, programme), Dispatch \/ DispatchFault
    PROVE  Advances
  <1> USE Typing
  <1>1. ASSUME NEW k \in Keys, PrepareDispatch(k)
        PROVE  Advances
    <2> DEFINE attempt == job[k].sent + 1
               row == [job[k] EXCEPT !.dispatch = "dispatching", !.sent = attempt,
                                     !.dispatchToken = attempt,
                                     !.dispatchLease = now + DispatchLease]
    <2>1. /\ job[k] \in Rows /\ attempt \in Nat
          /\ now + DispatchLease \in Nat
      BY ConstantsAssumption DEF Rows
    <2>2. job' = [job EXCEPT ![k] = row] /\ programme' = programme
      BY <1>1 DEF PrepareDispatch
    <2>3. row \in Rows
      <3> HIDE DEF attempt
      <3>1. QED
        BY <2>1, DispatchRowType
    <2>4. CalmRow(job[k], row)
      BY <2>1, CalmDispatch
    <2> HIDE DEF row
    <2>5. QED
      BY <2>2, <2>3, <2>4, RowStep
  <1>2. ASSUME NEW s \in sends, NEW state \in {"dispatched", "repair_needed"},
               job' = Recorded(s, state), programme' = programme
        PROVE  Advances
    <2> DEFINE row == [job[s.key] EXCEPT !.dispatch = state, !.dispatchToken = 0,
                                         !.dispatchLease = Null]
    <2>1. s.key \in Keys /\ job[s.key] \in Rows
      BY DEF TypeOK, Sends
    <2>2. job' = job \/ job' = [job EXCEPT ![s.key] = row]
      BY <1>2 DEF Recorded
    <2>3. row \in Rows /\ CalmRow(job[s.key], row)
      BY <2>1, DispatchRowType, CalmDispatch
    <2> HIDE DEF row
    <2>4. QED
      BY <1>2, <2>1, <2>2, <2>3, RowStep, SameStep
  <1>3. ASSUME NEW s \in sends, SendWake(s) \/ CrashDispatcher(s)
        PROVE  Advances
    BY <1>3, SameStep DEF SendWake, CrashDispatcher
  <1>4. ASSUME NEW s \in sends, RecordDispatch(s) \/ RecordFailedSend(s)
        PROVE  Advances
    BY <1>2, <1>4 DEF RecordDispatch, RecordFailedSend
  <1>5. QED
    BY <1>1, <1>3, <1>4 DEF Dispatch, DispatchFault

\* The end of an active run: closed with a status it may end with, from a table
\* that differs calmly from the current one, and then the promotion.
LEMMA EndStep ==
    ASSUME TypeOK, Good(job, programme), NEW tbl, Calm(job, tbl),
           NEW k \in Keys, tbl[k].status \in ActiveStatuses,
           NEW st \in Allowed(tbl[k].status) \cap TerminalStatuses,
           job' = PromoteDeferred(Close(tbl, k, st)), programme' = programme
    PROVE  Advances
  <1>1. tbl \in Tables
    BY DEF Calm
  <1>2. Calm(tbl, Close(tbl, k, st))
    BY <1>1, CalmClose
  <1>3. Calm(job, Close(tbl, k, st))
    BY <1>2, CalmCompose
  <1>4. QED
    BY <1>3, SettleStep

LEMMA EndingStatuses ==
    /\ "failed" \in Allowed("running") \cap TerminalStatuses
    /\ "failed" \in Allowed("cancel_requested") \cap TerminalStatuses
    /\ "cancelled" \in Allowed("cancel_requested") \cap TerminalStatuses
    /\ CompletionStatuses \subseteq Allowed("running") \cap TerminalStatuses
    /\ {"running", "cancel_requested"} \subseteq ActiveStatuses
  BY ConstantsAssumption DEF Allowed, TerminalStatuses, ActiveStatuses

LEMMA WakeStepAdvances ==
    ASSUME TypeOK, Good(job, programme), NEW w \in wakes, WakeStep(w), ~ WakeClaims(w)
    PROVE  Advances
  <1> USE Typing
  <1>1. w.key \in Keys /\ job[w.key] \in Rows
    BY DEF TypeOK, Wakes
  <1>2. CASE WakeIgnored(w) \/ TriggerRefused(w) \/ PostTrigger(w)
    BY <1>2, SameStep DEF WakeIgnored, TriggerRefused, PostTrigger
  <1>3. CASE WakeCancels(w)
    <2> DEFINE closed == Close(job, w.key, "cancelled")
               row == [closed[w.key] EXCEPT !.deadline = Null]
    <2>1. Calm(job, closed)
      BY <1>1, <1>3, CalmClose, EndingStatuses DEF WakeCancels
    <2>2. job' = PromoteDeferred([closed EXCEPT ![w.key] = row]) /\ programme' = programme
      BY <1>3 DEF WakeCancels
    <2>3. closed \in Tables /\ closed[w.key] \in Rows
      BY <1>1, <2>1 DEF Calm, Tables
    <2>4. row \in Rows /\ CalmRow(closed[w.key], row)
      <3> HIDE DEF closed
      <3>1. QED
        BY <2>3, CalmCallback DEF Rows
    <2> HIDE DEF closed, row
    <2>5. Calm(closed, [closed EXCEPT ![w.key] = row])
      BY <1>1, <2>3, <2>4, CalmUpdate
    <2>6. Calm(job, [closed EXCEPT ![w.key] = row])
      BY <2>1, <2>5, CalmCompose
    <2>7. QED
      BY <2>2, <2>6, SettleStep
  <1>4. CASE WakeFailsOverdue(w)
    <2>1. Calm(job, job') /\ programme' = programme
      BY <1>1, <1>4, CalmClose, EndingStatuses DEF WakeFailsOverdue
    <2>2. QED
      BY <2>1, SettleStep
  <1>5. CASE WakeResumes(w)
    <2> DEFINE lease == Least(job[w.key].deadline, now + HeartbeatLease)
               row == [job[w.key] EXCEPT !.lease = lease]
    <2>1. lease \in Nat
      BY <1>1, <1>5, ConstantsAssumption DEF WakeResumes, Least, Rows, Null
    <2>2. job' = [job EXCEPT ![w.key] = row] /\ programme' = programme
      BY <1>5 DEF WakeResumes
    <2>3. row \in Rows
      <3> HIDE DEF lease
      <3>1. QED
        BY <1>1, <2>1 DEF Rows
    <2>4. CalmRow(job[w.key], row)
      BY <1>1, CalmCallback
    <2> HIDE DEF row
    <2>5. QED
      BY <1>1, <2>2, <2>3, <2>4, RowStep
  <1>6. CASE AuthorizeTrigger(w)
    <2> DEFINE row == [job[w.key] EXCEPT !.authorized = TRUE]
    <2>1. job' = [job EXCEPT ![w.key] = row] /\ programme' = programme
      BY <1>6 DEF AuthorizeTrigger
    <2>2. row \in Rows /\ CalmRow(job[w.key], row)
      BY <1>1, CalmCallback DEF Rows
    <2> HIDE DEF row
    <2>3. QED
      BY <1>1, <2>1, <2>2, RowStep
  <1>7. CASE WakeDefers(w)
    <2> DEFINE tbl == IF InStatus(job, {"deferred"}) # {}
                      THEN [job EXCEPT ![w.key].status = "coalesced"]
                      ELSE [job EXCEPT ![w.key] = [@ EXCEPT !.status = "deferred",
                                                            !.version = 0]]
    <2>1. /\ Matches(w)
          /\ job[w.key].status = "pending"
          /\ programme.state = "active"
          /\ job[w.key].gen = programme.gen
          /\ WithNextSlot(tbl, w.key)
      BY <1>7 DEF WakeDefers, Claimable, Matches
    <2>2. /\ [job[w.key] EXCEPT !.status = "deferred", !.version = 0] \in Rows
          /\ [job[w.key] EXCEPT !.status = "coalesced"] \in Rows
      BY <1>1, StatusValues DEF Rows
    <2>3. tbl \in Tables
      BY <1>1, <2>2 DEF Tables
    <2>4. /\ \A k \in Keys \ {w.key} : tbl[k] = job[k]
          /\ tbl[w.key].gen = programme.gen
          /\ \/ tbl[w.key].status = "coalesced"
             \/ /\ tbl[w.key].status = "deferred"
                /\ tbl[w.key].version = 0
                /\ InStatus(job, {"deferred"}) = {}
      BY <1>1, <2>1 DEF Tables, Rows
    <2>5. \A k \in Keys : job[k].status = "pending" => k = w.key
      BY <1>1, <2>1 DEF Good, OneEach, AtMostOne
    <2> HIDE DEF tbl
    <2>6. \A k \in Keys : tbl[k].status # "pending"
      BY <2>4, <2>5
    <2>7. OneEach(tbl)
      BY <2>4, <2>6 DEF Good, OneEach, AtMostOne, InStatus, ActiveStatuses
    <2>8. Current(tbl, programme)
      BY <2>1, <2>4, <2>6 DEF Good, Current, WaitingStatuses
    <2>9. InStatus(tbl, {"pending"}) = {}
      BY <2>6 DEF InStatus
    <2>10. /\ Good(job', programme')
           /\ \A j \in Keys :
                 \/ job'[j] = tbl[j]
                 \/ tbl[j].status = "none" /\ job'[j].status = "pending"
      BY <1>1, <2>1, <2>3, <2>7, <2>8, <2>9, NextSlotGood DEF Good
    <2>11. ASSUME NEW k \in Keys PROVE PermittedRow(job[k], job'[k])
      <3>1. CASE k = w.key
        <4>1. job'[k].status \in {"deferred", "coalesced"}
          BY <2>4, <2>10, <3>1
        <4>2. QED
          BY <2>1, <3>1, <4>1 DEF PermittedRow, Allowed, StartedStatuses, ActiveStatuses,
                                  TerminalStatuses
      <3>2. CASE k # w.key
        <4>1. \/ job'[k] = job[k] /\ job[k].status \in Statuses
              \/ job[k].status = "none" /\ job'[k].status = "pending"
          BY <2>4, <2>10, <3>2 DEF Tables, Rows
        <4>2. QED
          BY <4>1 DEF PermittedRow, KeepsAttempt, Allowed, StartedStatuses, Statuses,
                      WaitingStatuses, ActiveStatuses, TerminalStatuses
      <3>3. QED
        BY <3>1, <3>2
    <2>12. QED
      BY <2>10, <2>11 DEF Advances, Permitted
  <1>8. QED
    BY <1>2, <1>3, <1>4, <1>5, <1>6, <1>7 DEF WakeStep

LEMMA ClaimStep ==
    ASSUME TypeOK, Good(job, programme), NEW w \in wakes, WakeClaims(w)
    PROVE  w.key \in Keys /\ Claims(w.key)
  <1> USE Typing
  <1> DEFINE attempt == job[w.key].attempts + 1
             row == [job[w.key] EXCEPT !.status = "running",
                       !.version = programme.published,
                       !.attempts = attempt, !.token = attempt,
                       !.deadline = now + OverallDeadline,
                       !.lease = now + HeartbeatLease,
                       !.authorized = FALSE, !.claimed = FALSE]
             tbl == [job EXCEPT ![w.key] = row]
  <1>1. w.key \in Keys /\ job[w.key] \in Rows
    BY DEF TypeOK, Wakes
  <1>2. /\ job[w.key].status = "pending"
        /\ job[w.key].runAt <= now
        /\ programme.state = "active"
        /\ InStatus(job, ActiveStatuses) = {}
        /\ WithNextSlot(tbl, w.key)
    BY DEF WakeClaims, Claimable, Matches, Awake
  <1>3. /\ attempt \in Nat
        /\ now + OverallDeadline \in Nat
        /\ now + HeartbeatLease \in Nat
    BY <1>1, ConstantsAssumption DEF Rows
  <1>4. row \in Rows
    <2> HIDE DEF attempt
    <2>1. QED
      BY <1>1, <1>3, ClaimRowType
  <1>5. row.status = "running" /\ row.version = programme.published
    BY <1>1 DEF Rows
  <1> HIDE DEF row
  <1>6. /\ tbl \in Tables
        /\ tbl[w.key] = row
        /\ \A k \in Keys \ {w.key} : tbl[k] = job[k]
    BY <1>1, <1>4 DEF Tables
  <1>7. \A k \in Keys : job[k].status = "pending" => k = w.key
    BY <1>1, <1>2 DEF Good, OneEach, AtMostOne
  <1>8. \A k \in Keys : job[k].status \notin ActiveStatuses
    BY <1>2 DEF InStatus
  <1> HIDE DEF tbl
  <1>9. OneEach(tbl)
    BY <1>5, <1>6, <1>7, <1>8 DEF Good, OneEach, AtMostOne
  <1>10. Current(tbl, programme)
    BY <1>5, <1>6 DEF Good, Current, WaitingStatuses
  <1>11. InStatus(tbl, {"pending"}) = {}
    BY <1>5, <1>6, <1>7 DEF InStatus
  <1>12. /\ Good(job', programme')
         /\ \A j \in Keys :
               \/ job'[j] = tbl[j]
               \/ tbl[j].status = "none" /\ job'[j].status = "pending"
    BY <1>1, <1>2, <1>6, <1>9, <1>10, <1>11, NextSlotGood DEF Good
  <1>13. job'[w.key].status = "running" /\ job'[w.key].version = programme.published
    BY <1>1, <1>5, <1>6, <1>12
  <1>14. ASSUME NEW k \in Keys \ {w.key} PROVE PermittedRow(job[k], job'[k])
    <2>1. \/ job'[k] = job[k] /\ job[k].status \in Statuses
          \/ job[k].status = "none" /\ job'[k].status = "pending"
      BY <1>6, <1>12 DEF Tables, Rows
    <2>2. QED
      BY <2>1 DEF PermittedRow, KeepsAttempt, Allowed, StartedStatuses, Statuses,
                  WaitingStatuses, ActiveStatuses, TerminalStatuses
  <1>15. QED
    BY <1>1, <1>2, <1>12, <1>13, <1>14 DEF Claims

LEMMA CollectorStep ==
    ASSUME TypeOK, Good(job, programme), Collector
    PROVE  Advances
  <1> SUFFICES ASSUME NEW c \in posted,
                      \/ \E open \in BOOLEAN : CallbackProgress(c, open)
                      \/ \E st \in CompletionStatuses, more \in BOOLEAN :
                            CallbackCompletion(c, st, more)
                      \/ CallbackCancelled(c)
               PROVE  Advances
    BY DEF Collector
  <1> USE Typing
  <1>1. c.key \in Keys /\ job[c.key] \in Rows
    BY DEF TypeOK
  <1>2. ASSUME NEW open \in BOOLEAN, CallbackProgress(c, open) PROVE Advances
    <2> DEFINE row == [job[c.key] EXCEPT !.claimed = TRUE, !.lease = Heartbeat(c.key),
                                         !.open = job[c.key].open \/ open]
    <2>1. job[c.key].open \/ open \in BOOLEAN
      BY <1>1 DEF Rows
    <2>2. row \in Rows /\ CalmRow(job[c.key], row)
      BY <1>1, <2>1, HeartbeatType, CallbackRowType, CalmCallback
    <2>3. job' = [job EXCEPT ![c.key] = row] /\ programme' = programme
      BY <1>2 DEF CallbackProgress
    <2> HIDE DEF row
    <2>4. QED
      BY <1>1, <2>2, <2>3, RowStep
  <1>3. ASSUME NEW st \in CompletionStatuses, NEW more \in BOOLEAN,
               CallbackCompletion(c, st, more)
        PROVE  Advances
    <2> DEFINE provider == IF more THEN job[c.key].provider ELSE st
               row == [job[c.key] EXCEPT !.claimed = TRUE, !.provider = provider]
               done == [job EXCEPT ![c.key] = row]
    <2>1. provider \in CompletionStatuses \cup {"none"}
      BY <1>1 DEF Rows
    <2>2. row \in Rows /\ CalmRow(job[c.key], row)
      <3> HIDE DEF provider
      <3>1. QED
        BY <1>1, <2>1, CallbackRowType, CalmCallback
    <2>3. Calm(job, done) /\ done[c.key] = row
      <3> HIDE DEF row
      <3>1. QED
        BY <1>1, <2>2, CalmUpdate DEF Tables
    <2>4. row.status = "running"
      BY <1>1, <1>3 DEF CallbackCompletion, Rows
    <2>5. /\ job' = IF more \/ job[c.key].open
                    THEN [done EXCEPT ![c.key].lease = Heartbeat(c.key)]
                    ELSE PromoteDeferred(Close(done, c.key, st))
          /\ programme' = programme
      BY <1>3 DEF CallbackCompletion
    <2> HIDE DEF done, row
    <2>6. CASE more \/ job[c.key].open
      <3> DEFINE later == [done[c.key] EXCEPT !.lease = Heartbeat(c.key)]
      <3>1. done \in Tables /\ done[c.key] \in Rows
        BY <1>1, <2>3 DEF Calm, Tables
      <3>2. later \in Rows /\ CalmRow(done[c.key], later)
        BY <1>1, <3>1, HeartbeatType, CalmCallback DEF Rows
      <3>3. job' = [done EXCEPT ![c.key] = later]
        BY <2>5, <2>6
      <3> HIDE DEF later
      <3>4. Calm(done, job')
        BY <1>1, <3>1, <3>2, <3>3, CalmUpdate
      <3>5. Calm(job, job')
        BY <2>3, <3>4, CalmCompose
      <3>6. QED
        BY <2>5, <3>5, SettleStep
    <2>7. CASE ~ (more \/ job[c.key].open)
      <3>1. /\ done[c.key].status \in ActiveStatuses
            /\ st \in Allowed(done[c.key].status) \cap TerminalStatuses
        BY <2>3, <2>4, EndingStatuses
      <3>2. job' = PromoteDeferred(Close(done, c.key, st))
        BY <2>5, <2>7
      <3>3. QED
        BY <1>1, <2>3, <2>5, <3>1, <3>2, EndStep
    <2>8. QED
      BY <2>6, <2>7
  <1>4. CASE CallbackCancelled(c)
    <2> DEFINE row == [job[c.key] EXCEPT !.claimed = TRUE]
               tbl == [job EXCEPT ![c.key] = row]
    <2>1. row \in Rows /\ CalmRow(job[c.key], row) /\ row.status = "cancel_requested"
      BY <1>1, <1>4, CalmCallback DEF CallbackCancelled, Rows
    <2>2. Calm(job, tbl) /\ tbl[c.key] = row
      <3> HIDE DEF row
      <3>1. QED
        BY <1>1, <2>1, CalmUpdate DEF Tables
    <2>3. job' = PromoteDeferred(Close(tbl, c.key, "cancelled")) /\ programme' = programme
      BY <1>4 DEF CallbackCancelled
    <2> HIDE DEF tbl, row
    <2>4. /\ tbl[c.key].status \in ActiveStatuses
          /\ "cancelled" \in Allowed(tbl[c.key].status) \cap TerminalStatuses
      BY <2>1, <2>2, EndingStatuses
    <2>5. QED
      BY <1>1, <2>2, <2>3, <2>4, EndStep
  <1>5. QED
    BY <1>2, <1>3, <1>4

LEMMA InterpretationStep ==
    ASSUME TypeOK, Good(job, programme), Interpretation
    PROVE  Advances
  <1> SUFFICES ASSUME NEW k \in Keys, NEW open \in BOOLEAN, NEW receipt \in BOOLEAN,
                      InterpretationSettles(k, open, receipt)
               PROVE  Advances
    BY DEF Interpretation
  <1> USE Typing
  <1> DEFINE row == [job[k] EXCEPT !.open = open]
             settled == [job EXCEPT ![k] = row]
  <1>1. /\ job[k] \in Rows
        /\ row \in Rows
        /\ CalmRow(job[k], row)
        /\ row.status = job[k].status
    BY CalmCallback DEF Rows
  <1>2. Calm(job, settled) /\ settled[k] = row
    <2> HIDE DEF row
    <2>1. QED
      BY <1>1, CalmUpdate DEF Tables
  <1>3. /\ job[k].status \in ActiveStatuses
        /\ programme' = programme
        /\ job' = IF open THEN settled
                  ELSE IF job[k].status = "cancel_requested"
                       THEN PromoteDeferred(Close(settled, k, "cancelled"))
                       ELSE IF receipt /\ job[k].provider # "none"
                            THEN PromoteDeferred(Close(settled, k, job[k].provider))
                            ELSE settled
    BY DEF InterpretationSettles, ActiveStatuses
  <1> HIDE DEF row, settled
  <1>4. settled[k].status = job[k].status
    BY <1>1, <1>2
  <1>5. CASE job' = settled
    BY <1>2, <1>3, <1>5, SettleStep
  <1>6. CASE /\ job[k].status = "cancel_requested"
             /\ job' = PromoteDeferred(Close(settled, k, "cancelled"))
    <2>1. "cancelled" \in Allowed(settled[k].status) \cap TerminalStatuses
      BY <1>4, <1>6, EndingStatuses
    <2>2. QED
      BY <1>2, <1>3, <1>4, <1>6, <2>1, EndStep
  <1>7. CASE /\ job[k].status # "cancel_requested"
             /\ job[k].provider # "none"
             /\ job' = PromoteDeferred(Close(settled, k, job[k].provider))
    <2>1. job[k].provider \in CompletionStatuses
      BY <1>1, <1>7 DEF Rows
    <2>2. settled[k].status = "running"
      BY <1>3, <1>4, <1>7 DEF ActiveStatuses
    <2>3. job[k].provider \in Allowed(settled[k].status) \cap TerminalStatuses
      BY <2>1, <2>2, EndingStatuses
    <2>4. QED
      BY <1>2, <1>3, <1>4, <1>7, <2>3, EndStep
  <1>8. QED
    BY <1>3, <1>5, <1>6, <1>7

LEMMA ReconcileStep ==
    ASSUME TypeOK, Good(job, programme), Reconcile
    PROVE  Advances
  <1> USE Typing
  <1> DEFINE repaired == [k \in Keys |->
                IF LeaseLapsed(k) \/ Unclaimed(k)
                THEN [job[k] EXCEPT !.dispatch = "repair_needed", !.dispatchLease = Null,
                                    !.dispatchToken = 0]
                ELSE IF Overdue(k)
                     THEN [job[k] EXCEPT !.status = "failed", !.token = 0, !.lease = Null]
                     ELSE job[k]]
  <1>1. ASSUME NEW k \in Keys
        PROVE  repaired[k] \in Rows /\ CalmRow(job[k], repaired[k])
    <2>1. job[k] \in Rows
      OBVIOUS
    <2>2. CASE LeaseLapsed(k) \/ Unclaimed(k)
      <3>1. repaired[k] = [job[k] EXCEPT !.dispatch = "repair_needed",
                                         !.dispatchLease = Null, !.dispatchToken = 0]
        BY <2>2
      <3> HIDE DEF repaired
      <3>2. [job[k] EXCEPT !.dispatch = "repair_needed", !.dispatchLease = Null,
                           !.dispatchToken = 0] \in Rows
        BY <2>1 DEF Rows
      <3>3. CalmRow(job[k], [job[k] EXCEPT !.dispatch = "repair_needed",
                                           !.dispatchLease = Null, !.dispatchToken = 0])
        BY <2>1, CalmDispatch
      <3>4. QED
        BY <3>1, <3>2, <3>3
    <2>3. CASE ~ (LeaseLapsed(k) \/ Unclaimed(k)) /\ Overdue(k)
      <3>1. repaired[k] = [job[k] EXCEPT !.status = "failed", !.token = 0, !.lease = Null]
        BY <2>3
      <3> HIDE DEF repaired
      <3>2. repaired[k] \in Rows
        <4>1. [job[k] EXCEPT !.status = "failed", !.token = 0, !.lease = Null] \in Rows
          BY <2>1, StatusValues DEF Rows
        <4>2. QED
          BY <3>1, <4>1
      <3>3. /\ repaired[k].status = "failed"
            /\ repaired[k].gen = job[k].gen
            /\ repaired[k].version = job[k].version
            /\ KeepsAttempt(job[k], repaired[k])
        BY <2>1, <3>1 DEF Rows, KeepsAttempt
      <3>4. /\ job[k].status \in ActiveStatuses
            /\ "failed" \in Allowed(job[k].status) \cap TerminalStatuses
        BY <2>3, EndingStatuses DEF Overdue, ActiveStatuses
      <3>5. QED
        BY <3>2, <3>3, <3>4 DEF CalmRow
    <2>4. CASE ~ (LeaseLapsed(k) \/ Unclaimed(k)) /\ ~ Overdue(k)
      <3>1. repaired[k] = job[k]
        BY <2>4
      <3>2. QED
        BY <2>1, <3>1 DEF CalmRow, KeepsAttempt
    <2>5. QED
      BY <2>2, <2>3, <2>4
  <1>2. Calm(job, repaired)
    BY <1>1 DEF Calm, Tables
  <1>3. job' = repaired \/ job' = PromoteDeferred(repaired)
    BY DEF Reconcile
  <1>4. programme' = programme
    BY DEF Reconcile
  <1> HIDE DEF repaired
  <1>5. QED
    BY <1>2, <1>3, <1>4, SettleStep

LEMMA StepShape ==
    ASSUME TypeOK, Good(job, programme), [Next]_vars
    PROVE  Advances \/ \E k \in Keys : Claims(k)
  <1>1. CASE Wake
    <2>1. PICK w \in wakes : WakeStep(w)
      BY <1>1 DEF Wake
    <2>2. QED
      BY <2>1, WakeStepAdvances, ClaimStep
  <1>2. CASE WakeFault
    BY <1>2, SameStep DEF WakeFault, StepFails, WakeNotDue
  <1>3. CASE Tick
    BY <1>3, SameStep DEF Tick
  <1>4. CASE UNCHANGED vars
    BY <1>4, SameStep DEF vars
  <1>5. QED
    BY <1>1, <1>2, <1>3, <1>4, OperatorStep, DispatchStep, CollectorStep,
       InterpretationStep, ReconcileStep DEF Next

-------------------------------------------------------------------------------
(* The invariants *)

\* The induction hypothesis: with the types, the two invariants carry each other.
FlightInv == TypeOK /\ SingleFlight /\ WaitingRunsAreCurrent

LEMMA FlightInit == Init => FlightInv
  <1> SUFFICES ASSUME Init PROVE FlightInv
    OBVIOUS
  <1>1. \A k \in Keys : job[k].status = "none"
    BY DEF Init, NoRow
  <1>2. SingleFlight
    BY <1>1 DEF SingleFlight, ActiveStatuses
  <1>3. WaitingRunsAreCurrent
    BY <1>1 DEF WaitingRunsAreCurrent, WaitingStatuses
  <1>4. QED
    BY <1>2, <1>3, TypeInit DEF FlightInv

LEMMA FlightStep == FlightInv /\ [Next]_vars => FlightInv'
  <1> SUFFICES ASSUME FlightInv, [Next]_vars PROVE FlightInv'
    OBVIOUS
  <1>1. TypeOK /\ Good(job, programme)
    BY GoodState DEF FlightInv
  <1>2. Good(job', programme')
    BY <1>1, StepShape DEF Advances, Claims
  <1>3. TypeOK'
    BY <1>1, TypeStep
  <1>4. QED
    BY <1>2, <1>3, GoodNextState DEF FlightInv

LEMMA FlightCorrect == Spec => []FlightInv
  BY FlightInit, FlightStep, PTL DEF Spec

\* At most one pending, one deferred and one active run: the partial unique
\* indexes of migration 0086 never abort a transaction.
THEOREM SingleFlightHolds == Spec => []SingleFlight
  <1>1. FlightInv => SingleFlight
    BY DEF FlightInv
  <1>2. QED
    BY <1>1, FlightCorrect, PTL

\* Every waiting run belongs to the active publication.
THEOREM WaitingRunsStayCurrent == Spec => []WaitingRunsAreCurrent
  <1>1. FlightInv => WaitingRunsAreCurrent
    BY DEF FlightInv
  <1>2. QED
    BY <1>1, FlightCorrect, PTL

-------------------------------------------------------------------------------
(* The order of a run's statuses *)

LEMMA ShapeOfStep ==
    ASSUME FlightInv, [Next]_vars
    PROVE  Permitted(job, job') \/ \E k \in Keys : Claims(k)
  BY GoodState, StepShape DEF FlightInv, Advances

\* A run that ended keeps the status it ended with.
THEOREM EndedRunsStayEnded == Spec => RunsEndOnce
  <1>1. FlightInv /\ [Next]_vars =>
          [\A k \in Keys :
              job[k].status \in TerminalStatuses => job'[k].status = job[k].status]_vars
    <2> SUFFICES ASSUME FlightInv, [Next]_vars, NEW k \in Keys,
                        job[k].status \in TerminalStatuses
                 PROVE  job'[k].status = job[k].status
      OBVIOUS
    <2>1. PermittedRow(job[k], job'[k])
      BY ShapeOfStep DEF Permitted, Claims, TerminalStatuses
    <2>2. QED
      BY <2>1 DEF PermittedRow, Allowed, TerminalStatuses
  <1>2. QED
    BY <1>1, FlightCorrect, PTL DEF Spec, RunsEndOnce

\* A run asked to stop is never resumed, completed or parked.
THEOREM CancelRequestsAreFinal == Spec => CancelRequestIsFinal
  <1>1. FlightInv /\ [Next]_vars =>
          [\A k \in Keys :
              job[k].status = "cancel_requested" =>
                  job'[k].status \in {"cancel_requested", "cancelled", "failed"}]_vars
    <2> SUFFICES ASSUME FlightInv, [Next]_vars, NEW k \in Keys,
                        job[k].status = "cancel_requested"
                 PROVE  job'[k].status \in {"cancel_requested", "cancelled", "failed"}
      OBVIOUS
    <2>1. PermittedRow(job[k], job'[k])
      BY ShapeOfStep DEF Permitted, Claims
    <2>2. QED
      BY <2>1 DEF PermittedRow, Allowed
  <1>2. QED
    BY <1>1, FlightCorrect, PTL DEF Spec, CancelRequestIsFinal

\* Only a due, pending run of the current publication is claimed, and only when
\* nothing is in flight.
THEOREM ClaimsStayFenced == Spec => ClaimsAreFenced
  <1>1. FlightInv /\ [Next]_vars =>
          [\A k \in Keys :
              job[k].status # "running" /\ job'[k].status = "running" =>
                  /\ job[k].status = "pending"
                  /\ job[k].runAt <= now
                  /\ programme.state = "active"
                  /\ job'[k].version = programme.published
                  /\ InStatus(job, ActiveStatuses) = {}]_vars
    <2> SUFFICES ASSUME FlightInv, [Next]_vars, NEW k \in Keys,
                        job[k].status # "running", job'[k].status = "running"
                 PROVE  Claims(k)
      BY DEF Claims
    <2>1. job[k].status \in Statuses
      BY Typing DEF FlightInv, Rows
    <2>2. ~ PermittedRow(job[k], job'[k])
      BY <2>1 DEF PermittedRow, Allowed, Statuses, WaitingStatuses, ActiveStatuses,
                  TerminalStatuses
    <2>3. QED
      BY <2>2, ShapeOfStep DEF Permitted, Claims
  <1>2. QED
    BY <1>1, FlightCorrect, PTL DEF Spec, ClaimsAreFenced

-------------------------------------------------------------------------------
(* The authority of collectors *)

StartedWith(k, token) ==
    /\ job[k].authorized
    /\ job[k].attempts = token
    /\ job[k].status \in StartedStatuses

\* CollectorAuthorized is not inductive: the POST leaves the database behind.
\* What the wake was authorised for must still be true when it posts.
FenceInv ==
    /\ \A w \in wakes : w.phase = "authorized" => StartedWith(w.key, w.token)
    /\ \A c \in posted : StartedWith(c.key, c.token)

LEMMA StartedStays ==
    ASSUME FlightInv, [Next]_vars, NEW k \in Keys, NEW token, StartedWith(k, token)
    PROVE  StartedWith(k, token)'
  <1>1. PermittedRow(job[k], job'[k])
    BY ShapeOfStep
       DEF Permitted, Claims, StartedWith, StartedStatuses, ActiveStatuses, TerminalStatuses
  <1>2. job'[k].status \in StartedStatuses
    BY <1>1 DEF PermittedRow, Allowed, StartedWith, StartedStatuses, ActiveStatuses,
                TerminalStatuses
  <1>3. QED
    BY <1>1, <1>2 DEF PermittedRow, KeepsAttempt, StartedWith

LEMMA FenceStep == FlightInv /\ FenceInv /\ [Next]_vars => FenceInv'
  <1> SUFFICES ASSUME FlightInv, FenceInv, [Next]_vars PROVE FenceInv'
    OBVIOUS
  <1>1. /\ \A w \in wakes : w \in Wakes /\ w.key \in Keys
        /\ \A c \in posted : c.key \in Keys
        /\ \A k \in Keys : job[k] \in Rows
    BY Typing DEF FlightInv, TypeOK, Wakes
  <1>2. \A w \in wakes : w.phase = "authorized" => StartedWith(w.key, w.token)'
    BY <1>1, StartedStays DEF FenceInv
  <1>3. \A c \in posted : StartedWith(c.key, c.token)'
    BY <1>1, StartedStays DEF FenceInv
  <1>4. ASSUME NEW v \in wakes', v \notin wakes, v.phase = "authorized"
        PROVE  StartedWith(v.key, v.token)'
    <2>1. PICK w \in wakes : AuthorizeTrigger(w) /\ v = [w EXCEPT !.phase = "authorized"]
      <3>1. CASE Wake
        <4>1. PICK w \in wakes : WakeStep(w)
          BY <3>1 DEF Wake
        <4>2. ASSUME NEW token, v = Holding(w, token) \/ v = Requeued(w)
              PROVE  FALSE
          BY <1>1, <1>4, <4>2 DEF Holding, Requeued, Wakes
        <4>3. CASE WakeResumes(w) \/ WakeClaims(w) \/ TriggerRefused(w)
          BY <1>4, <4>2, <4>3 DEF WakeResumes, WakeClaims, TriggerRefused
        <4>4. CASE \/ WakeIgnored(w) \/ WakeCancels(w) \/ WakeFailsOverdue(w)
                   \/ WakeDefers(w) \/ PostTrigger(w)
          BY <1>4, <4>4 DEF WakeIgnored, WakeCancels, WakeFailsOverdue, WakeDefers,
                            PostTrigger
        <4>5. CASE AuthorizeTrigger(w)
          BY <1>4, <4>5 DEF AuthorizeTrigger
        <4>6. QED
          BY <4>1, <4>3, <4>4, <4>5 DEF WakeStep
      <3>2. CASE Dispatch
        <4>1. CASE \E s \in sends : SendWake(s)
          <5>1. PICK s \in sends : SendWake(s)
            BY <4>1
          <5>2. v.phase = "queued"
            BY <1>4, <5>1 DEF SendWake
          <5>3. QED
            BY <1>4, <5>2
        <4>2. CASE wakes' = wakes
          BY <1>4, <4>2
        <4>3. QED
          BY <3>2, <4>1, <4>2 DEF Dispatch, PrepareDispatch, RecordDispatch
      <3>3. CASE WakeFault
        <4>1. PICK w \in wakes : StepFails(w) \/ WakeNotDue(w)
          BY <3>3 DEF WakeFault
        <4>2. v = Requeued(w)
          BY <1>4, <4>1 DEF StepFails, WakeNotDue
        <4>3. v.phase = "queued"
          BY <1>1, <4>2 DEF Requeued, Wakes
        <4>4. QED
          BY <1>4, <4>3
      <3>4. CASE Command \/ DispatchFault \/ Collector \/ Interpretation \/ Reconcile \/ Tick
        BY <1>4, <3>4 DEF Command, Publish, Pause, RequestRun, CancelRun, DispatchFault,
             RecordFailedSend, CrashDispatcher, Collector, CallbackProgress,
             CallbackCompletion, CallbackCancelled, Interpretation, InterpretationSettles,
             Reconcile, Tick
      <3>5. QED
        BY <1>4, <3>1, <3>2, <3>3, <3>4 DEF Next, vars
    <2>2. /\ v.key = w.key /\ v.token = w.token
          /\ w.key \in Keys
      BY <1>1, <2>1 DEF Wakes
    <2>3. /\ job' = [job EXCEPT ![w.key].authorized = TRUE]
          /\ job[w.key].status = "running"
          /\ job[w.key].attempts = w.token
      BY <2>1 DEF AuthorizeTrigger, OwnsAttempt
    <2>4. /\ job'[w.key].authorized
          /\ job'[w.key].status = "running"
          /\ job'[w.key].attempts = w.token
      BY <1>1, <2>2, <2>3, Typing DEF FlightInv, Tables, Rows
    <2>5. QED
      BY <2>2, <2>4 DEF StartedWith, StartedStatuses, ActiveStatuses
  <1>5. ASSUME NEW c \in posted', c \notin posted
        PROVE  StartedWith(c.key, c.token)'
    <2>1. PICK w \in wakes : /\ w.phase = "authorized"
                             /\ c = [key |-> w.key, token |-> w.token]
      <3>1. CASE Wake
        BY <1>5, <3>1 DEF Wake, WakeStep, WakeIgnored, WakeCancels, WakeFailsOverdue,
             WakeResumes, WakeDefers, WakeClaims, AuthorizeTrigger, TriggerRefused,
             PostTrigger
      <3>2. CASE WakeFault
        BY <1>5, <3>2 DEF WakeFault, StepFails, WakeNotDue
      <3>3. CASE ~ (Wake \/ WakeFault)
        BY <1>5, <3>3 DEF Next, vars, Command, Publish, Pause, RequestRun, CancelRun,
             Dispatch, PrepareDispatch, SendWake, RecordDispatch, DispatchFault,
             RecordFailedSend, CrashDispatcher, Collector, CallbackProgress,
             CallbackCompletion, CallbackCancelled, Interpretation, InterpretationSettles,
             Reconcile, Tick
      <3>4. QED
        BY <3>1, <3>2, <3>3
    <2>2. QED
      BY <1>2, <2>1
  <1>6. QED
    BY <1>2, <1>3, <1>4, <1>5 DEF FenceInv

LEMMA FenceCorrect == Spec => [](FlightInv /\ FenceInv)
  <1>1. Init => FenceInv
    BY DEF Init, FenceInv
  <1>2. QED
    BY <1>1, FenceStep, FlightCorrect, PTL DEF Spec

\* Whatever retries, duplicate events and crashes there are, a collector starts
\* only for an attempt that was claimed and authorised.
THEOREM CollectorsAreAuthorized == Spec => []CollectorAuthorized
  <1>1. FlightInv /\ FenceInv => CollectorAuthorized
    BY DEF FenceInv, StartedWith, CollectorAuthorized, StartedStatuses, ActiveStatuses,
           TerminalStatuses, WaitingStatuses
  <1>2. QED
    BY <1>1, FenceCorrect, PTL

-------------------------------------------------------------------------------
(* The implementation of the abstract lifecycle *)

LEMMA PhaseFacts ==
    /\ PhaseOf("none") = "absent"
    /\ PhaseOf("pending") = "waiting"
    /\ PhaseOf("deferred") = "parked"
    /\ PhaseOf("running") = "active"
    /\ PhaseOf("cancel_requested") = "stopping"
    /\ \A st \in TerminalStatuses : PhaseOf(st) = "closed"
    /\ \A st \in Statuses :
          /\ PhaseOf(st) \in Lifecycle!Phases
          /\ PhaseOf(st) = "waiting" <=> st = "pending"
          /\ PhaseOf(st) = "parked" <=> st = "deferred"
          /\ PhaseOf(st) \in {"active", "stopping"} <=> st \in ActiveStatuses
          /\ PhaseOf(st) \in {"active", "stopping", "closed"} <=> st \in StartedStatuses
  BY DEF PhaseOf, Lifecycle!Phases, Statuses, WaitingStatuses, ActiveStatuses,
         TerminalStatuses, StartedStatuses

LEMMA LifecycleInit == Init => Lifecycle!Init
  <1> SUFFICES ASSUME Init PROVE Lifecycle!Init
    OBVIOUS
  <1>1. \A k \in Keys : job[k].status = "none"
    BY DEF Init, NoRow
  <1>2. [k \in Keys |-> PhaseOf(job[k].status)] = [r \in Keys |-> "absent"]
    BY <1>1, PhaseFacts
  <1>3. {c.key : c \in posted} = {}
    BY DEF Init
  <1>4. QED
    BY <1>2, <1>3 DEF Lifecycle!Init

\* A step that starts no collector is an Advance.
LEMMA AdvanceStep ==
    ASSUME FlightInv, FlightInv', [Next]_vars, posted' = posted
    PROVE  Lifecycle!Advance
  <1> DEFINE ph == [k \in Keys |-> PhaseOf(job[k].status)]
             next == [k \in Keys |-> PhaseOf(job'[k].status)]
  <1>1. \A k \in Keys : job[k].status \in Statuses /\ job'[k].status \in Statuses
    BY DEF FlightInv, TypeOK, Rows
  <1>2. \A k \in Keys :
          /\ ph[k] = PhaseOf(job[k].status)
          /\ next[k] = PhaseOf(job'[k].status)
    OBVIOUS
  <1>3. next \in [Keys -> Lifecycle!Phases]
    BY <1>1, PhaseFacts
  <1> HIDE DEF ph, next
  <1>4. ASSUME NEW k \in Keys PROVE next[k] \in Lifecycle!After(ph[k])
    <2>1. CASE PermittedRow(job[k], job'[k])
      <3>1. job'[k].status \in Allowed(job[k].status)
        BY <2>1 DEF PermittedRow
      <3>2. CASE job[k].status = "none"
        BY <1>2, <3>1, <3>2, PhaseFacts DEF Allowed, Lifecycle!After
      <3>3. CASE job[k].status = "pending"
        BY <1>2, <3>1, <3>3, PhaseFacts DEF Allowed, Lifecycle!After, TerminalStatuses
      <3>4. CASE job[k].status = "deferred"
        BY <1>2, <3>1, <3>4, PhaseFacts DEF Allowed, Lifecycle!After, TerminalStatuses
      <3>5. CASE job[k].status = "running"
        BY <1>2, <3>1, <3>5, PhaseFacts DEF Allowed, Lifecycle!After, TerminalStatuses
      <3>6. CASE job[k].status = "cancel_requested"
        BY <1>2, <3>1, <3>6, PhaseFacts DEF Allowed, Lifecycle!After, TerminalStatuses
      <3>7. CASE job[k].status \in TerminalStatuses
        BY <1>2, <3>1, <3>7, PhaseFacts DEF Allowed, Lifecycle!After, TerminalStatuses
      <3>8. QED
        BY <1>1, <3>2, <3>3, <3>4, <3>5, <3>6, <3>7
           DEF Statuses, WaitingStatuses, ActiveStatuses
    <2>2. CASE Claims(k)
      BY <1>2, <2>2, PhaseFacts DEF Claims, Lifecycle!After
    <2>3. QED
      BY <2>1, <2>2, ShapeOfStep DEF Permitted, Claims
  <1>5. /\ \A k \in Keys : ph[k] \in {"active", "stopping"} <=> job[k].status \in ActiveStatuses
        /\ \A k \in Keys :
              /\ next[k] \in {"active", "stopping"} <=> job'[k].status \in ActiveStatuses
              /\ next[k] = "waiting" <=> job'[k].status = "pending"
              /\ next[k] = "parked" <=> job'[k].status = "deferred"
    BY <1>1, <1>2, PhaseFacts
  <1>6. OneEach(job')
    BY GoodNextState DEF FlightInv, Good
  <1>7. /\ Lifecycle!AtMostOne(Lifecycle!InFlight(next))
        /\ Lifecycle!AtMostOne({r \in Keys : next[r] = "waiting"})
        /\ Lifecycle!AtMostOne({r \in Keys : next[r] = "parked"})
    BY <1>5, <1>6 DEF Lifecycle!AtMostOne, Lifecycle!InFlight, OneEach, AtMostOne
  <1>8. \/ Lifecycle!InFlight(next) \subseteq Lifecycle!InFlight(ph)
        \/ Lifecycle!InFlight(ph) = {}
    <2>1. CASE Permitted(job, job')
      <3>1. \A k \in Keys : job'[k].status \in ActiveStatuses => job[k].status \in ActiveStatuses
        BY <1>1, <2>1 DEF Permitted, PermittedRow, Allowed, Statuses, WaitingStatuses,
                          ActiveStatuses, TerminalStatuses
      <3>2. QED
        BY <1>5, <3>1 DEF Lifecycle!InFlight
    <2>2. CASE \E k \in Keys : Claims(k)
      <3>1. InStatus(job, ActiveStatuses) = {}
        BY <2>2 DEF Claims
      <3>2. QED
        BY <1>5, <3>1 DEF Lifecycle!InFlight, InStatus
    <2>3. QED
      BY <2>1, <2>2, ShapeOfStep
  <1>9. {c.key : c \in posted'} = {c.key : c \in posted}
    OBVIOUS
  <1>10. QED
    BY <1>3, <1>4, <1>7, <1>8, <1>9 DEF Lifecycle!Advance, ph, next

\* A step that starts one is the abstract one for a run that was claimed.
LEMMA StartStep ==
    ASSUME FlightInv, FenceInv, NEW w \in wakes, w.phase = "authorized",
           posted' = posted \cup {[key |-> w.key, token |-> w.token]}, job' = job
    PROVE  \E r \in Keys : Lifecycle!StartCollector(r)
  <1>1. w.key \in Keys
    BY DEF FlightInv, TypeOK, Wakes
  <1>2. StartedWith(w.key, w.token)
    BY DEF FenceInv
  <1>3. job[w.key].status \in Statuses
    BY <1>1 DEF FlightInv, TypeOK, Rows
  <1>4. PhaseOf(job[w.key].status) \in {"active", "stopping", "closed"}
    BY <1>2, <1>3, PhaseFacts DEF StartedWith
  <1>5. {c.key : c \in posted'} = {c.key : c \in posted} \cup {w.key}
    <2> DEFINE post == [key |-> w.key, token |-> w.token]
    <2>1. post.key = w.key
      OBVIOUS
    <2>2. \A c : c \in posted' <=> c \in posted \/ c = post
      OBVIOUS
    <2> HIDE DEF post
    <2>3. QED
      BY <2>1, <2>2
  <1>6. [k \in Keys |-> PhaseOf(job'[k].status)] = [k \in Keys |-> PhaseOf(job[k].status)]
    OBVIOUS
  <1>7. Lifecycle!StartCollector(w.key)
    BY <1>1, <1>4, <1>5, <1>6 DEF Lifecycle!StartCollector
  <1>8. QED
    BY <1>1, <1>7

LEMMA PostedStep ==
    ASSUME [Next]_vars, posted' # posted
    PROVE  \E w \in wakes :
              /\ w.phase = "authorized"
              /\ posted' = posted \cup {[key |-> w.key, token |-> w.token]}
              /\ job' = job
  <1>1. CASE Wake
    BY <1>1 DEF Wake, WakeStep, WakeIgnored, WakeCancels, WakeFailsOverdue,
         WakeResumes, WakeDefers, WakeClaims, AuthorizeTrigger, TriggerRefused, PostTrigger
  <1>2. CASE WakeFault
    BY <1>2 DEF WakeFault, StepFails, WakeNotDue
  <1>3. CASE ~ (Wake \/ WakeFault)
    BY <1>3 DEF Next, vars, Command, Publish, Pause, RequestRun, CancelRun,
         Dispatch, PrepareDispatch, SendWake, RecordDispatch, DispatchFault,
         RecordFailedSend, CrashDispatcher, Collector, CallbackProgress,
         CallbackCompletion, CallbackCancelled, Interpretation, InterpretationSettles,
         Reconcile, Tick
  <1>4. QED
    BY <1>1, <1>2, <1>3

\* The coordinator, with its clock, outbox, wakes, tokens and repair, implements
\* the lifecycle that has none of them.
THEOREM CoordinatorImplementsLifecycle == Spec => ImplementsLifecycle
  <1>1. FlightInv /\ FlightInv' /\ FenceInv /\ [Next]_vars => [Lifecycle!Next]_Lifecycle!vars
    <2> SUFFICES ASSUME FlightInv, FlightInv', FenceInv, [Next]_vars
                 PROVE  [Lifecycle!Next]_Lifecycle!vars
      OBVIOUS
    <2>1. CASE posted' = posted
      BY <2>1, AdvanceStep DEF Lifecycle!Next
    <2>2. CASE posted' # posted
      BY <2>2, PostedStep, StartStep DEF Lifecycle!Next
    <2>3. QED
      BY <2>1, <2>2
  <1>2. QED
    BY <1>1, LifecycleInit, FenceCorrect, PTL DEF Spec, ImplementsLifecycle, Lifecycle!Spec

-------------------------------------------------------------------------------
(* The attempt of a run, row by row *)

FencedRow(r) ==
    /\ r.attempts \in IF r.status \in {"none"} \cup WaitingStatuses THEN {0} ELSE {0, 1}
    /\ r.token = IF r.status \in ActiveStatuses THEN r.attempts ELSE 0
    /\ r.status \in ActiveStatuses =>
          /\ r.attempts = 1 /\ r.deadline # Null
          /\ r.lease \in Nat /\ r.lease <= r.deadline

Fenced(tbl) == tbl \in Tables /\ \A k \in Keys : FencedRow(tbl[k])

\* A row that keeps what the fence is made of, or waits and no longer does, or
\* ends with its token cleared.
SameFence(a, b) ==
    /\ b.status = a.status /\ b.attempts = a.attempts /\ b.token = a.token
    /\ b.deadline = a.deadline /\ b.lease = a.lease
Shifts(a, b) ==
    /\ a.status \in WaitingStatuses
    /\ b.status \in WaitingStatuses \cup {"cancelled", "coalesced"}
    /\ b.attempts = a.attempts /\ b.token = a.token
Ends(a, b) ==
    /\ a.status \in ActiveStatuses /\ b.status \in TerminalStatuses
    /\ b.attempts = a.attempts /\ b.token = 0

LEMMA FenceKept ==
    ASSUME NEW a \in Rows, NEW b, FencedRow(a), SameFence(a, b) \/ Shifts(a, b) \/ Ends(a, b)
    PROVE  FencedRow(b)
  <1>1. CASE SameFence(a, b)
    BY <1>1 DEF SameFence, FencedRow
  <1>2. CASE Shifts(a, b)
    BY <1>2 DEF Shifts, FencedRow, WaitingStatuses, ActiveStatuses
  <1>3. CASE Ends(a, b)
    BY <1>3 DEF Ends, FencedRow, WaitingStatuses, ActiveStatuses, TerminalStatuses
  <1>4. QED
    BY <1>1, <1>2, <1>3

LEMMA FencedUpdate ==
    ASSUME NEW tbl, Fenced(tbl), NEW k \in Keys, NEW row \in Rows, FencedRow(row)
    PROVE  Fenced([tbl EXCEPT ![k] = row])
  BY DEF Fenced, Tables

LEMMA FencedMoves ==
    ASSUME NEW tbl, Fenced(tbl)
    PROVE  /\ \A S \in SUBSET WaitingStatuses : Fenced(Move(tbl, S, "cancelled"))
           /\ Fenced(Move(tbl, {"running"}, "cancel_requested"))
  <1>1. tbl \in Tables /\ \A k \in Keys : tbl[k] \in Rows /\ FencedRow(tbl[k])
    BY DEF Fenced, Tables
  <1>2. ASSUME NEW S \in SUBSET WaitingStatuses, NEW k \in Keys
        PROVE  FencedRow(Move(tbl, S, "cancelled")[k])
    <2> DEFINE moved == [tbl[k] EXCEPT !.status = "cancelled"]
    <2>1. Move(tbl, S, "cancelled")[k] = IF tbl[k].status \in S THEN moved ELSE tbl[k]
      BY DEF Move
    <2>2. moved.status = "cancelled" /\ moved.attempts = tbl[k].attempts /\ moved.token = tbl[k].token
      BY <1>1 DEF Rows
    <2> HIDE DEF moved
    <2>3. tbl[k].status \in S => Shifts(tbl[k], moved)
      BY <2>2 DEF Shifts
    <2>4. QED
      BY <1>1, <2>1, <2>3, FenceKept
  <1>3. ASSUME NEW k \in Keys
        PROVE  FencedRow(Move(tbl, {"running"}, "cancel_requested")[k])
    <2> DEFINE moved == [tbl[k] EXCEPT !.status = "cancel_requested"]
    <2>1. Move(tbl, {"running"}, "cancel_requested")[k]
            = IF tbl[k].status = "running" THEN moved ELSE tbl[k]
      BY DEF Move
    <2>2. /\ moved.status = "cancel_requested"
          /\ moved.attempts = tbl[k].attempts /\ moved.token = tbl[k].token
          /\ moved.deadline = tbl[k].deadline /\ moved.lease = tbl[k].lease
      BY <1>1 DEF Rows
    <2> HIDE DEF moved
    <2>3. tbl[k].status = "running" => FencedRow(moved)
      BY <1>1, <2>2 DEF FencedRow, ActiveStatuses, WaitingStatuses
    <2>4. QED
      BY <1>1, <2>1, <2>3
  <1>4. QED
    BY <1>1, <1>2, <1>3, MoveType, StatusValues DEF Fenced

LEMMA FencedNew ==
    ASSUME NEW status \in WaitingStatuses, NEW gen \in Nat, NEW at \in Nat, NEW version \in Nat
    PROVE  /\ NewRow(status, gen, at, version) \in Rows
           /\ FencedRow(NewRow(status, gen, at, version))
  <1>1. status \in Statuses
    BY DEF Statuses
  <1>2. QED
    BY <1>1, NewRowType DEF FencedRow, WaitingStatuses, ActiveStatuses

LEMMA FencedInsert ==
    ASSUME NEW tbl, Fenced(tbl), NEW gen \in Nat, NEW at \in Nat, NEW version \in Nat
    PROVE  Fenced(InsertPendingSlot(tbl, gen, at, version))
  <1>1. tbl \in Tables /\ "pending" \in WaitingStatuses
    BY DEF Fenced, WaitingStatuses
  <1>2. ASSUME NEW k \in Keys
        PROVE  FencedRow(InsertPendingSlot(tbl, gen, at, version)[k])
    <2>1. \/ InsertPendingSlot(tbl, gen, at, version)[k] = tbl[k]
          \/ InsertPendingSlot(tbl, gen, at, version)[k] = NewRow("pending", gen, at, version)
      BY <1>1, InsertRow
    <2>2. FencedRow(NewRow("pending", gen, at, version)) /\ FencedRow(tbl[k])
      BY <1>1, FencedNew DEF Fenced
    <2>3. QED
      BY <2>1, <2>2
  <1>3. InsertPendingSlot(tbl, gen, at, version) \in Tables
    BY <1>1, InsertType
  <1>4. QED
    BY <1>2, <1>3 DEF Fenced

LEMMA FencedPromote ==
    ASSUME TypeOK, NEW tbl, Fenced(tbl)
    PROVE  Fenced(PromoteDeferred(tbl))
  <1>1. tbl \in Tables /\ \A k \in Keys : tbl[k] \in Rows /\ FencedRow(tbl[k])
    BY DEF Fenced, Tables
  <1>2. PromoteDeferred(tbl) \in Tables
    BY <1>1, PromoteRows, Typing
  <1>3. ASSUME NEW d \in Keys, Promotion(tbl, PromoteDeferred(tbl), d), NEW k \in Keys
        PROVE  FencedRow(PromoteDeferred(tbl)[k])
    <2> DEFINE due == [tbl[k] EXCEPT !.status = "pending", !.runAt = now,
                                     !.version = programme.published]
               ended == [tbl[k] EXCEPT !.status = "cancelled"]
    <2>1. due.status = "pending" /\ due.attempts = tbl[k].attempts /\ due.token = tbl[k].token
      BY <1>1 DEF Rows
    <2>2. ended.status = "cancelled" /\ ended.attempts = tbl[k].attempts /\ ended.token = tbl[k].token
      BY <1>1 DEF Rows
    <2>3. PromoteDeferred(tbl)[k] = IF k = d THEN due
                                    ELSE IF tbl[k].status = "pending" THEN ended ELSE tbl[k]
      BY <1>3 DEF Promotion
    <2>4. tbl[d].status = "deferred"
      BY <1>3 DEF Promotion
    <2> HIDE DEF due, ended
    <2>5. k = d => Shifts(tbl[k], due)
      BY <2>1, <2>4 DEF Shifts, WaitingStatuses
    <2>6. tbl[k].status = "pending" => Shifts(tbl[k], ended)
      BY <2>2 DEF Shifts, WaitingStatuses
    <2>7. QED
      BY <1>1, <2>3, <2>5, <2>6, FenceKept
  <1>4. PromoteDeferred(tbl) = tbl \/ \E d \in Keys : Promotion(tbl, PromoteDeferred(tbl), d)
    BY <1>1, PromoteRows, Typing
  <1>5. QED
    BY <1>1, <1>2, <1>3, <1>4 DEF Fenced

\* An active run ends, and the deferred one takes the place that is free.
LEMMA FencedClose ==
    ASSUME NEW tbl, Fenced(tbl), NEW k \in Keys, tbl[k].status \in ActiveStatuses,
           NEW st \in TerminalStatuses
    PROVE  Fenced(Close(tbl, k, st))
  <1>1. st \in Statuses /\ tbl \in Tables /\ tbl[k] \in Rows
    BY DEF Statuses, Fenced, Tables
  <1>2. Ends(tbl[k], Close(tbl, k, st)[k])
    BY <1>1, CloseType DEF Ends
  <1>3. QED
    BY <1>1, <1>2, CloseType, FenceKept DEF Fenced

\* What the columns of one row become.
LEMMA FencedSame ==
    ASSUME NEW tbl, Fenced(tbl), NEW k \in Keys, NEW row \in Rows, SameFence(tbl[k], row)
    PROVE  Fenced([tbl EXCEPT ![k] = row])
  <1>1. tbl[k] \in Rows /\ FencedRow(tbl[k])
    BY DEF Fenced, Tables
  <1>2. QED
    BY <1>1, FenceKept, FencedUpdate

LEMMA FencedShift ==
    ASSUME NEW tbl, Fenced(tbl), NEW k \in Keys, NEW row \in Rows, Shifts(tbl[k], row)
    PROVE  Fenced([tbl EXCEPT ![k] = row])
  <1>1. tbl[k] \in Rows /\ FencedRow(tbl[k])
    BY DEF Fenced, Tables
  <1>2. QED
    BY <1>1, FenceKept, FencedUpdate

\* A heartbeat does not extend the lease beyond the deadline.
LEMMA FencedLease ==
    ASSUME TypeOK, NEW tbl, Fenced(tbl), NEW k \in Keys, tbl[k].status \in ActiveStatuses,
           NEW lease, lease = Least(tbl[k].deadline, now + HeartbeatLease)
    PROVE  Fenced([tbl EXCEPT ![k].lease = lease])
  <1> DEFINE row == [tbl[k] EXCEPT !.lease = lease]
  <1>1. tbl \in Tables /\ tbl[k] \in Rows /\ FencedRow(tbl[k])
    BY DEF Fenced, Tables
  <1>2. tbl[k].deadline \in Nat
    BY <1>1 DEF FencedRow, Rows
  <1>3. lease \in Nat /\ lease <= tbl[k].deadline
    <2>1. now + HeartbeatLease \in Nat
      BY Typing, ConstantsAssumption
    <2>2. QED
      BY <1>2, <2>1 DEF Least
  <1>4. row \in Rows
    <2>1. ASSUME NEW r \in Rows, NEW l \in Nat
          PROVE  [r EXCEPT !.lease = l] \in Rows
      BY <2>1, ZenonT(60) DEF Rows
    <2>2. QED
      BY <1>1, <1>3, <2>1
  <1>5. /\ row.status = tbl[k].status /\ row.attempts = tbl[k].attempts
        /\ row.token = tbl[k].token /\ row.deadline = tbl[k].deadline /\ row.lease = lease
    BY <1>1 DEF Rows
  <1>6. [tbl EXCEPT ![k].lease = lease] = [tbl EXCEPT ![k] = row]
    OBVIOUS
  <1> HIDE DEF row
  <1>7. FencedRow(row)
    BY <1>1, <1>3, <1>5 DEF FencedRow
  <1>8. QED
    BY <1>4, <1>6, <1>7, FencedUpdate

LEMMA FencedCommand ==
    ASSUME TypeOK, Fenced(job), Command
    PROVE  Fenced(job')
  <1>1. ASSUME NEW edited \in BOOLEAN, Publish(edited)
        PROVE  Fenced(job')
    <2> DEFINE gen == programme.gen + 1
               version == IF edited THEN programme.published + 1 ELSE programme.published
    <2>1. gen \in Nat /\ version \in Nat /\ NextSlot(now) \in Nat
      BY Typing, NextSlotType
    <2>2. job' = InsertPendingSlot(Move(job, WaitingStatuses, "cancelled"),
                                   gen, NextSlot(now), version)
      BY <1>1 DEF Publish
    <2> HIDE DEF gen, version
    <2>3. QED
      BY <2>1, <2>2, FencedMoves, FencedInsert
  <1>2. CASE Pause
    <2>1. Fenced(Move(job, WaitingStatuses, "cancelled"))
      BY FencedMoves
    <2>2. QED
      BY <1>2, <2>1, FencedMoves DEF Pause
  <1>3. ASSUME NEW r \in Requests, NEW overlap \in Overlaps, RequestRun(r, overlap)
        PROVE  Fenced(job')
    <2>1. r \in Keys /\ {"pending"} \in SUBSET WaitingStatuses
      BY DEF Keys, WaitingStatuses
    <2>2. \A status \in WaitingStatuses, version \in Nat :
             /\ NewRow(status, programme.gen, now, version) \in Rows
             /\ FencedRow(NewRow(status, programme.gen, now, version))
      BY FencedNew, Typing
    <2>3. CASE RequestDeferred(r, overlap)
      <3> DEFINE stopped == IF overlap = "cancel_and_restart"
                            THEN Move(job, {"running"}, "cancel_requested") ELSE job
      <3>1. Fenced(stopped)
        BY FencedMoves
      <3>2. \/ job' = stopped
            \/ job' = [stopped EXCEPT ![r] = NewRow("deferred", programme.gen, now, 0)]
        BY <2>3 DEF RequestDeferred
      <3> HIDE DEF stopped
      <3>3. QED
        BY <2>1, <2>2, <3>1, <3>2, FencedUpdate DEF WaitingStatuses
    <2>4. CASE RequestPending(r)
      <3>1. Fenced(Move(job, {"pending"}, "cancelled"))
        BY <2>1, FencedMoves
      <3>2. job' = [Move(job, {"pending"}, "cancelled") EXCEPT
                      ![r] = NewRow("pending", programme.gen, now, programme.published)]
        BY <2>4 DEF RequestPending
      <3>3. QED
        BY <2>1, <2>2, <3>1, <3>2, FencedUpdate, Typing DEF WaitingStatuses
    <2>5. QED
      BY <1>3, <2>3, <2>4 DEF RequestRun
  <1>4. ASSUME NEW k \in Keys, CancelRun(k)
        PROVE  Fenced(job')
    <2>1. job[k] \in Rows /\ FencedRow(job[k]) /\ job \in Tables
      BY DEF Fenced, Tables
    <2>2. CASE job[k].status \in WaitingStatuses
      <3> DEFINE row == [job[k] EXCEPT !.status = "cancelled"]
      <3>1. row \in Rows
        BY <2>1, StatusValues DEF Rows
      <3>2. Shifts(job[k], row)
        BY <2>1, <2>2 DEF Shifts, Rows
      <3>3. job' = PromoteDeferred([job EXCEPT ![k] = row])
        BY <1>4, <2>2 DEF CancelRun, WaitingStatuses
      <3> HIDE DEF row
      <3>4. QED
        BY <3>1, <3>2, <3>3, FencedShift, FencedPromote
    <2>3. CASE job[k].status = "running"
      <3> DEFINE row == [job[k] EXCEPT !.status = "cancel_requested"]
      <3>1. row \in Rows
        BY <2>1, StatusValues DEF Rows
      <3>2. /\ row.status = "cancel_requested" /\ row.attempts = job[k].attempts
            /\ row.token = job[k].token /\ row.deadline = job[k].deadline
            /\ row.lease = job[k].lease
        BY <2>1 DEF Rows
      <3>3. job' = [job EXCEPT ![k] = row]
        BY <1>4, <2>3 DEF CancelRun, WaitingStatuses
      <3> HIDE DEF row
      <3>4. FencedRow(row)
        BY <2>1, <2>3, <3>2 DEF FencedRow, ActiveStatuses, WaitingStatuses
      <3>5. QED
        BY <3>1, <3>3, <3>4, FencedUpdate
    <2>4. QED
      BY <1>4, <2>2, <2>3 DEF CancelRun
  <1>5. QED
    BY <1>1, <1>2, <1>3, <1>4 DEF Command

\* What the outbox writes.
LEMMA FencedDispatch ==
    ASSUME TypeOK, Fenced(job), Dispatch \/ DispatchFault
    PROVE  Fenced(job')
  <1>0. job \in Tables /\ \A k \in Keys : job[k] \in Rows
    BY Typing
  <1>1. ASSUME NEW k \in Keys, PrepareDispatch(k)
        PROVE  Fenced(job')
    <2> DEFINE attempt == job[k].sent + 1
               row == [job[k] EXCEPT !.dispatch = "dispatching", !.sent = attempt,
                                     !.dispatchToken = attempt,
                                     !.dispatchLease = now + DispatchLease]
    <2>1. attempt \in Nat /\ now + DispatchLease \in Nat
      BY <1>0, Typing, ConstantsAssumption DEF Rows
    <2>2. job' = [job EXCEPT ![k] = row]
      BY <1>1 DEF PrepareDispatch
    <2> HIDE DEF attempt
    <2>3. row \in Rows
      BY <1>0, <2>1, DispatchRowType
    <2>4. SameFence(job[k], row)
      BY <1>0 DEF SameFence, Rows
    <2> HIDE DEF row
    <2>5. QED
      BY <2>2, <2>3, <2>4, FencedSame
  <1>2. ASSUME NEW s \in sends, NEW state \in {"dispatched", "repair_needed"},
               job' = Recorded(s, state)
        PROVE  Fenced(job')
    <2> DEFINE row == [job[s.key] EXCEPT !.dispatch = state, !.dispatchToken = 0,
                                         !.dispatchLease = Null]
    <2>1. s.key \in Keys
      BY DEF TypeOK, Sends
    <2>2. job' = job \/ job' = [job EXCEPT ![s.key] = row]
      BY <1>2 DEF Recorded
    <2>3. row \in Rows
      BY <1>0, <2>1, DispatchRowType
    <2>4. SameFence(job[s.key], row)
      BY <1>0, <2>1 DEF SameFence, Rows
    <2> HIDE DEF row
    <2>5. QED
      BY <2>1, <2>2, <2>3, <2>4, FencedSame
  <1>3. ASSUME NEW s \in sends, SendWake(s) \/ CrashDispatcher(s)
        PROVE  Fenced(job')
    BY <1>3 DEF SendWake, CrashDispatcher
  <1>4. QED
    BY <1>1, <1>2, <1>3 DEF Dispatch, DispatchFault, RecordDispatch, RecordFailedSend

LEMMA FencedNextSlot ==
    ASSUME TypeOK, NEW k \in Keys, NEW tbl, Fenced(tbl), WithNextSlot(tbl, k)
    PROVE  Fenced(job')
  <1> DEFINE after == IF now >= job[k].runAt THEN now ELSE job[k].runAt
             next == NextSlot(after)
  <1>1. after \in Nat
    BY Typing DEF Rows
  <1>2. next \in Nat
    <2> HIDE DEF after
    <2>1. QED
      BY <1>1, NextSlotType
  <1>3. job' = InsertPendingSlot(tbl, programme.gen, next, programme.published)
    BY DEF WithNextSlot
  <1> HIDE DEF next
  <1>4. QED
    BY <1>2, <1>3, FencedInsert, Typing

\* A wake that takes no run, or resumes the one it took.
LEMMA FencedWakeEnds ==
    ASSUME TypeOK, Fenced(job), NEW w \in wakes,
           WakeCancels(w) \/ WakeFailsOverdue(w) \/ WakeResumes(w) \/ AuthorizeTrigger(w)
    PROVE  Fenced(job')
  <1>0. w.key \in Keys /\ job \in Tables /\ job[w.key] \in Rows
    BY Typing DEF TypeOK, Wakes
  <1>1. CASE WakeCancels(w)
    <2> DEFINE closed == Close(job, w.key, "cancelled")
               row == [closed[w.key] EXCEPT !.deadline = Null]
    <2>1. job[w.key].status \in ActiveStatuses
      BY <1>1 DEF WakeCancels, ActiveStatuses
    <2>2. Fenced(closed) /\ closed[w.key].status = "cancelled"
      <3>1. "cancelled" \in TerminalStatuses /\ "cancelled" \in Statuses
        BY StatusValues DEF TerminalStatuses
      <3>2. Fenced(Close(job, w.key, "cancelled"))
        BY <1>0, <2>1, <3>1, FencedClose
      <3>3. Close(job, w.key, "cancelled")[w.key].status = "cancelled"
        BY <1>0, <3>1, CloseType
      <3>4. QED
        BY <3>2, <3>3
    <2>3. job' = PromoteDeferred([closed EXCEPT ![w.key] = row])
      BY <1>1 DEF WakeCancels
    <2> HIDE DEF closed
    <2>4. closed[w.key] \in Rows /\ FencedRow(closed[w.key])
      BY <1>0, <2>2 DEF Fenced, Tables
    <2>5. row \in Rows
      <3>1. ASSUME NEW r \in Rows
            PROVE  [r EXCEPT !.deadline = Null] \in Rows
        BY <3>1, ZenonT(60) DEF Rows
      <3>2. QED
        BY <2>4, <3>1
    <2>6. row.status = "cancelled" /\ row.attempts = closed[w.key].attempts
          /\ row.token = closed[w.key].token
      BY <2>2, <2>4 DEF Rows
    <2> HIDE DEF row
    <2>7. FencedRow(row)
      BY <2>2, <2>4, <2>6 DEF FencedRow, WaitingStatuses, ActiveStatuses
    <2>8. QED
      BY <1>0, <2>2, <2>3, <2>5, <2>7, FencedUpdate, FencedPromote
  <1>2. CASE WakeFailsOverdue(w)
    BY <1>0, <1>2, FencedClose DEF WakeFailsOverdue, ActiveStatuses, TerminalStatuses
  <1>3. CASE WakeResumes(w)
    BY <1>0, <1>3, FencedLease DEF WakeResumes, ActiveStatuses
  <1>4. CASE AuthorizeTrigger(w)
    <2> DEFINE row == [job[w.key] EXCEPT !.authorized = TRUE]
    <2>1. row \in Rows
      BY <1>0 DEF Rows
    <2>2. SameFence(job[w.key], row)
      BY <1>0 DEF SameFence, Rows
    <2>3. job' = [job EXCEPT ![w.key] = row]
      BY <1>4 DEF AuthorizeTrigger
    <2> HIDE DEF row
    <2>4. QED
      BY <1>0, <2>1, <2>2, <2>3, FencedSame
  <1>5. QED
    BY <1>1, <1>2, <1>3, <1>4

\* A wake that takes a run: a run that waits has no attempt yet, so this is its first.
LEMMA FencedWakeTakes ==
    ASSUME TypeOK, Fenced(job), NEW w \in wakes, WakeDefers(w) \/ WakeClaims(w)
    PROVE  Fenced(job')
  <1>0. /\ w.key \in Keys /\ job \in Tables /\ job[w.key] \in Rows
        /\ FencedRow(job[w.key]) /\ now \in Nat /\ programme.published \in Nat
    BY Typing DEF TypeOK, Wakes, Fenced
  <1>1. job[w.key].status = "pending"
    BY DEF WakeDefers, WakeClaims, Claimable
  <1>2. CASE WakeDefers(w)
    <2> DEFINE folded == [job[w.key] EXCEPT !.status = "coalesced"]
               parked == [job[w.key] EXCEPT !.status = "deferred", !.version = 0]
    <2>1. folded \in Rows /\ parked \in Rows
      <3>1. 0 \in Nat
        OBVIOUS
      <3>2. QED
        BY <1>0, <3>1, ClaimRowType
    <2>2. Shifts(job[w.key], folded)
      BY <1>0, <1>1 DEF Shifts, Rows, WaitingStatuses
    <2>3. Shifts(job[w.key], parked)
      BY <1>0, <1>1 DEF Shifts, Rows, WaitingStatuses
    <2>4. \/ WithNextSlot([job EXCEPT ![w.key] = folded], w.key)
          \/ WithNextSlot([job EXCEPT ![w.key] = parked], w.key)
      BY <1>2 DEF WakeDefers
    <2> HIDE DEF folded, parked
    <2>5. /\ Fenced([job EXCEPT ![w.key] = folded])
          /\ Fenced([job EXCEPT ![w.key] = parked])
      BY <1>0, <2>1, <2>2, <2>3, FencedShift
    <2>6. QED
      BY <1>0, <2>4, <2>5, FencedNextSlot
  <1>3. CASE WakeClaims(w)
    <2> DEFINE attempt == job[w.key].attempts + 1
               deadline == now + OverallDeadline
               lease == now + HeartbeatLease
               row == [job[w.key] EXCEPT
                         !.status = "running", !.version = programme.published,
                         !.attempts = attempt, !.token = attempt,
                         !.deadline = deadline, !.lease = lease,
                         !.authorized = FALSE, !.claimed = FALSE]
    <2>1. attempt = 1
      BY <1>0, <1>1 DEF FencedRow, WaitingStatuses
    <2>2. deadline \in Nat /\ lease \in Nat /\ lease <= deadline
      BY <1>0, ConstantsAssumption
    <2>3. WithNextSlot([job EXCEPT ![w.key] = row], w.key)
      BY <1>3 DEF WakeClaims
    <2> HIDE DEF attempt, deadline, lease
    <2>4. row \in Rows
      BY <1>0, <2>1, <2>2, ClaimRowType
    <2>5. /\ row.status = "running" /\ row.attempts = attempt /\ row.token = attempt
          /\ row.deadline = deadline /\ row.lease = lease
      BY <1>0 DEF Rows
    <2> HIDE DEF row
    <2>6. FencedRow(row)
      BY <2>1, <2>2, <2>5 DEF FencedRow, WaitingStatuses, ActiveStatuses, Null
    <2>7. Fenced([job EXCEPT ![w.key] = row])
      BY <1>0, <2>4, <2>6, FencedUpdate
    <2>8. QED
      BY <1>0, <2>3, <2>7, FencedNextSlot
  <1>4. QED
    BY <1>2, <1>3

LEMMA FencedWake ==
    ASSUME TypeOK, Fenced(job), Wake \/ WakeFault
    PROVE  Fenced(job')
  <1>1. ASSUME NEW w \in wakes, WakeStep(w)
        PROVE  Fenced(job')
    <2>1. CASE WakeIgnored(w) \/ TriggerRefused(w) \/ PostTrigger(w)
      <3>1. job' = job
        BY <2>1 DEF WakeIgnored, TriggerRefused, PostTrigger
      <3>2. QED
        BY <3>1
    <2>2. CASE WakeCancels(w) \/ WakeFailsOverdue(w) \/ WakeResumes(w) \/ AuthorizeTrigger(w)
      BY <2>2, FencedWakeEnds
    <2>3. CASE WakeDefers(w) \/ WakeClaims(w)
      BY <2>3, FencedWakeTakes
    <2>4. QED
      BY <1>1, <2>1, <2>2, <2>3 DEF WakeStep
  <1>2. ASSUME NEW w \in wakes, StepFails(w) \/ WakeNotDue(w)
        PROVE  Fenced(job')
    <2>1. job' = job
      BY <1>2 DEF StepFails, WakeNotDue
    <2>2. QED
      BY <2>1
  <1>3. QED
    BY <1>1, <1>2 DEF Wake, WakeFault

\* A run ends with a terminal status and the deferred one follows it.
LEMMA FencedEnd ==
    ASSUME TypeOK, NEW tbl, Fenced(tbl), NEW k \in Keys, tbl[k].status \in ActiveStatuses,
           NEW st \in TerminalStatuses
    PROVE  Fenced(PromoteDeferred(Close(tbl, k, st)))
  BY FencedClose, FencedPromote

LEMMA FencedCollector ==
    ASSUME TypeOK, Fenced(job), Collector
    PROVE  Fenced(job')
  <1> SUFFICES ASSUME NEW c \in posted,
                      \/ \E open \in BOOLEAN : CallbackProgress(c, open)
                      \/ \E st \in CompletionStatuses, more \in BOOLEAN :
                            CallbackCompletion(c, st, more)
                      \/ CallbackCancelled(c)
               PROVE  Fenced(job')
    BY DEF Collector
  <1>1. c.key \in Keys /\ job[c.key] \in Rows /\ FencedRow(job[c.key]) /\ job \in Tables
    BY Typing DEF TypeOK, Fenced
  <1>2. CompletionStatuses \subseteq TerminalStatuses
    BY ConstantsAssumption DEF TerminalStatuses
  <1>3. ASSUME NEW open \in BOOLEAN, CallbackProgress(c, open)
        PROVE  Fenced(job')
    <2> DEFINE opened == job[c.key].open \/ open
               marked == [job[c.key] EXCEPT !.claimed = TRUE, !.open = opened]
               lease == Heartbeat(c.key)
               row == [job[c.key] EXCEPT !.claimed = TRUE, !.lease = lease, !.open = opened]
    <2>1. job' = [job EXCEPT ![c.key] = row]
      BY <1>3 DEF CallbackProgress
    <2>2. job[c.key].status = "running"
      BY <1>3 DEF CallbackProgress
    <2>3. opened \in BOOLEAN
      BY <1>1 DEF Rows
    <2>4. row \in Rows
      BY <1>1, <2>3, HeartbeatType, CallbackRowType
    <2>5. lease \in Nat /\ lease <= job[c.key].deadline
      <3>1. job[c.key].deadline \in Nat
        BY <1>1, <2>2 DEF FencedRow, Rows, ActiveStatuses
      <3>2. now + HeartbeatLease \in Nat
        BY Typing, ConstantsAssumption
      <3>3. QED
        BY <3>1, <3>2 DEF Heartbeat, Least
    <2> HIDE DEF lease, opened
    <2>6. /\ row.status = job[c.key].status /\ row.attempts = job[c.key].attempts
          /\ row.token = job[c.key].token /\ row.deadline = job[c.key].deadline
          /\ row.lease = lease
      BY <1>1 DEF Rows
    <2> HIDE DEF row
    <2>7. FencedRow(row)
      BY <1>1, <2>5, <2>6 DEF FencedRow
    <2>8. QED
      BY <1>1, <2>1, <2>4, <2>7, FencedUpdate
  <1>4. ASSUME NEW st \in CompletionStatuses, NEW more \in BOOLEAN,
               CallbackCompletion(c, st, more)
        PROVE  Fenced(job')
    <2> DEFINE provider == IF more THEN job[c.key].provider ELSE st
               row == [job[c.key] EXCEPT !.claimed = TRUE, !.provider = provider]
               done == [job EXCEPT ![c.key] = row]
               lease == Heartbeat(c.key)
    <2>1. job' = IF more \/ job[c.key].open
                 THEN [done EXCEPT ![c.key].lease = lease]
                 ELSE PromoteDeferred(Close(done, c.key, st))
      BY <1>4 DEF CallbackCompletion
    <2>2. job[c.key].status = "running"
      BY <1>4 DEF CallbackCompletion
    <2>3. provider \in CompletionStatuses \cup {"none"}
      BY <1>1 DEF Rows
    <2>4. lease = Least(job[c.key].deadline, now + HeartbeatLease)
      BY DEF Heartbeat
    <2> HIDE DEF provider, lease
    <2>5. row \in Rows
      BY <1>1, <2>3, CallbackRowType
    <2>6. row.status = "running" /\ row.deadline = job[c.key].deadline
      BY <1>1, <2>2 DEF Rows
    <2>7. SameFence(job[c.key], row)
      BY <1>1 DEF SameFence, Rows
    <2>8. done[c.key] = row
      BY <1>1 DEF Tables
    <2> HIDE DEF row
    <2>9. Fenced(done)
      BY <1>1, <2>5, <2>7, FencedSame
    <2> HIDE DEF done
    <2>10. done[c.key].status \in ActiveStatuses
      BY <2>6, <2>8 DEF ActiveStatuses
    <2>11. Fenced([done EXCEPT ![c.key].lease = lease])
      BY <1>1, <2>4, <2>6, <2>8, <2>9, <2>10, FencedLease
    <2>12. Fenced(PromoteDeferred(Close(done, c.key, st)))
      BY <1>1, <1>2, <2>9, <2>10, FencedEnd
    <2>13. QED
      BY <2>1, <2>11, <2>12
  <1>5. CASE CallbackCancelled(c)
    <2> DEFINE row == [job[c.key] EXCEPT !.claimed = TRUE]
               done == [job EXCEPT ![c.key] = row]
    <2>1. /\ job' = PromoteDeferred(Close(done, c.key, "cancelled"))
          /\ job[c.key].status = "cancel_requested"
          /\ "cancelled" \in TerminalStatuses
      BY <1>2, <1>5 DEF CallbackCancelled
    <2>2. row \in Rows
      <3>1. ASSUME NEW r \in Rows
            PROVE  [r EXCEPT !.claimed = TRUE] \in Rows
        BY <3>1, ZenonT(60) DEF Rows
      <3>2. QED
        BY <1>1, <3>1
    <2>3. SameFence(job[c.key], row)
      BY <1>1 DEF SameFence, Rows
    <2>4. done[c.key] = row
      BY <1>1 DEF Tables
    <2> HIDE DEF row
    <2>5. Fenced(done)
      BY <1>1, <2>2, <2>3, FencedSame
    <2>6. done[c.key].status \in ActiveStatuses
      BY <2>1, <2>3, <2>4 DEF SameFence, ActiveStatuses
    <2> HIDE DEF done
    <2>7. QED
      BY <1>1, <2>1, <2>5, <2>6, FencedEnd
  <1>6. QED
    BY <1>3, <1>4, <1>5

LEMMA FencedInterpretation ==
    ASSUME TypeOK, Fenced(job), Interpretation
    PROVE  Fenced(job')
  <1> SUFFICES ASSUME NEW k \in Keys, NEW open \in BOOLEAN, NEW receipt \in BOOLEAN,
                      InterpretationSettles(k, open, receipt)
               PROVE  Fenced(job')
    BY DEF Interpretation
  <1> DEFINE row == [job[k] EXCEPT !.open = open]
             settled == [job EXCEPT ![k] = row]
  <1>1. job[k] \in Rows /\ job \in Tables
    BY Typing
  <1>2. \/ job' = settled
        \/ job' = PromoteDeferred(Close(settled, k, "cancelled"))
        \/ /\ job[k].provider # "none"
           /\ job' = PromoteDeferred(Close(settled, k, job[k].provider))
    BY DEF InterpretationSettles
  <1>3. job[k].status \in ActiveStatuses
    BY DEF InterpretationSettles, ActiveStatuses
  <1>4. /\ "cancelled" \in TerminalStatuses
        /\ job[k].provider # "none" => job[k].provider \in TerminalStatuses
    BY <1>1, ConstantsAssumption DEF Rows, TerminalStatuses
  <1>5. row \in Rows
    <2>1. ASSUME NEW r \in Rows
          PROVE  [r EXCEPT !.open = open] \in Rows
      BY <2>1, ZenonT(60) DEF Rows
    <2>2. QED
      BY <1>1, <2>1
  <1>6. SameFence(job[k], row)
    BY <1>1 DEF SameFence, Rows
  <1>7. settled[k] = row
    BY <1>1 DEF Tables
  <1> HIDE DEF row
  <1>8. Fenced(settled)
    BY <1>5, <1>6, FencedSame
  <1>9. settled[k].status \in ActiveStatuses
    BY <1>3, <1>6, <1>7 DEF SameFence
  <1> HIDE DEF settled
  <1>10. QED
    BY <1>2, <1>4, <1>8, <1>9, FencedEnd

LEMMA FencedReconcile ==
    ASSUME TypeOK, Fenced(job), Reconcile
    PROVE  Fenced(job')
  <1> DEFINE repaired == [k \in Keys |->
                IF LeaseLapsed(k) \/ Unclaimed(k)
                THEN [job[k] EXCEPT !.dispatch = "repair_needed", !.dispatchLease = Null,
                                    !.dispatchToken = 0]
                ELSE IF Overdue(k)
                     THEN [job[k] EXCEPT !.status = "failed", !.token = 0, !.lease = Null]
                     ELSE job[k]]
  <1>1. job' = repaired \/ job' = PromoteDeferred(repaired)
    BY DEF Reconcile
  <1>2. ASSUME NEW k \in Keys
        PROVE  repaired[k] \in Rows /\ FencedRow(repaired[k])
    <2> DEFINE rearmed == [job[k] EXCEPT !.dispatch = "repair_needed", !.dispatchLease = Null,
                                         !.dispatchToken = 0]
               failed == [job[k] EXCEPT !.status = "failed", !.token = 0, !.lease = Null]
    <2>1. job[k] \in Rows /\ FencedRow(job[k])
      BY Typing DEF Fenced
    <2>2. rearmed \in Rows
      <3>1. ASSUME NEW r \in Rows
            PROVE  [r EXCEPT !.dispatch = "repair_needed", !.dispatchLease = Null,
                             !.dispatchToken = 0] \in Rows
        BY <3>1, ZenonT(60) DEF Rows
      <3>2. QED
        BY <2>1, <3>1
    <2>3. failed \in Rows
      <3>1. ASSUME NEW r \in Rows
            PROVE  [r EXCEPT !.status = "failed", !.token = 0, !.lease = Null] \in Rows
        BY <3>1, StatusValues, ZenonT(60) DEF Rows
      <3>2. QED
        BY <2>1, <3>1
    <2>4. SameFence(job[k], rearmed)
      BY <2>1 DEF SameFence, Rows
    <2>5. failed.status = "failed" /\ failed.token = 0 /\ failed.attempts = job[k].attempts
      BY <2>1 DEF Rows
    <2>6. repaired[k] = rearmed \/ repaired[k] = job[k]
             \/ (repaired[k] = failed /\ job[k].status \in ActiveStatuses)
      BY DEF Overdue
    <2> HIDE DEF rearmed, failed, repaired
    <2>7. job[k].status \in ActiveStatuses => Ends(job[k], failed)
      BY <2>5 DEF Ends, TerminalStatuses
    <2>8. QED
      BY <2>1, <2>2, <2>3, <2>4, <2>6, <2>7, FenceKept
  <1>3. repaired \in Tables
    BY <1>2, ZenonT(60) DEF Tables
  <1> HIDE DEF repaired
  <1>4. Fenced(repaired)
    BY <1>2, <1>3 DEF Fenced
  <1>5. QED
    BY <1>1, <1>4, FencedPromote

LEMMA FencedInit == Init => Fenced(job)
  <1> SUFFICES ASSUME Init PROVE Fenced(job)
    OBVIOUS
  <1>1. job \in Tables
    BY TypeInit, Typing
  <1>2. \A k \in Keys : job[k] = NoRow
    BY DEF Init
  <1>3. FencedRow(NoRow)
    BY DEF NoRow, FencedRow, WaitingStatuses, ActiveStatuses
  <1>4. QED
    BY <1>1, <1>2, <1>3 DEF Fenced

LEMMA FencedStep == TypeOK /\ Fenced(job) /\ [Next]_vars => Fenced(job')
  <1> SUFFICES ASSUME TypeOK, Fenced(job), [Next]_vars PROVE Fenced(job')
    OBVIOUS
  <1>1. CASE Tick \/ UNCHANGED vars
    <2>1. job' = job
      BY <1>1 DEF Tick, vars
    <2>2. QED
      BY <2>1
  <1>2. QED
    BY <1>1, FencedCommand, FencedDispatch, FencedWake, FencedCollector,
       FencedInterpretation, FencedReconcile DEF Next

LEMMA FencedAttempts == Fenced(job) => AttemptFence
  BY DEF Fenced, FencedRow, AttemptFence

\* Exactly the active runs hold an attempt token, a run is claimed at most once in
\* its life, and no heartbeat moves the lease of an attempt beyond its hard
\* deadline, whatever retries, deferrals and promotions the run went through.
THEOREM AttemptsStayFenced == Spec => []AttemptFence
  <1> DEFINE FencedJob == Fenced(job)
  <1>1. Init => FencedJob
    BY FencedInit
  <1>2. TypeOK /\ FencedJob /\ [Next]_vars => FencedJob'
    <2>1. Fenced(job)' <=> Fenced(job')
      BY DEF Fenced, FencedRow
    <2>2. QED
      BY <2>1, FencedStep
  <1>3. FencedJob => AttemptFence
    BY FencedAttempts
  <1> HIDE DEF FencedJob
  <1>4. QED
    BY <1>1, <1>2, <1>3, TypeCorrect, PTL DEF Spec
===============================================================================
