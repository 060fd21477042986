------------------------- MODULE DiscoveryCoordinator -------------------------
(***************************************************************************)
(* The Discovery run coordinator of hrmny OS for one research programme:   *)
(* publish and pause, manual runs, the dispatch outbox that arms a durable *)
(* wake in Inngest, the wake that claims a run, the authorised POST to the *)
(* n8n collector, the collector's callbacks, cancellation, deferral of     *)
(* overlapping runs and the repair cron.                                   *)
(*                                                                         *)
(* Every query of the code is filtered by research_programme_id, so the    *)
(* programmes do not interact and one of them is modelled.  An action is   *)
(* one database transaction (the row locks on the job and on the programme *)
(* serialise them) or one network step between two transactions.           *)
(***************************************************************************)
EXTENDS Integers, FiniteSets

CONSTANTS
    Requests,            \* request ids of manual runs; one is also a job key
    CompletionStatuses,  \* statuses a collector's completion event may carry
    Commands,            \* the operator commands that are used in this instance
    Interval,            \* time between two slots of the published schedule
    Horizon,             \* DISCOVERY_DISPATCH_HORIZON_MS
    DispatchLease,       \* DISCOVERY_DISPATCH_LEASE_MS
    RepairAfter,         \* DISCOVERY_DISPATCH_REPAIR_AFTER_MS
    OverallDeadline,     \* DISCOVERY_OVERALL_DEADLINE_MS
    HeartbeatLease,      \* DISCOVERY_HEARTBEAT_LEASE_MS
    MaxTime,             \* bound: the clock stops here
    MaxGen,              \* bound: publish and pause commands
    MaxDispatches,       \* bound: dispatch attempts of one job
    MaxFaults            \* bound: crashes, failed sends and failed steps

SlotKeys == (1 .. MaxGen) \X (0 .. MaxTime + Interval)

\* scheduled_job.job_key: the generation and nominal time of a slot, or the
\* id of the manual request.
Keys == SlotKeys \cup Requests

ASSUME ConstantsAssumption ==
    /\ {Interval, Horizon, DispatchLease, RepairAfter} \subseteq Nat \ {0}
    /\ {OverallDeadline, HeartbeatLease} \subseteq Nat \ {0}
    /\ HeartbeatLease <= OverallDeadline
    /\ {MaxTime, MaxGen, MaxDispatches, MaxFaults} \subseteq Nat
    /\ Requests \cap SlotKeys = {}
    /\ CompletionStatuses \subseteq {"completed", "partial", "failed", "cancelled"}

VARIABLES
    now,        \* statement_timestamp() of the database
    programme,  \* the research_programme row
    job,        \* scheduled_job rows of the programme, by job key
    sends,      \* dispatchers between prepareDiscoveryDispatch and its record
    wakes,      \* wake events in Inngest, with the progress of their run step
    posted,     \* attempts whose trigger reached the n8n collector
    faults      \* faults used so far

vars == <<now, programme, job, sends, wakes, posted, faults>>

-------------------------------------------------------------------------------
(* Rows *)

Null == -1

ActiveStatuses == {"running", "cancel_requested"}
WaitingStatuses == {"pending", "deferred"}
TerminalStatuses == {"completed", "partial", "failed", "cancelled", "coalesced"}
Statuses == {"none"} \cup WaitingStatuses \cup ActiveStatuses \cup TerminalStatuses

\* "none" stands for a key no row was inserted with.
NoRow ==
    [status |-> "none", gen |-> 0, runAt |-> 0, version |-> 0,
     attempts |-> 0, token |-> 0, deadline |-> Null, lease |-> Null,
     authorized |-> FALSE, claimed |-> FALSE, open |-> FALSE, provider |-> "none",
     dispatch |-> "unarmed", sent |-> 0, dispatchToken |-> 0, dispatchLease |-> Null]

NewRow(status, gen, runAt, version) ==
    [NoRow EXCEPT !.status = status, !.gen = gen, !.runAt = runAt, !.version = version]

InStatus(tbl, S) == {k \in Keys : tbl[k].status \in S}

\* Every row of status in S becomes status st.
Move(tbl, S, st) ==
    [k \in Keys |-> IF tbl[k].status \in S THEN [tbl[k] EXCEPT !.status = st] ELSE tbl[k]]

\* A claimed run ends: the attempt fence is cleared with the status.
Close(tbl, k, st) ==
    [tbl EXCEPT ![k] = [@ EXCEPT !.status = st, !.token = 0, !.lease = Null]]

NextSlot(t) == ((t \div Interval) + 1) * Interval

\* INSERT ... ON CONFLICT (job_key) DO NOTHING: an existing row, also a
\* cancelled one, is left as it is.
InsertPendingSlot(tbl, gen, runAt, version) ==
    IF tbl[<<gen, runAt>>].status = "none"
    THEN [tbl EXCEPT ![<<gen, runAt>>] = NewRow("pending", gen, runAt, version)]
    ELSE tbl

\* A run ended: the deferred reservation, if there is one, takes the place of
\* the pending slot and becomes due at once.  What its dispatch recorded stays.
PromoteDeferred(tbl) ==
    LET deferred == InStatus(tbl, {"deferred"}) IN
    IF InStatus(tbl, ActiveStatuses) # {} \/ deferred = {}
    THEN tbl
    ELSE LET d == CHOOSE k \in deferred : TRUE IN
         [Move(tbl, {"pending"}, "cancelled") EXCEPT
            ![d] = [@ EXCEPT !.status = "pending", !.runAt = now,
                             !.version = programme.published]]

Least(a, b) == IF a <= b THEN a ELSE b

Init ==
    /\ now = 0
    /\ programme = [state |-> "draft", gen |-> 0, published |-> 0, nextDueAt |-> Null]
    /\ job = [k \in Keys |-> NoRow]
    /\ sends = {}
    /\ wakes = {}
    /\ posted = {}
    /\ faults = 0

-------------------------------------------------------------------------------
(* Operator commands *)

\* Publication of the draft, which was edited since the last one or not: waiting
\* runs of the old generation are superseded and the next slot of the new one is
\* inserted.  A run in progress goes on.
Publish(edited) ==
    /\ "publish" \in Commands
    /\ programme.gen < MaxGen
    /\ edited \/ programme.published > 0
    /\ LET gen == programme.gen + 1
           version == IF edited THEN programme.published + 1 ELSE programme.published
           next == NextSlot(now)
       IN /\ programme' = [state |-> "active", gen |-> gen,
                           published |-> version, nextDueAt |-> next]
          /\ job' = InsertPendingSlot(Move(job, WaitingStatuses, "cancelled"),
                                      gen, next, version)
    /\ UNCHANGED <<now, sends, wakes, posted, faults>>

\* Mutant: the deferred reservation survives a pause.
PauseKeepsDeferred ==
    /\ "pause" \in Commands
    /\ programme.gen < MaxGen
    /\ programme' = [programme EXCEPT !.state = "paused", !.gen = @ + 1, !.nextDueAt = Null]
    /\ job' = Move(Move(job, {"pending"}, "cancelled"), {"running"}, "cancel_requested")
    /\ UNCHANGED <<now, sends, wakes, posted, faults>>

\* Pause: waiting runs are cancelled, a running one is asked to stop.
Pause ==
    /\ "pause" \in Commands
    /\ programme.gen < MaxGen
    /\ programme' = [programme EXCEPT !.state = "paused", !.gen = @ + 1, !.nextDueAt = Null]
    /\ job' = Move(Move(job, WaitingStatuses, "cancelled"), {"running"}, "cancel_requested")
    /\ UNCHANGED <<now, sends, wakes, posted, faults>>

\* A manual run while a run is active (or, for defer_scheduled, while a slot is
\* pending): it joins the deferred reservation or becomes it.
RequestDeferred(r, overlap) ==
    LET stopped == IF overlap = "cancel_and_restart"
                   THEN Move(job, {"running"}, "cancel_requested")
                   ELSE job
    IN job' = IF InStatus(job, {"deferred"}) # {}
              THEN stopped
              ELSE [stopped EXCEPT ![r] = NewRow("deferred", programme.gen, now, 0)]

\* Mutant: a manual run leaves the pending slot in place.
RequestBesidePending(r) ==
    job' = [job EXCEPT ![r] = NewRow("pending", programme.gen, now, programme.published)]

\* A manual run otherwise: it replaces the pending slot and is due at once.
RequestPending(r) ==
    job' = [Move(job, {"pending"}, "cancelled") EXCEPT
              ![r] = NewRow("pending", programme.gen, now, programme.published)]

\* Mutant: a replayed request id is not recognised.
RequestRunAgain(r, overlap) ==
    /\ "request" \in Commands
    /\ programme.state = "active"
    /\ IF \/ InStatus(job, ActiveStatuses) # {}
          \/ overlap = "defer_scheduled" /\ InStatus(job, {"pending"}) # {}
       THEN RequestDeferred(r, overlap)
       ELSE RequestPending(r)
    /\ UNCHANGED <<now, programme, sends, wakes, posted, faults>>

\* A request id that already has a row is a replay and changes nothing.
RequestRun(r, overlap) ==
    /\ "request" \in Commands
    /\ programme.state = "active"
    /\ job[r].status = "none"
    /\ IF \/ InStatus(job, ActiveStatuses) # {}
          \/ overlap = "defer_scheduled" /\ InStatus(job, {"pending"}) # {}
       THEN RequestDeferred(r, overlap)
       ELSE RequestPending(r)
    /\ UNCHANGED <<now, programme, sends, wakes, posted, faults>>

\* Cancelling a waiting run ends it; cancelling a running one asks it to stop.
CancelRun(k) ==
    /\ "cancel" \in Commands
    /\ \/ /\ job[k].status \in WaitingStatuses
          /\ job' = PromoteDeferred([job EXCEPT ![k].status = "cancelled"])
       \/ /\ job[k].status = "running"
          /\ job' = [job EXCEPT ![k].status = "cancel_requested"]
    /\ UNCHANGED <<now, programme, sends, wakes, posted, faults>>

-------------------------------------------------------------------------------
(* The dispatch outbox *)

\* Mutant: a job is dispatched only once, whatever became of the wake.
PrepareOnce(k) ==
    /\ job[k].status = "pending"
    /\ job[k].runAt <= now + Horizon
    /\ job[k].dispatch = "unarmed"
    /\ job[k].sent < MaxDispatches
    /\ job' = [job EXCEPT ![k] = [@ EXCEPT
                  !.dispatch = "dispatching", !.sent = 1,
                  !.dispatchToken = 1, !.dispatchLease = now + DispatchLease]]
    /\ sends' = sends \cup {[key |-> k, attempt |-> 1, gen |-> job[k].gen,
                             runAt |-> job[k].runAt, delivered |-> FALSE]}
    /\ UNCHANGED <<now, programme, wakes, posted, faults>>

\* Mutant: only runs that are not yet due are dispatched.
PrepareUpcoming(k) ==
    /\ job[k].status = "pending"
    /\ job[k].runAt \in now .. now + Horizon
    /\ ~ (job[k].dispatch = "dispatched" /\ now < job[k].runAt + RepairAfter)
    /\ ~ (job[k].dispatch = "dispatching" /\ now < job[k].dispatchLease)
    /\ job[k].sent < MaxDispatches
    /\ LET attempt == job[k].sent + 1
       IN /\ job' = [job EXCEPT ![k] = [@ EXCEPT
                       !.dispatch = "dispatching", !.sent = attempt,
                       !.dispatchToken = attempt, !.dispatchLease = now + DispatchLease]]
          /\ sends' = sends \cup {[key |-> k, attempt |-> attempt, gen |-> job[k].gen,
                                   runAt |-> job[k].runAt, delivered |-> FALSE]}
    /\ UNCHANGED <<now, programme, wakes, posted, faults>>

\* A dispatcher reserves an attempt before the network call.
PrepareDispatch(k) ==
    /\ job[k].status = "pending"
    /\ job[k].runAt <= now + Horizon
    /\ ~ (job[k].dispatch = "dispatched" /\ now < job[k].runAt + RepairAfter)
    /\ ~ (job[k].dispatch = "dispatching" /\ now < job[k].dispatchLease)
    /\ job[k].sent < MaxDispatches
    /\ LET attempt == job[k].sent + 1
       IN /\ job' = [job EXCEPT ![k] = [@ EXCEPT
                       !.dispatch = "dispatching", !.sent = attempt,
                       !.dispatchToken = attempt, !.dispatchLease = now + DispatchLease]]
          /\ sends' = sends \cup {[key |-> k, attempt |-> attempt, gen |-> job[k].gen,
                                   runAt |-> job[k].runAt, delivered |-> FALSE]}
    /\ UNCHANGED <<now, programme, wakes, posted, faults>>

\* inngest.send: the event is now queued in Inngest.
SendWake(s) ==
    /\ ~ s.delivered
    /\ sends' = (sends \ {s}) \cup {[s EXCEPT !.delivered = TRUE]}
    /\ wakes' = wakes \cup {[key |-> s.key, gen |-> s.gen, runAt |-> s.runAt,
                             attempt |-> s.attempt, phase |-> "queued", token |-> 0]}
    /\ UNCHANGED <<now, programme, job, posted, faults>>

\* The attempt is recorded only while its token is still the row's.
Recorded(s, state) ==
    IF job[s.key].dispatchToken = s.attempt
    THEN [job EXCEPT ![s.key] = [@ EXCEPT
            !.dispatch = state, !.dispatchToken = 0, !.dispatchLease = Null]]
    ELSE job

RecordDispatch(s) ==
    /\ s.delivered
    /\ job' = Recorded(s, "dispatched")
    /\ sends' = sends \ {s}
    /\ UNCHANGED <<now, programme, wakes, posted, faults>>

\* inngest.send threw, or gave no receipt: whether the event was queued is unknown.
RecordFailedSend(s) ==
    /\ faults < MaxFaults
    /\ faults' = faults + 1
    /\ job' = Recorded(s, "repair_needed")
    /\ sends' = sends \ {s}
    /\ UNCHANGED <<now, programme, wakes, posted>>

\* The dispatching process dies.  The last crash leaves the clock room to let
\* the lease expire.
CrashDispatcher(s) ==
    /\ faults < MaxFaults
    /\ now + DispatchLease <= MaxTime
    /\ faults' = faults + 1
    /\ sends' = sends \ {s}
    /\ UNCHANGED <<now, programme, job, wakes, posted>>

-------------------------------------------------------------------------------
(* The wake: handleDiscoveryWake, after Inngest slept until the nominal time *)

\* Mutant: the event is handled when it arrives, not when the run is due.
AwakeEarly(w) == w.phase = "queued"

Awake(w) == w.phase = "queued" /\ w.runAt <= now

\* The row is the one the event was sent for.
Matches(w) == job[w.key].gen = w.gen /\ job[w.key].runAt = w.runAt

Claimable(w) ==
    /\ Matches(w)
    /\ job[w.key].status = "pending"
    /\ programme.state = "active"
    /\ programme.gen = w.gen
    /\ job[w.key].version \in {0, programme.published}

\* Stale, paused and replayed events end without an effect.
WakeIgnored(w) ==
    /\ Awake(w)
    /\ \/ ~ Matches(w)
       \/ job[w.key].status \in ActiveStatuses /\ job[w.key].claimed
       \/ job[w.key].status \notin {"pending"} \cup ActiveStatuses
       \/ job[w.key].status = "pending" /\ ~ Claimable(w)
    /\ wakes' = wakes \ {w}
    /\ UNCHANGED <<now, programme, job, sends, posted, faults>>

\* Cancelled before the collector claimed it.
WakeCancels(w) ==
    /\ Awake(w) /\ Matches(w)
    /\ job[w.key].status = "cancel_requested" /\ ~ job[w.key].claimed
    /\ job' = PromoteDeferred([Close(job, w.key, "cancelled") EXCEPT ![w.key].deadline = Null])
    /\ wakes' = wakes \ {w}
    /\ UNCHANGED <<now, programme, sends, posted, faults>>

\* A retried step finds the run it claimed past its deadline.  Unlike the
\* repair cron, this branch promotes no deferred run.
WakeFailsOverdue(w) ==
    /\ Awake(w) /\ Matches(w)
    /\ job[w.key].status = "running" /\ ~ job[w.key].claimed
    /\ job[w.key].deadline <= now
    /\ job' = Close(job, w.key, "failed")
    /\ wakes' = wakes \ {w}
    /\ UNCHANGED <<now, programme, sends, posted, faults>>

Holding(w, token) == [w EXCEPT !.phase = "claimed", !.token = token]

\* A retried step, or a second event for the run, gets the same trigger again.
WakeResumes(w) ==
    /\ Awake(w) /\ Matches(w)
    /\ job[w.key].status = "running" /\ ~ job[w.key].claimed
    /\ now < job[w.key].deadline
    /\ job' = [job EXCEPT ![w.key].lease = Least(job[w.key].deadline, now + HeartbeatLease)]
    /\ wakes' = (wakes \ {w}) \cup {Holding(w, job[w.key].token)}
    /\ UNCHANGED <<now, programme, sends, posted, faults>>

\* createNextScheduledSlotTx, in the transaction that claims or defers k.
WithNextSlot(tbl, k) ==
    LET next == NextSlot(IF now >= job[k].runAt THEN now ELSE job[k].runAt)
    IN /\ job' = InsertPendingSlot(tbl, programme.gen, next, programme.published)
       /\ programme' = [programme EXCEPT !.nextDueAt = next]

\* Another run is active: the due run becomes the deferred reservation, or is
\* folded into the one that is there.
WakeDefers(w) ==
    /\ Awake(w) /\ Claimable(w)
    /\ InStatus(job, ActiveStatuses) # {}
    /\ WithNextSlot(IF InStatus(job, {"deferred"}) # {}
                    THEN [job EXCEPT ![w.key].status = "coalesced"]
                    ELSE [job EXCEPT ![w.key] = [@ EXCEPT !.status = "deferred", !.version = 0]],
                    w.key)
    /\ wakes' = wakes \ {w}
    /\ UNCHANGED <<now, sends, posted, faults>>

WakeClaims(w) ==
    /\ Awake(w) /\ Claimable(w)
    /\ InStatus(job, ActiveStatuses) = {}
    /\ LET attempt == job[w.key].attempts + 1
       IN /\ WithNextSlot([job EXCEPT ![w.key] = [@ EXCEPT
                             !.status = "running", !.version = programme.published,
                             !.attempts = attempt, !.token = attempt,
                             !.deadline = now + OverallDeadline,
                             !.lease = now + HeartbeatLease,
                             !.authorized = FALSE, !.claimed = FALSE]],
                          w.key)
          /\ wakes' = (wakes \ {w}) \cup {Holding(w, attempt)}
    /\ UNCHANGED <<now, sends, posted, faults>>

-------------------------------------------------------------------------------
(* triggerDiscoveryN8n, in the same durable step as the claim *)

OwnsAttempt(w) ==
    /\ job[w.key].status = "running"
    /\ job[w.key].token = w.token
    /\ job[w.key].attempts = w.token

AuthorizeTrigger(w) ==
    /\ w.phase = "claimed"
    /\ OwnsAttempt(w)
    /\ job' = [job EXCEPT ![w.key].authorized = TRUE]
    /\ wakes' = (wakes \ {w}) \cup {[w EXCEPT !.phase = "authorized"]}
    /\ UNCHANGED <<now, programme, sends, posted, faults>>

\* Mutant: a failed step is left in a state no handler takes.
RequeuedAsRetry(w) == [w EXCEPT !.phase = "retry", !.token = 0]

Requeued(w) == [w EXCEPT !.phase = "queued", !.token = 0]

\* The authorisation throws.  Inngest runs the step again, or its retries are used up.
TriggerRefused(w) ==
    /\ w.phase = "claimed"
    /\ ~ OwnsAttempt(w)
    /\ wakes' \in {wakes \ {w}, (wakes \ {w}) \cup {Requeued(w)}}
    /\ UNCHANGED <<now, programme, job, sends, posted, faults>>

\* Mutant: the POST does not wait for its authorisation.
PostUnauthorized(w) ==
    /\ w.phase \in {"claimed", "authorized"}
    /\ posted' = posted \cup {[key |-> w.key, token |-> w.token]}
    /\ wakes' = wakes \ {w}
    /\ UNCHANGED <<now, programme, job, sends, faults>>

\* The POST is outside the transaction that authorised it.
PostTrigger(w) ==
    /\ w.phase = "authorized"
    /\ posted' = posted \cup {[key |-> w.key, token |-> w.token]}
    /\ wakes' = wakes \ {w}
    /\ UNCHANGED <<now, programme, job, sends, faults>>

\* The step throws or its process dies, with the POST delivered or not; Inngest
\* runs it again or its retries are used up.
StepFails(w) ==
    /\ faults < MaxFaults
    /\ faults' = faults + 1
    /\ w.runAt <= now
    /\ posted' \in {posted} \cup (IF w.phase = "authorized"
                                  THEN {posted \cup {[key |-> w.key, token |-> w.token]}}
                                  ELSE {})
    /\ wakes' \in {wakes \ {w}, (wakes \ {w}) \cup {Requeued(w)}}
    /\ UNCHANGED <<now, programme, job, sends>>

\* Inngest's clock, or the one a promotion took the run's time from, is ahead of the
\* database's by less than a unit: a handler that starts in time by the one finds the
\* run not due by the other, and the event is used up.
WakeNotDue(w) ==
    /\ faults < MaxFaults
    /\ faults' = faults + 1
    /\ w.phase = "queued" /\ Matches(w)
    /\ job[w.key].status = "pending"
    /\ job[w.key].runAt = now + 1
    /\ wakes' = wakes \ {w}
    /\ UNCHANGED <<now, programme, job, sends, posted>>

-------------------------------------------------------------------------------
(* Callbacks of the collector c, which carry the token it was started with *)

\* The attempt fence and the admission of acceptDiscoveryRuntimeCallback.
Admitted(c) ==
    /\ job[c.key].token = c.token
    /\ job[c.key].attempts = c.token

\* Mutant: a heartbeat may extend the lease beyond the hard deadline.
HeartbeatUnbounded(k) == now + HeartbeatLease

Heartbeat(k) == Least(job[k].deadline, now + HeartbeatLease)

\* An observations or checkpoint event; observations may open the
\* interpretation queue of their source.
CallbackProgress(c, open) ==
    /\ Admitted(c)
    /\ job[c.key].status = "running"
    /\ job' = [job EXCEPT ![c.key] = [@ EXCEPT
                 !.claimed = TRUE, !.lease = Heartbeat(c.key),
                 !.open = job[c.key].open \/ open]]
    /\ UNCHANGED <<now, programme, sends, wakes, posted, faults>>

\* Mutant: any completion is admitted after a cancel request.
CompletionAfterCancel(c, st, moreFeeds) ==
    /\ Admitted(c)
    /\ job[c.key].status \in ActiveStatuses
    /\ LET done == [job EXCEPT ![c.key] = [@ EXCEPT
                      !.claimed = TRUE,
                      !.provider = IF moreFeeds THEN job[c.key].provider ELSE st]]
       IN job' = IF moreFeeds \/ job[c.key].open
                 THEN [done EXCEPT ![c.key].lease = Heartbeat(c.key)]
                 ELSE PromoteDeferred(Close(done, c.key, st))
    /\ UNCHANGED <<now, programme, sends, wakes, posted, faults>>

\* A completion event of one source.  It ends the run unless other feeds
\* remain or an interpretation queue is open.
CallbackCompletion(c, st, moreFeeds) ==
    /\ Admitted(c)
    /\ job[c.key].status = "running"
    /\ LET done == [job EXCEPT ![c.key] = [@ EXCEPT
                      !.claimed = TRUE,
                      !.provider = IF moreFeeds THEN job[c.key].provider ELSE st]]
       IN job' = IF moreFeeds \/ job[c.key].open
                 THEN [done EXCEPT ![c.key].lease = Heartbeat(c.key)]
                 ELSE PromoteDeferred(Close(done, c.key, st))
    /\ UNCHANGED <<now, programme, sends, wakes, posted, faults>>

\* After a cancel request only a completion that says "cancelled" is admitted,
\* and it ends the run.
CallbackCancelled(c) ==
    /\ Admitted(c)
    /\ job[c.key].status = "cancel_requested"
    /\ "cancelled" \in CompletionStatuses
    /\ job' = PromoteDeferred(Close([job EXCEPT ![c.key].claimed = TRUE], c.key, "cancelled"))
    /\ UNCHANGED <<now, programme, sends, wakes, posted, faults>>

\* Mutant: a late interpretation does not look at the status of its run.
InterpretationSettlesLate(k, open, receipt) ==
    /\ job[k].claimed
    /\ LET settled == [job EXCEPT ![k].open = open]
       IN job' = IF ~ open /\ receipt /\ job[k].provider # "none"
                 THEN PromoteDeferred(Close(settled, k, job[k].provider))
                 ELSE settled
    /\ UNCHANGED <<now, programme, sends, wakes, posted, faults>>

\* A transaction of runDiscoveryInterpretationJob, once a source reported: it leaves
\* queues open, or closes the last of them, and opens one again if it writes back
\* what it loaded before another tick closed it.  A running run then ends if the
\* provider has, and the cost receipt is there; a cancelled one ends.
InterpretationSettles(k, open, receipt) ==
    /\ job[k].status \in ActiveStatuses
    /\ job[k].claimed
    /\ LET settled == [job EXCEPT ![k].open = open]
       IN job' = IF open THEN settled
                 ELSE IF job[k].status = "cancel_requested"
                      THEN PromoteDeferred(Close(settled, k, "cancelled"))
                      ELSE IF receipt /\ job[k].provider # "none"
                           THEN PromoteDeferred(Close(settled, k, job[k].provider))
                           ELSE settled
    /\ UNCHANGED <<now, programme, sends, wakes, posted, faults>>

-------------------------------------------------------------------------------
(* The repair cron *)

LeaseLapsed(k) ==
    /\ job[k].status = "pending"
    /\ job[k].dispatch = "dispatching"
    /\ job[k].dispatchLease <= now

Unclaimed(k) ==
    /\ job[k].status = "pending"
    /\ job[k].dispatch = "dispatched"
    /\ job[k].runAt + RepairAfter <= now

\* Mutants: the deadline is enforced only until a collector claims the run, or
\* only while nobody asked it to stop.
OverdueUnclaimed(k) ==
    job[k].status \in ActiveStatuses /\ ~ job[k].claimed /\ job[k].deadline <= now
OverdueRunning(k) == job[k].status = "running" /\ job[k].deadline <= now

Overdue(k) == job[k].status \in ActiveStatuses /\ job[k].deadline <= now

\* reconcileDiscoveryRuns: one transaction over the pending and active rows.
Reconcile ==
    LET repaired == [k \in Keys |->
            IF LeaseLapsed(k) \/ Unclaimed(k)
            THEN [job[k] EXCEPT !.dispatch = "repair_needed", !.dispatchLease = Null,
                                !.dispatchToken = 0]
            ELSE IF Overdue(k)
                 THEN [job[k] EXCEPT !.status = "failed", !.token = 0, !.lease = Null]
                 ELSE job[k]]
    IN /\ \E k \in Keys : LeaseLapsed(k) \/ Unclaimed(k) \/ Overdue(k)
       /\ job' = IF \E k \in Keys : Overdue(k) THEN PromoteDeferred(repaired) ELSE repaired
       /\ UNCHANGED <<now, programme, sends, wakes, posted, faults>>

Tick ==
    /\ now < MaxTime
    /\ now' = now + 1
    /\ UNCHANGED <<programme, job, sends, wakes, posted, faults>>

-------------------------------------------------------------------------------

Overlaps == {"defer", "defer_scheduled", "cancel_and_restart"}

Command ==
    \/ \E edited \in BOOLEAN : Publish(edited)
    \/ Pause
    \/ \E r \in Requests, overlap \in Overlaps : RequestRun(r, overlap)
    \/ \E k \in Keys : CancelRun(k)

Dispatch ==
    \/ \E k \in Keys : PrepareDispatch(k)
    \/ \E s \in sends : SendWake(s) \/ RecordDispatch(s)

DispatchFault == \E s \in sends : RecordFailedSend(s) \/ CrashDispatcher(s)

WakeStep(w) ==
    \/ WakeIgnored(w)
    \/ WakeCancels(w)
    \/ WakeFailsOverdue(w)
    \/ WakeResumes(w)
    \/ WakeDefers(w)
    \/ WakeClaims(w)
    \/ AuthorizeTrigger(w)
    \/ TriggerRefused(w)
    \/ PostTrigger(w)

Wake == \E w \in wakes : WakeStep(w)

WakeFault == \E w \in wakes : StepFails(w) \/ WakeNotDue(w)

Collector ==
    \E c \in posted :
        \/ \E open \in BOOLEAN : CallbackProgress(c, open)
        \/ \E st \in CompletionStatuses, more \in BOOLEAN : CallbackCompletion(c, st, more)
        \/ CallbackCancelled(c)

Interpretation ==
    \E k \in Keys, open \in BOOLEAN, receipt \in BOOLEAN : InterpretationSettles(k, open, receipt)

Next ==
    \/ Command
    \/ Dispatch
    \/ DispatchFault
    \/ Wake
    \/ WakeFault
    \/ Collector
    \/ Interpretation
    \/ Reconcile
    \/ Tick

Spec == Init /\ [][Next]_vars

\* The crons, the durable steps of Inngest and the clock go on; operators, the
\* collector, the interpretation worker and faults are under no obligation.
FairSpec ==
    /\ Spec
    /\ WF_vars(Dispatch)
    /\ WF_vars(Wake)
    /\ WF_vars(Reconcile)
    /\ WF_vars(Tick)

-------------------------------------------------------------------------------
(* Properties *)

Rows ==
    [status : Statuses, gen : Nat, runAt : Nat, version : Nat,
     attempts : Nat, token : Nat, deadline : Nat \cup {Null}, lease : Nat \cup {Null},
     authorized : BOOLEAN, claimed : BOOLEAN, open : BOOLEAN,
     provider : CompletionStatuses \cup {"none"},
     dispatch : {"unarmed", "dispatching", "dispatched", "repair_needed"},
     sent : Nat, dispatchToken : Nat, dispatchLease : Nat \cup {Null}]

Sends == [key : Keys, attempt : Nat, gen : Nat, runAt : Nat, delivered : BOOLEAN]

Wakes == [key : Keys, gen : Nat, runAt : Nat, attempt : Nat,
          phase : {"queued", "claimed", "authorized"}, token : Nat]

\* Every variable has its type.
TypeOK ==
    /\ now \in 0 .. MaxTime
    /\ programme \in [state : {"draft", "active", "paused"}, gen : 0 .. MaxGen,
                      published : Nat, nextDueAt : Nat \cup {Null}]
    /\ job \in [Keys -> Rows]
    /\ sends \in SUBSET Sends
    /\ wakes \in SUBSET Wakes
    /\ posted \in SUBSET [key : Keys, token : Nat]
    /\ faults \in 0 .. MaxFaults

\* A programme has at most one pending, one deferred and one active run, so no
\* transaction is ever aborted by the partial unique indexes of migration 0086.
SingleFlight ==
    \A j, k \in Keys :
        \/ j = k
        \/ /\ ~ (job[j].status = "pending" /\ job[k].status = "pending")
           /\ ~ (job[j].status = "deferred" /\ job[k].status = "deferred")
           /\ ~ (job[j].status \in ActiveStatuses /\ job[k].status \in ActiveStatuses)

\* A run waits only in an active programme and under its current generation; a
\* pending one has the published version and a deferred one none until it is
\* promoted.  Publish, pause, deferral and promotion all have to agree on this
\* for a wake never to find a pending run it must call stale.
WaitingRunsAreCurrent ==
    \A k \in Keys : job[k].status \in WaitingStatuses =>
        /\ programme.state = "active"
        /\ job[k].gen = programme.gen
        /\ job[k].version = IF job[k].status = "pending" THEN programme.published ELSE 0

\* Exactly the active runs hold an attempt token, a run is claimed at most once,
\* and the heartbeat lease never extends beyond the hard deadline.
AttemptFence ==
    \A k \in Keys :
        /\ job[k].attempts \in IF job[k].status \in {"none"} \cup WaitingStatuses
                              THEN {0} ELSE {0, 1}
        /\ job[k].token = IF job[k].status \in ActiveStatuses THEN job[k].attempts ELSE 0
        /\ job[k].status \in ActiveStatuses =>
              /\ job[k].attempts = 1
              /\ job[k].deadline # Null
              /\ job[k].lease \in Nat
              /\ job[k].lease <= job[k].deadline

\* A collector is started only for an attempt that was claimed and authorised,
\* whatever retries, second wake events and crashes there were.
CollectorAuthorized ==
    \A c \in posted :
        /\ job[c.key].authorized
        /\ job[c.key].attempts = c.token
        /\ job[c.key].status \notin {"none"} \cup WaitingStatuses

\* A run that ended never changes its status again: no late callback, retried
\* step or replayed command reopens it.
RunsEndOnce ==
    [][\A k \in Keys :
        job[k].status \in TerminalStatuses => job'[k].status = job[k].status]_vars

\* A run asked to stop is never resumed and never reported as completed.
CancelRequestIsFinal ==
    [][\A k \in Keys :
        job[k].status = "cancel_requested" =>
            job'[k].status \in {"cancel_requested", "cancelled", "failed"}]_vars

\* A run is claimed no earlier than its nominal time, in an active programme,
\* under its generation and version, and when no other run is active.
ClaimsAreFenced ==
    [][\A k \in Keys :
        job[k].status # "running" /\ job'[k].status = "running" =>
            /\ job[k].status = "pending"
            /\ job[k].runAt <= now
            /\ programme.state = "active"
            /\ job'[k].version = programme.published
            /\ InStatus(job, ActiveStatuses) = {}]_vars

\* The backlog drains: through crashed dispatchers, lost sends, lost wakes and
\* failed steps, time and again no due run is left pending.  Only the runs whose
\* repair time the modelled clock reaches are promised this.
DueRunsLeavePending ==
    []<>(\A k \in Keys :
            ~ (job[k].status = "pending" /\ job[k].runAt + RepairAfter <= MaxTime))

\* Every claimed run ends, also when the collector never answers: time and
\* again no run is active whose hard deadline the modelled clock reaches.
ActiveRunsEnd ==
    []<>(\A k \in Keys :
            ~ (job[k].status \in ActiveStatuses /\ job[k].deadline <= MaxTime))

\* The life of the runs as DiscoveryRunLifecycle promises it.
PhaseOf(status) ==
    CASE status = "none" -> "absent"
      [] status = "pending" -> "waiting"
      [] status = "deferred" -> "parked"
      [] status = "running" -> "active"
      [] status = "cancel_requested" -> "stopping"
      [] OTHER -> "closed"

Lifecycle == INSTANCE DiscoveryRunLifecycle WITH
    Runs <- Keys,
    phase <- [k \in Keys |-> PhaseOf(job[k].status)],
    started <- {c.key : c \in posted}

\* The coordinator implements the abstract lifecycle.
ImplementsLifecycle == Lifecycle!Spec

\* The comment of migration 0086 on next_due_at: the next published slot, null
\* when the programme is paused or unscheduled.  So a programme with a next slot
\* has a run that waits, or one in progress.
ArmedProgrammeHasRun ==
    programme.nextDueAt # Null => InStatus(job, WaitingStatuses \cup ActiveStatuses) # {}
===============================================================================
