# hrmny OS: TLA+ models and proofs

hrmny OS (`src/`) is a single-tenant operating system for an agency: a Next.js
application over Postgres with Inngest as its scheduler, n8n as its collector
and a set of integration adapters. This directory holds TLA+ modules translated
from its code, the TLC configurations that model-check them, and proofs checked
by TLAPS.

## 1. Inventory of the system

`S` abbreviates `src/apps/web/src/server`.

| Component | State it keeps | Operations | What makes it hard | Correct means |
|---|---|---|---|---|
| Discovery run coordinator (`S/sales-os/discovery-runs.ts`, `discovery-run-queries.ts`) | `research_programme` (state, generation, published version, next due), `scheduled_job` rows (status, attempt token, leases, deadline, dispatch) | publish, pause, manual run, cancel, claim, defer, coalesce, promote, reconcile | handlers of operators, wakes, callbacks and a cron interleave; rows of old generations; partial unique indexes | one run in flight, nothing stale waits, ended runs stay ended, cancel is final, due runs leave |
| Dispatch outbox and wake (`S/inngest/discovery.ts`, `functions.ts`) | dispatch reservation of a row, events in Inngest | prepare, send, record, sleep, wake, retry | crash between reservation, send and record; duplicate and lost events | a due run is woken in the end, a duplicate wake does nothing twice |
| Collector trigger (`S/sales-os/discovery-n8n.ts`) | `n8nRuntimeRevision` of the attempt | authorise, POST | the POST is outside the authorising transaction; ambiguous delivery | a collector starts only for a claimed, authorised attempt |
| Runtime callbacks (`S/sales-os/discovery-callbacks.ts`) | `integration_inbox`, source outcomes, claim, heartbeat lease | observations, checkpoint, completion | late, duplicated and reordered callbacks; several feeds | the attempt fence holds, a completion ends a run once |
| Interpretation worker (`S/sales-os/discovery-callback-ingest.ts`) | per-source queue, call and token budget | claim a batch, call the model, settle | two transactions around a model call of minutes | every observation is settled once, the budget holds, no result after cancel |
| Programmes and bindings (`S/sales-os/discovery-programmes.ts`) | drafts, versions, source bindings, credential generations | save draft, publish, pause, reconnect | optimistic versions, credential rotation | a published version is immutable, a run uses the binding it was authorised for |
| Candidates and review (`discovery-candidates.ts`, `discovery-review.ts`) | candidates, evidence, decisions | ingest, merge, decide | identity collisions | one candidate per identity, decided once |
| Apollo people search (`S/sales-os/apollo-search.ts`, `S/integrations/inbox.ts`, `governed-api-key.ts`, `resolve-keys.ts`, `S/crm/apollo-search-import.ts`) | a receipt and a job per search, an advisory lock (the lane), the owner's key, candidates in the CRM | request, claim, recover, authorise, call, settle, complete, import, fail, revoke, replace or disconnect the key | workers stall and die in a call, leases lapse, the lock's session is lost, roles and keys change meanwhile | one job in the slot, one request in flight with the key the owner has, outcomes final, no lost call forgotten |
| Google Chat replies (`S/google-chat.ts`, `S/qm/google-chat-worker.ts`, `app/api/cron/jobs/route.ts`) | a receipt and a job per message, the assistant's lease and run, the event in Inngest | receive, queue, claim, renew, hand over, deliver, retry, reset, expire | Google repeats messages, Inngest and a cron deliver the same row, an assistant works under a lease, sends are ambiguous | one delivery at a time, one answer shown, no message silently dropped |
| Gate pipeline (`src/packages/gate`) | entity state, audit rows | transition | authorise, validate, apply, audit, emit in one transaction | only legal transitions, each audited |
| Quartermaster control plane (`S/qm`) | work orders, grants, authority | issue, claim, settle | revoked authority | nothing is done under a revoked grant |
| Lead generation (`S/leadgen`) | sequences, mailbox cursor | daily run, send, follow up | duplicate sends, restarts | a message is sent once |
| Finance (`S/finance`) | Xero token pair, mirror rows | refresh, sync | rotating refresh tokens | one refresh uses a token |
| Seam outbox (`S/seams.ts`) | outbox rows | emit, deliver | at-least-once delivery | every event is handled |
| Sign-in (`S/auth`) | magic links, sessions | issue, redeem, revoke | one-time tokens | a link opens one session |
| CRM, tasks, HR, payroll, AI features, bridges, UI | records | CRUD, imports, model calls | mostly I/O | see `PROJECT.json` |

The components meet in the database. A publication or a manual request writes a
pending row; the cron or the requesting process *dispatches* it to Inngest, which
sleeps until the nominal time and runs the *wake*; the wake *claims* the row,
inserts the next slot and starts the n8n *collector*; the collector *calls back*
with the attempt token; observations queue work for the *interpretation worker*,
whose last transaction may also end the run; the *repair cron* expires dispatch
leases and enforces the hard deadline.

Apollo searches and Google Chat replies share its pattern and not its rows: a
receipt in `integration_inbox` that repeats of a request meet again, a
`scheduled_job` that a cron and an Inngest function both claim, and an answer of
the outside world that arrives between two transactions. `PROJECT.json` lists
every component and every hazard with its line.

## 2. Modules

| Module | Content |
|---|---|
| `DiscoveryRunLifecycle` | abstract specification: the phases of the runs of a programme, one in flight, collectors only for claimed runs |
| `DiscoveryCoordinator` | the coordinator, its outbox, wakes, trigger, callbacks and repair, in full; its properties; the refinement of the lifecycle |
| `MCDiscoveryCoordinator` | the instance for TLC; `MCDiscovery*.cfg` give the constants their values |
| `DiscoveryCoordinatorProofs` | TLAPS: type correctness |
| `DiscoveryFlightProofs` | TLAPS: the safety properties, the action properties and the refinement |
| `DiscoveryInterpretation` | the interpretation of one run: queues per source, the job's budget, ticks of two transactions around the model calls |
| `DiscoveryInterpretedRun` | abstract specification: the row of one run as the coordinator sees its interpretation, one flag for all queues |
| `MCDiscoveryInterpretation` | its instance for TLC, with four configurations |
| `DiscoveryInterpretationProofs` | TLAPS: types, budget, candidates, the end of the run, what queues hold, and the refinement of `DiscoveryInterpretedRun` |
| `ApolloSearch` | the free Apollo search: receipts, jobs, lane, keys, import, for several searches, workers and employees |
| `MCApolloSearch` | its instance for TLC, with four configurations |
| `ApolloSearchProofs` | TLAPS: type correctness, and what each action does to the rows |
| `ApolloDispatchProofs` | TLAPS: attempt tokens, final outcomes, the provider's slot, who holds a job |
| `ApolloCallProofs` | TLAPS: the request under way, its lease and its key, the wait, the job's outcome, the import and the warning of a lost call |
| `GoogleChatReply` | the answer to one Google Chat message, by the native assistant or directly, delivered by Inngest or the cron |
| `MCGoogleChatReply` | its instance for TLC |
| `GoogleChatReplyProofs` | TLAPS: type correctness |
| `GoogleChatDeliveryProofs` | TLAPS: the safety properties and the action property |

A definition preceded by the comment *Mutant* is the form a plausible bug would
give the definition after it; no specification uses it.

### DiscoveryCoordinator against the code

All queries filter by `research_programme_id`, so one programme is modelled. One
action is one database transaction, which the row locks make atomic, or one
network step between two transactions.

| Variable | Code |
|---|---|
| `now` | `statement_timestamp()` of the database, in abstract units |
| `programme` | `research_programme`: `state`, `scheduleGeneration`, `publishedVersion`, `nextDueAt` |
| `job[k]` | the `scheduled_job` row with job key `k`: a slot (generation, nominal time) or a manual request id. `version` is `research_programme_version_id` (0 is null), `token` the attempt token (0 is null, otherwise the attempt that drew it), `claimed` is `result.n8nClaim`, `authorized` is `result.n8nRuntimeRevision`, `open` says an interpretation queue is open, `provider` is `providerTerminalStatus`; `dispatch`, `sent`, `dispatchToken`, `dispatchLease` are `result.dispatch` |
| `sends` | dispatchers between `prepareDiscoveryDispatch` and `recordDiscoveryDispatch` |
| `wakes` | events in Inngest and the progress of their durable step |
| `posted` | triggers that reached the collector, with their token |
| `faults` | bounded count of injected faults |

| Actions | Code |
|---|---|
| `Publish`, `Pause` | `transitionProgramme` with `schedulePublishedSlotTx`, `pauseProgrammeRunsTx` |
| `RequestRun` | `requestDiscoveryRun`, all three overlap modes |
| `CancelRun` | `cancelDiscoveryRun` |
| `PrepareDispatch`, `SendWake`, `RecordDispatch`, `RecordFailedSend`, `CrashDispatcher` | `dispatchDiscoveryJob`; a failed send may have been delivered |
| `WakeIgnored`, `WakeCancels`, `WakeFailsOverdue`, `WakeResumes`, `WakeDefers`, `WakeClaims` | the branches of `handleDiscoveryWake` |
| `AuthorizeTrigger`, `TriggerRefused`, `PostTrigger`, `StepFails` | `triggerDiscoveryN8n` in the same durable step; Inngest retries or gives up |
| `WakeNotDue` | the branch `not_due`: Inngest woke by a clock ahead of the database's, by less than a unit of time, and the event is used up |
| `CallbackProgress`, `CallbackCompletion`, `CallbackCancelled` | `acceptDiscoveryRuntimeCallback` by event and admission |
| `InterpretationSettles` | either transaction of `runDiscoveryInterpretationJob`, as far as it opens or closes queues and ends runs |
| `Reconcile` | `reconcileDiscoveryRuns` |
| `Tick` | the clock |

Left out of this module: optimistic `stateVersion` checks of the handlers (the
row lock is held from read to write, so they never fail inside a handler; the
versions operators send only refuse commands); the inbox that drops repeated
callback events (repeating an admitted callback is allowed, which covers it);
failed reauthorisation of credentials (a failing step, `StepFails`); missed
counts and coalesced request ids; the execution switch (taken as on); the
contents of the interpretation queues (the flag `open` may change whenever the
code could change it); the retrigger after one of several feeds completed, which
posts the same attempt again.

### DiscoveryInterpretation against the code

One run, from its claim to its end. `DiscoveryCoordinator` sees of all this one
flag (`open`) and one action (`InterpretationSettles`); this module has the queues.
`DiscoveryInterpretedRun` states what the coordinator sees as a specification of
its own, and `ImplementsInterpretedRun` says that the queues implement it:

| `DiscoveryInterpretedRun` | `DiscoveryCoordinator` | here |
|---|---|---|
| `open` | `job[k].open` | some queue is `Open` |
| `provider` | `job[k].provider # "none"` | `run.provider` |
| `Progress`, `Completion` | `CallbackProgress`, `CallbackCompletion` | `Report`, `Complete`; `Checkpoint` changes nothing of this |
| `Settles` | `InterpretationSettles` | `TickSettles`; `TickUncertain` and `TickClaims` on a running run, which they do not end |
| `Stop` | `CancelRun`, `Pause` | `Cancel` |
| `End` | `CallbackCancelled`, the deadline | `EndElsewhere` |

That the coordinator's actions do to an active row what the actions in the first
column do is a matter of reading the two side by side; that the queues do no more
than that is checked and proved.

| Variable | Code |
|---|---|
| `run` | the row: `status`, whether `providerTerminalStatus` is set, and the sources whose `lastEvent` is the completion |
| `queue[s]` | `result.sourceOutcomes[s].interpretation`: `pending`, `inFlight`, ids of `done`, `claimedAt`, `status`; "absent" is no outcome, "unqueued" an outcome without a queue |
| `budget` | `result.budgetReservations.interpretation`: `observationIds`, `settledCalls`, `costReceiptAvailable` |
| `worker[w]` | a call of `runDiscoveryInterpretationJob` between its two transactions: the queue it loaded, what is left to call, what was resolved |
| `clock` | claims are numbered; those up to `stale` are older than `DISCOVERY_INTERPRETATION_CLAIM_MS` |
| `candidates`, `reported` | what left or entered the system: `ingestCollectorObservationTx`, observation events |

| Actions | Code |
|---|---|
| `Report`, `Checkpoint`, `Complete` | `acceptDiscoveryRuntimeCallback` on a running run, with `applyEnvelope` and `mergeInterpretationQueue` |
| `Cancel`, `EndElsewhere` | `cancelDiscoveryRun`, the deadline, the collector's acknowledgement |
| `TickWithoutCalls`, `TickUncertain`, `TickClaims` | the first transaction of `runDiscoveryInterpretationJob`, by the plan it makes |
| `Select`, `Without`, `Todo`, `Batch` | the `filter` and `slice` calls on the queues |
| `CallModel` | one iteration of the loop of `continueDiscoveryInterpretationQueue` |
| `TickSettles` | the second transaction; `Outcome` is the queue `continueDiscoveryInterpretationQueue` returned |
| `TickDies` | the process or the Inngest step ends between the two transactions |

The first transaction returns the plan and the second writes the *loaded* queue
over the stored one: both are in the model as they are in the code, and the
finding `lost_report` follows from it. A reservation that is refused stores nothing
but does not stop the calls; the model has that branch too (`TickClaims`).

Abstracted: tokens (a call reserves 2,400 and the job's token limit is 2,400
times its call limit, so reserved tokens and reserved calls bind together;
settled tokens could bind earlier only if a call used more than it reserved);
the wording of receipts (`done` is a set of ids); the four ends of the provider
(one); how a call resolves (grounded, rejected, or its cost receipt cannot be
stored); time (a claim lapses at any moment, and a tick may find its 20 s used
up after any call but the first). Inngest may tick any source that ever queued
an observation, at any time: more than its delayed, repeated and deduplicated
events do. A tick's attempt token is not modelled: a run has one attempt
(`AttemptFence` of the coordinator).

### ApolloSearch against the code

One action is one transaction, or one network step between two. Deadlines are
held as the time that is left of them.

| Variable | Code |
|---|---|
| `receipt[s]` | `integration_inbox`: status and `bridgeStatus` (`state`), `attempts`, attempt token and lease, `nextRetryAt` (`next`), `providerDispatchAuthorizedAt` (`authorized`), `providerOutcomeAmbiguous` (`ambiguous`), the connection account |
| `job[s]` | `scheduled_job`: status, attempt token, lease, `run_at` (`wait`) |
| `worker[w]` | a call of `runApolloPeopleSearchQueuedJob`: its place, and what it read and has not written yet |
| `lane`, `laneIdle` | the transaction that holds the provider's advisory lock, and what is left of its idle timeout |
| `connection[e]` | `connection_account` and its key; a version per key |
| `entitled`, `imported` | who passes `assertQueuedActorAuthorized`; searches whose candidates are in the CRM |
| `rejected`, `lost`, `misread`, `rushed`, `notBefore` | history for the properties: keys Apollo refused, searches with a call that ended without a status, failures handled without reading the receipt, attempts that began before their wait was over, the wait the last failure asked for |

| Actions | Code |
|---|---|
| `Search`, `Revoke` | `enqueueApolloSearchDefault`, `revokeApolloPeopleSearch` |
| `ReplaceKey`, `Disconnect` | `persistGovernedApiKeyConnection`, `disconnectGovernedApiKeyConnection` |
| `Claim` | the claim of `runApolloPeopleSearchQueuedJob`, and the first read of `runScheduledApolloPeopleSearch` |
| `Repair`, `Recover`, `CheckActor`, `Begin`, `Configure` | the steps of `runScheduledApolloPeopleSearch` before its dispatch |
| `Lock`, `LockBusy`, `Relinquish`, `Fence`, `StartCall` | `withPostgresTransactionAdvisoryLock`, `relinquishBusyProviderAttempt`, `authorizeClaimedProviderDispatch`, `executeClaimedProviderDispatch` |
| `Respond`, `Complete`, `Import`, `Settle`, `Mark`, `Fail`, `Persist` | the adapter's answer, `finishSearch` and the import, `recordProviderDispatchSettlement`, the failure path, `persistResult` |
| `Crash`, `LoseLane`, `Tick` | a worker ends; the lane's session ends; time, with the lane's idle timeout |

Not in this module: receipts of older versions, invalid payloads and jobs
(`deadLetterInvalidClaimedJob`), the path without a database, redaction, the
label of the queue, the 60 s default wait of a result that is not terminal, the
paid search. Attempt tokens are used again once no row and no worker holds them,
which keeps the states finite. `assertLockActive` and the sending of the request
are one step (`StartCall`): a host that pauses between the two for longer than the
lane's idle timeout could send without the lane, so `OneCall` rests on the
assumption that it does not. An error of `CheckActor` other than the refusal (the
database fails) is a crash of its worker, whose lease then lapses. `Mark` compares
the version of the key; the code compares the row's `xmin` too and refuses more.

Other paths that lose the ambiguity of a receipt (a failed read in the failure
path, `apollo-search.ts:1852`; a body that cannot be read, `leadsource.ts:492`)
are in the model and excluded by premise from `LostCallsAreAmbiguous`.

`RetryAfterHonoured` has a premise too. A worker that stalls for longer than its
lease, between its check and `beginIntegrationReceiptAttempt`
(`apollo-search.ts:1724`), begins an attempt without a comparison of the job or of
the wait: another worker may have made a call meanwhile that Apollo answered with
a Retry-After of up to a day. The recovery of that attempt forgets the time of the
next one. `rushed` holds the searches this happened to; for all others the wait is
honoured.

### GoogleChatReply against the code

| Variable | Code |
|---|---|
| `receipt` | `integration_inbox`: `status`, `result.bridgeStatus` (`bridge`) and `result.text`, a number per text |
| `job` | `scheduled_job`: `status`, `kind`, `attempts`, `locked_at` and `run_at` as the time that is left of them (`lock`, `wait`), whether the payload is `{}` (`erased`), `result.claimToken` and `result.runId` |
| `requests` | calls of `handleGoogleChatRequest` before the progress write and before the queue |
| `calls` | calls Inngest still makes for the event of the job |
| `worker[w]` | a delivery by `runGoogleChatQueuedJob` or by the cron |
| `qm[t]` | the holder of claim token `t`, between its requests and within one |
| `posted` | the text Google shows under the message id the receipt determines |
| `active`, `served` | `resolveActiveStaffById`, `qmGoogleChatAllowed` |
| `slips` | the two races named below, for the properties that exclude them |

| Actions | Code |
|---|---|
| `Deliver`, `Progress`, `Queue`, `RequestDies` | `handleGoogleChatRequest`: receipt, progress, job and event |
| `QmExpire`, `QmClaim`, `QmBind` | the three statements of the action *claim* of `operateQmGoogleChat` |
| `QmRequest`, `QmStaff`, `QmRenew`, `QmComplete`, `QmDies` | its actions *renew* and *complete*: the row is read, who asked is looked up, then the update |
| `EventClaim`, `CronClaim`, `CronReset` | the claim of `runGoogleChatQueuedJob`; the reset and the claim of the cron |
| `Load`, `CallModel`, `Save`, `Send`, `Complete` | `runGoogleChatInteractionJob` |
| `Finish`, `GiveUp`, `Requeue`, `StepFails` | what its two callers do with its result or its error |
| `WorkerDies`, `AccessChanges`, `Tick` | the platform; staff and the assistant's list; time |

Two slips are in the model and excluded by premise. *late*: the first delivery
of a message writes its progress unconditionally, and when a second delivery has
queued the job already, that write puts a receipt with a saved answer, or a
completed one, back to processing. *unreported*: the cron ignores an error of
`failGoogleChatInteractionJob`, fails the job all the same, and the receipt stays
in processing. Not in this module: messages answered at once (added to a space,
empty), the path without a database, signatures, the binding of the actor's
address, the switch `GOOGLE_CHAT_RUNTIME` (turned off, it leaves the assistant's
jobs pending), batches of twenty, and the other kinds of jobs the cron runs.

## 3. What the runs check

| Run | Question | Constants that matter |
|---|---|---|
| `commands` | operator commands in every order against a run in progress, and progress with manual and deferred runs | two publications or pauses, one manual request, clock to 2, `FairSpec` |
| `faults` | one crash, lost send or failed step, the duplicate wakes they cause, and progress through them | two dispatch attempts, one fault, clock to 3, `FairSpec` |
| `armed_slot` | the comment on `next_due_at`, violated | one manual request |
| `interpretation` | two workers, two sources, one shared call | two observation events, one dying tick, provider present or not |
| `interpretation_progress` | the cron alone brings cancelled runs and claims to an end | two observations per source, batches of two, two calls, `FairSpec` |
| `stranded_cancel` | the handback on cancellation, violated | as above without dying ticks, `FairSpec` |
| `lost_report` | the handback on lost receipts, violated | one source and the cron alone |
| `apollo` | safety of one search between two workers | two attempts, two keys, one loss of the role, one fault, lease 3 |
| `apollo_progress` | two searches compete for the slot and end | one worker, one attempt, one fault, one failed read, `FairSpec` |
| `apollo_blocked` | the comment on the slot of a running job, violated | one worker, one search, one loss of the role, `FairSpec` |
| `apollo_erased` | the audit's statement on ambiguity, violated | two workers, two attempts, one loss of the role |
| `chat` | one message, by Inngest, the cron and the assistant | two workers, two deliveries, two attempts, two calls of the event, one renewal, one change of access, one fault, `FairSpec` |

Properties: `SingleFlight` (the three partial unique indexes never abort a
transaction), `WaitingRunsAreCurrent` (no reservation of an old generation or
version waits), `AttemptFence` (tokens belong to active runs, one attempt per
run, leases within the deadline), `CollectorAuthorized`, and the action
properties `RunsEndOnce`, `CancelRequestIsFinal`, `ClaimsAreFenced`; the
refinement `ImplementsLifecycle`; the liveness properties `DueRunsLeavePending`
and `ActiveRunsEnd`.

Properties of the interpretation: `ReservationsWithinCeiling` (ticks of several
sources plan with the same remainder and yet reserve no more than the ceiling),
`CompletedRunsAreInterpreted` (callback and tick agree on when the run is over),
`NothingPendingOnceClosed` (a completed or cancelled queue leaves nothing pending),
`ReceiptLossIsFinal`, `NoCandidateAfterCancel`, the refinement
`ImplementsInterpretedRun` (the flag of the coordinator is a sound picture of all
queues: no report closes one, and a tick that leaves none open, and only such a
tick, may end the run), and the liveness properties `CancelledRunsEnd` and `ClaimsAreReleased`. `CancelledRunsEnd` excludes stranded
queues; `stranded_cancel` shows why it has to.

Properties of the Apollo search: `OneSlot` and `OneCall` (one running job of the
provider; one request under way, even when a worker outlives its lease or the
session that holds the lane is lost), `KeyFixedDuringCall` (no replacement and no
disconnection crosses a call), `KeyErrorIsCurrent` (a late refusal does not
disable a newer key), `CompletedJobsAreImported`, `EndedJobsAreSettled` (no search
is left without a job to run), `LostCallsAreAmbiguous`, the action properties
`OutcomeIsFinal` and `RetryAfterHonoured`, and the liveness property
`SearchesEnd`.

Properties of the chat reply: `OneDelivery` (Inngest and the cron never deliver
one answer at the same time), `CompletedIsShown` (a completed receipt says what
Google shows, whichever attempt got its text there first), `EndedJobsAreReported`,
`RunIsKept` (a worker whose lease lapsed cannot put its run in place of its
successor's), the action property `SavedAnswerIsKept`, and the liveness property
`JobsEnd`.

**Bounds.** `MaxTime` stops the clock, `MaxGen` bounds publications and pauses,
`MaxDispatches` the attempts per row, `MaxFaults` the faults. Time units stand
for the ratios of the real constants that the code compares: lease 60 s, repair
5 min, deadline 30 min, horizon 24 h. Three units of time let a slot come due,
be claimed, pass its deadline and be repaired, with the next slot inserted; two
generations let an old wake meet a new publication; one fault lets a second wake
exist beside the first. The run `faults` has a deadline of one unit and a clock to 3, so that a run that
was delayed by its fault still meets its deadline.
`CHECK_DEADLOCK FALSE` because an idle programme at the
end of the modelled time has nothing left to do.

`MaxReports` bounds the observation and checkpoint events of an interpretation,
`MaxFaults` its dying ticks; `MaxCalls` and `BatchSize` are the code's 24 and 5
made small enough to be exhausted. Two sources are what it takes for a listing
to prefer one, and for one budget to be shared; two observations of a source
leave one unattempted when a receipt is lost. An ended run has nothing left to
do, hence `CHECK_DEADLOCK FALSE`.

The clock of the other two modules is not bounded: it counts waits down, so the
states are finite without it. `MaxCredentials`, `MaxDenials`, `MaxFaults` and
`MaxMisreads` bound the outside events of an Apollo search; two keys let an
answer meet a later key, two attempts let a retry follow a lost call, and a
second worker can take a job over from one that stalled. A lease of three units
with a lane of one and a call of one keeps the order of the real limits (the
lane's idle timeout and the request's time limit together are shorter than the
lease, `ApolloAssumption`). `MaxDeliveries`, `MaxRenewals`, `MaxChanges` and
`MaxFaults` bound the events of a chat message: two deliveries race, one renewal
lets a lapsed worker meet its successor, one death leaves a running row. The
attempt limit is two instead of three: the last attempt and one before it. A
message that was answered leaves nothing to do (`CHECK_DEADLOCK FALSE`).

**Fairness** (`FairSpec`). Weak fairness of `Dispatch` (the repair endpoint and
the requesting process call `dispatchPendingDiscoveryJobs`), `Wake` (Inngest runs
a queued function and its durable steps), `Reconcile` (the repair cron) and
`Tick`. Nothing is assumed of operators, the collector, the interpretation worker
or faults. The liveness properties promise only what the modelled clock reaches:
a run whose repair time or deadline lies within `MaxTime`.

`FairSpec` of the interpretation assumes strong fairness of the cron's tick of
each source: the cron lists the sources and ticks them one after the other, and
comes again, so a source that is listed again and again is ticked. (The cron
takes five queues at a time over all runs; `FairSpec` therefore speaks of a run
that need not compete for these places, see the hazards.) A tick under way goes
on, by a call, whose time is limited, or by its settlement, and claims lapse.
Nothing is assumed of Inngest, the collector or the operators.

`FairSpec` of the Apollo search assumes that the cron comes again and claims a
job when one can be claimed, that a worker that did not die goes on, and that
time passes. `SearchesEnd` and `SlotIsReleased` have the premise `InTime`: from
some time on workers keep within their leases. The platform ends a worker after
five minutes (`maxDuration`), the lease is longer; without the premise a worker
could lose its lease again and again. `SearchesEnd` has a second premise, that
roles are not lost for good; `apollo_blocked` shows why it needs it. Nothing is
assumed of owners, of Inngest or of Apollo.

`FairSpec` of the chat reply assumes the cron's reset and claim, the progress of
a worker that did not die, that the assistant polls (`QmClaim`, `QmExpire`) and
each of its requests ends or dies, and time. `Tick` does not let a lock lapse
under a living worker. This is an assumption on the platform: the lock lasts ten
minutes and the cron's route declares a `maxDuration` of five
(`cron/jobs/route.ts:38`), but the route of Inngest declares none, so that the
platform's default must be shorter than the lock. Nothing of the kind is assumed
of the assistant, whose lease may lapse at any time. Nothing
is assumed of Google or of Inngest.

**Findings.** Five statements of the repository do not hold of its code; each is
a run that TLC finds violated.

`armed_slot`. Migration 0086 says of `next_due_at`: "Next nominal
published Discovery slot. Null means paused or unscheduled." A manual run cancels
the pending slot; when it is claimed before that slot's time, the next slot it
computes has the cancelled row's job key, the insert does nothing, and
`next_due_at` names a slot no row will ever run. After the manual run ends nothing
waits and nothing runs until the programme is published again, or a later manual
run is claimed after that slot's time (it then inserts a later slot).

Two are statements of `docs/DISCOVERY-P1-HANDBACK.md`:

- `stranded_cancel`, "Cancellation ... can finalize when all queues were already
  terminal." The listing selects the first source when all queues have a final
  status. A queue of another source that is final but holds observations (its
  tick lost a cost receipt) keeps the run open, and no tick ever takes it. The
  deadline ends the run, as failed. The document recommends cancelling in just
  this situation.
- `lost_report`, "Receipt persistence failure ... preserves unattempted
  observations." The tick that lost the receipt writes back the queue it loaded
  before its calls; an observation merged meanwhile is gone.

Two more statements of this document are contradicted by branches of the model
that have no run of their own: merging a callback into a claimed queue changes
its status to pending and keeps `inFlight`, and the planner then claims the
in-flight observations again ("cannot automatically replay"); and a reservation
that is refused does not stop the calls ("reservations are stored under the job
lock before model I/O").

Two are about the Apollo search:

- `apollo_blocked`, a running job "keeps its attempt token, lease, and database
  concurrency slot until the provider call settles or the same job is recovered
  after lease expiry" (`apollo-search.ts:1526`). When the owner of a completed
  native search loses the role before the import, every recovery throws, no list
  calls that error permanent, and the job keeps the only slot of the provider.
- `apollo_erased`, "later success, role loss, or attempt-limit terminalization
  does not erase that warning" (the audit of the serialization). The revocation
  on a lost role writes back the ambiguity as it was read at the start, over one
  that another worker recorded since.

## 4. What is proved

For every value of the constants allowed by `ConstantsAssumption` (positive
intervals and leases, request ids that are not slots), without bounds on requests
or statuses:

| Theorem | Statement |
|---|---|
| `TypeCorrect` | `Spec => []TypeOK` |
| `SingleFlightHolds` | `Spec => []SingleFlight` |
| `WaitingRunsStayCurrent` | `Spec => []WaitingRunsAreCurrent` |
| `EndedRunsStayEnded` | `Spec => RunsEndOnce` |
| `CancelRequestsAreFinal` | `Spec => CancelRequestIsFinal` |
| `ClaimsStayFenced` | `Spec => ClaimsAreFenced` |
| `AttemptsStayFenced` | `Spec => []AttemptFence` |
| `CollectorsAreAuthorized` | `Spec => []CollectorAuthorized` |
| `CoordinatorImplementsLifecycle` | `Spec => ImplementsLifecycle` |

*The argument.* `TypeOK` is inductive. `SingleFlight` and `WaitingRunsAreCurrent`
are not inductive apart from it, but the three together (`FlightInv`) are: a
second pending row is excluded because every insertion follows a step that left
none pending, and the deferred reservation may be promoted only because it is of
the current generation. Every action is shown to be *calm* (each row moves along
the permitted statuses and no new row waits) or a calm step followed by one
insertion, promotion or claim (`Permitted`); the lemma `StepShape` says so for
`Next`, and the action properties and the refinement are read off it.
`AttemptFence` is inductive with the types and says something of each row alone
(`FencedRow`): a claim takes a waiting row, which has no attempt yet, and after it
a row only keeps its fence, ends with its token cleared, or gets a lease that
is the least of its deadline and another time (`FenceKept`, `FencedLease`).
`CollectorsAreAuthorized` needs the stronger `FenceInv`: also a wake that is
authorised but has not posted belongs to an attempt that was started.

About the interpretation, for every number of sources, workers, observations,
reports and faults:

| Theorem | Statement |
|---|---|
| `ReceiptLossStaysFinal` | `Spec => ReceiptLossIsFinal` |
| `NoCandidatesOnceCancelled` | `Spec => NoCandidateAfterCancel` |
| `CompletedRunsStayInterpreted` | `Spec => []CompletedRunsAreInterpreted` |
| `ReservationsStayWithinCeiling` | `Spec => []ReservationsWithinCeiling` |
| `TypeCorrect` | `Spec => []TypeOK` |
| `NothingStaysPending` | `Spec => []NothingPendingOnceClosed` |
| `StoredClaimsAreReserved` | what a stored queue claims is reserved in the budget of the job, always |
| `OpenQueuesHoldWork` | an open queue has an observation pending or in flight, always |
| `InterpretationImplementsRun` | `Spec => ImplementsInterpretedRun` |

*The argument.* The first four do not look inside a queue; they need `ShapeHolds`,
that row, budget and table of queues have their fields. The receipt stays lost
because a running job without it starts no tick (`NoClaimWithoutReceipt`) and a
settling tick conjoins its own receipt to the stored one. A completed run stays
interpreted because the two actions that complete one look at every queue in
the same step, and no action changes a queue of an ended run. The ceiling needs
`BudgetInv`: reservations are a finite set below the ceiling, and what is settled
is a number, because every tick has finitely many results. A step that reserves
checked the same remainder (`ReservableFits`), and a batch is finite whatever the
queue it was taken from holds (`BatchIsFinite`).

The next four are about the contents of the queues. `Select`, which stands for the
`filter` calls of the source, takes the elements at some places of a sequence: its
k-th element is at the place that has k kept places up to it. That there is such a
place for every k (`Ranks`) would take an induction, and the induction theorems of
the library cannot be used, because they have an operator as a parameter. The
proofs use the least number of a set instead (`Least`), which follows from the
first-order fact that < is well founded. From it come `Selected`, `Filtered` and
`LeftToDo`: what is selected are observations, and precisely those at the kept
places; what is left to do is what is claimed and what is pending and not done.
The inductive invariant is `QueuesInv`: the types, and `ClaimsInv`. Of every stored
queue `ClaimsInv` says that its claim is reserved (`Paid`) and that its status
tells the truth (`Sound`): completed or cancelled, it has nothing pending; pending,
it has something pending; claimed, it has a claim, and nothing pending that is done
or claimed. It says the same of the queue a tick without calls is about to write
(`Writing`), because that queue replaces the stored one, and of the queue of a tick
that calls that it is claimed and that the tick's results and what is left of its
batch are of this claim (`Calling`). A refused reservation stores nothing, so that
its claim never reaches the row.

The refinement needs that much. `Progress` of the abstract run closes no queue: a
report may bring nothing new, and only `Sound` excludes that an open queue is empty
and the merge completes it (`ReportsOpen`).
`Settles` ends the run when no queue is open, while the code also asks for a final
status of the tick's own queue: the two agree because what a tick writes back always
has a queue's status and is then open or final (`WrittenBackQueue`,
`SettlesAsSeen`). A tick that begins may close the last queue, by giving up a stale
claim, without ending the run (`StartsAsSeen`); the abstract step is then one that
stored no receipt. A tick that writes back what it loaded can open a queue again
after another tick closed the last one; `Settles`, and the coordinator's
`InterpretationSettles` with it, therefore have no guard on the flag.

Only model-checked of this module: liveness.

About the Apollo search, for every set of searches and employees, every finite
set of workers, all limits in the order of `ApolloAssumption` (the lane's idle
timeout and the request's limit together stay below the lease), and any number of
faults:

| Theorem | Statement |
|---|---|
| `TypeCorrect` | `Spec => []TypeOK` |
| `OutcomesStay` | `Spec => OutcomeIsFinal` |
| `OneSlotForAll` | `Spec => []OneSlot` |
| `OneCallForAll` | `Spec => []OneCall` |
| `KeyFixedForAll` | `Spec => []KeyFixedDuringCall` |
| `WaitsAreHonoured` | `Spec => RetryAfterHonoured` |
| `KeyErrorsAreCurrent` | `Spec => []KeyErrorIsCurrent` |
| `EndedJobsHaveOutcomes` | `Spec => []EndedJobsAreSettled` |
| `CompletedJobsImport` | `Spec => []CompletedJobsAreImported` |
| `LostCallsAreWarnedOf` | `Spec => []LostCallsAreAmbiguous` |

*The argument.* `ApolloSearchProofs` says once, for each action, which row it
changes and how (`FenceDoes`, `SettleDoes`, ...); all later steps use these
lemmas. `TypeOK` needs that a receipt in processing has counted an attempt. The
properties above it are layers of one induction. `TokenInv`: two workers never
share a token, and a token found in a row leads to one search; it holds because
a claim draws a token nobody holds and every other step only drops tokens or
writes the worker's own. `HolderInv`: a worker that still holds its job and has
begun an attempt finds the receipt at that attempt, or revoked; hence a fence
that compares both rows fails in no other way. `HotInv` is the core: a worker
that calls, or that is about to in a lane it still has, holds the job under a
lease longer than what is left of its call, the authorised attempt (or its
revocation) is on record, and the owner's key is the one it read. The lease is
renewed by the fence, under which the call and the lane's idle time count down
together with it, so no other worker can claim the job; `OneSlot` then excludes
a second call, and the record excludes any change of the key. `FenceInv` (a
worker that took the job over never meets the open attempt of the one before it
once that one is past its fence) and `WaitInv` (no attempt is open, and no
receipt due, before the wait is over) give `RetryAfterHonoured`. `RefusalInv`,
`ReportInv` (what a worker carries to the job is the receipt's outcome, if it is
one) and `ImportInv` give the next three.

`LostCallsAreAmbiguous` is the farthest from inductive, because the warning lives
in three places: in the receipt, in the `doubt` a worker read when it claimed, and
in the authorisation of an attempt whose call is not settled. `StepChanges` first
lists every way a receipt may change. `TraceInv`: the token of a receipt, or of
the attempt a recovery replaces, leads to the one worker that began with it, and
that worker is past its begin. `DoubtInv`: whoever may still write a receipt has
read what it says now, be it the worker with the job, the one whose attempt is
open after it lost the job, or a recovery that still finds the attempt it came
for. `LostInv` then says that a lost call has left a warning, or an authorised
attempt that nobody but the worker without an answer can settle. The two premises
of the property enter in one place each: a refusal writes the doubt of a worker
that may hold neither job nor attempt, and a misread failure writes none.

About the chat reply, for any number of workers, deliveries, calls, renewals and
faults:

| Theorem | Statement |
|---|---|
| `TypeCorrect` | `Spec => []TypeOK` |
| `DeliversAlone` | `Spec => []OneDelivery` |
| `RunsAreKept` | `Spec => []RunIsKept` |
| `CompletedAnswersAreShown` | `Spec => []CompletedIsShown` |
| `EndedJobsReport` | `Spec => []EndedJobsAreReported` |
| `SavedAnswersStay` | `Spec => SavedAnswerIsKept` |

*The argument.* `DeliveryInv` adds to `OneDelivery` that the job of a busy worker
is running under a lock that has not lapsed: no claim and no reset takes such a
row. It rests on the guard of `Tick`, that a living worker ends before its lock
does (five minutes and ten). `RunInv` follows a run from the claim to the renewal.
The other three hold together (`AnswerInv`): a job exists only for a message that
was received, and an answer is saved only where a job delivers it
(`ReceivedInv`); a worker makes an answer only where none is saved and sends the
saved one (`WorkingInv`); a worker about to end the job has ended the message
(`EndingInv`); and one about to complete it has seen its own text at Google
(`ShownInv`).

Only model-checked: the liveness properties of all modules, which fairness and
ENABLED put out of the prover's reach.

## 5. Plan

Done: the coordinator with its abstract lifecycle, the refinement, the
interpretation, the Apollo search and the chat reply. Next, in this order:

1. The inbox of the runtime callbacks: dedupe, source outcomes, completion over
   several feeds and the retrigger; it refines the callback actions.
2. The lock order of runs and programmes, at the level of row locks.
3. The gate pipeline for one state machine; the Xero token refresh; the seam
   outbox; portal magic links: small modules each.

Not modelled, and why: rendering, thin API handlers, scripts, DDL beyond the
constraints above, import adapters, and calculations without concurrent state.
Deferred runs that wait although nothing is active (the deadline branch of the
wake does not promote) are a behaviour of the model that no document forbids.
The write of a stale connection by `reconnectDiscoverySource`
(`discovery-programmes.ts:1711`) belongs to the source bindings, which are
modelled only as far as they make a step fail.
