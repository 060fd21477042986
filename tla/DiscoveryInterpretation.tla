------------------------ MODULE DiscoveryInterpretation ------------------------
(***************************************************************************)
(* The interpretation of one Discovery run: the collector's callbacks      *)
(* append observations to a queue per source, and two workers (the Inngest *)
(* function, whose concurrency limit is 1, and the repair cron) tick over  *)
(* the queues.  A tick is a first transaction that plans and reserves, the *)
(* model calls, which hold no lock, and a second transaction that writes   *)
(* the outcome.  DiscoveryCoordinator abstracts all of this to one flag of *)
(* the run and its action InterpretationSettles.                           *)
(***************************************************************************)
EXTENDS Integers, Sequences, SequencesExt, FiniteSets

CONSTANTS
    Workers,         \* "cron" and "inngest", or the cron alone
    NumSources,      \* automatic feeds of the run
    ItemsPerSource,  \* observations a feed can report that need a model call
    MaxCalls,        \* DISCOVERY_INTERPRETATION_MAX_CALLS_PER_JOB
    BatchSize,       \* DISCOVERY_INTERPRETATION_BATCH_SIZE
    ProviderStates,  \* whether a provider may be missing: a subset of BOOLEAN
    MaxReports,      \* bound: observation and checkpoint events
    MaxFaults        \* bound: ticks that die between their two transactions

ASSUME InterpretationAssumption ==
    /\ {NumSources, ItemsPerSource, MaxCalls, BatchSize} \subseteq Nat \ {0}
    /\ "cron" \in Workers
    /\ ProviderStates \subseteq BOOLEAN
    /\ {MaxReports, MaxFaults} \subseteq Nat

\* In the order in which Object.entries lists the source keys.
Sources == 1 .. NumSources
Items == Sources \X (1 .. ItemsPerSource)

VARIABLES
    run,        \* the scheduled_job row: status, provider's end, finished feeds
    queue,      \* result.sourceOutcomes, by source
    budget,     \* result.budgetReservations.interpretation
    worker,     \* the ticks in progress
    clock,      \* claims made so far, and how many of them are stale by now
    candidates, \* observations submitted as discovery candidates
    reported,   \* observations the collector reported
    reports,    \* observation and checkpoint events so far
    faults      \* faults used so far

vars == <<run, queue, budget, worker, clock, candidates, reported, reports, faults>>

-------------------------------------------------------------------------------
(* Queues *)

\* A source that did not report yet is absent; one that reported something else
\* than observations has an outcome without a queue.
FinalStatuses == {"completed", "unavailable", "ceiling", "cancelled"}
QueueStatuses == {"absent", "unqueued", "pending", "continuing"} \cup FinalStatuses

NoQueue == [pending |-> <<>>, inFlight |-> <<>>, done |-> {},
            claimedAt |-> 0, status |-> "absent"]

IdleWorker == [phase |-> "idle", source |-> 1, queue |-> NoQueue, todo |-> <<>>,
               results |-> {}, resolved |-> {}, noReceipt |-> FALSE]

\* readInterpretationQueue: an outcome without a queue reads as an empty one.
Loaded(s) == IF queue[s].status \in {"absent", "unqueued"}
             THEN [queue[s] EXCEPT !.status = "pending"]
             ELSE queue[s]

Open(q) ==
    /\ q.status \notin {"absent", "unqueued"}
    /\ \/ q.status \in {"pending", "continuing"}
       \/ q.pending # <<>>
       \/ q.inFlight # <<>>

\* The elements of a sequence at some of its positions, in their order.
Select[p \in Seq(Items) \X SUBSET Nat] ==
    [k \in 1 .. Cardinality(p[2]) |->
        p[1][CHOOSE n \in p[2] : Cardinality({m \in p[2] : m <= n}) = k]]

Without(seq, gone) == Select[<<seq, {n \in DOMAIN seq : seq[n] \notin gone}>>]

\* Observations incoming join the queue.  Only its pending ones are compared.
Merge(q, incoming) ==
    LET pending == q.pending \o Without(incoming, ToSet(q.pending))
    IN [q EXCEPT !.pending = pending,
                 !.status = IF pending # <<>> THEN "pending" ELSE "completed"]

\* Mutant: what was interpreted before and is reported again stays pending.
ProgressKeepsDone(q, claimed, results, status) ==
    [q EXCEPT
       !.pending = Without(@, ToSet(claimed) \cup results),
       !.inFlight = claimed,
       !.done = @ \cup results,
       !.claimedAt = IF claimed # <<>> THEN clock.claims + 1 ELSE 0,
       !.status = status]

\* applyDiscoveryInterpretationProgress
Progress(q, claimed, results, status) ==
    LET done == q.done \cup results
    IN [q EXCEPT
          !.pending = Without(@, ToSet(claimed) \cup done),
          !.inFlight = claimed,
          !.done = done,
          !.claimedAt = IF claimed # <<>> THEN clock.claims + 1 ELSE 0,
          !.status = status]

Queued(q) == ToSet(q.pending) \cup ToSet(q.inFlight)

\* What is left to interpret, claimed items first and each once.
Todo(q) ==
    LET left == q.inFlight \o Without(q.pending, q.done)
    IN Select[<<left, {n \in DOMAIN left : \A m \in 1 .. n - 1 : left[m] # left[n]}>>]

\* Every waiting item is given up, for the reason the status says.
GiveUp(q, status) == Progress(q, <<>>, Queued(q), status)

-------------------------------------------------------------------------------
(* The budget *)

Larger(a, b) == IF a >= b THEN a ELSE b

\* Mutant: a tick that dies without settling gives its reservation back.
RemainingRefunded == Larger(0, MaxCalls - budget.settled)

\* Calls the job may still reserve.
Remaining == Larger(0, MaxCalls - Larger(Cardinality(budget.reserved), budget.settled))

\* A queue may besides call what it has reserved already.
RemainingFor(q) ==
    LET waiting == q.inFlight \o q.pending
    IN Remaining + Cardinality({n \in DOMAIN waiting : waiting[n] \in budget.reserved})

\* The items a tick claims: as many of the next ones as batch and budget allow.
Batch(q) ==
    LET todo == Todo(q)
    IN [n \in {k \in 1 .. BatchSize : k <= Len(todo) /\ k <= RemainingFor(q)} |-> todo[n]]

Reservable(items) == Cardinality(ToSet(items) \ budget.reserved) <= Remaining

-------------------------------------------------------------------------------
(* Callbacks and commands *)

Ended == {"completed", "cancelled", "failed"}

Init ==
    /\ run = [status |-> "running", provider |-> FALSE, finished |-> {}]
    /\ queue = [s \in Sources |-> NoQueue]
    /\ budget = [reserved |-> {}, settled |-> 0, receipt |-> TRUE]
    /\ worker = [w \in Workers |-> IdleWorker]
    /\ clock = [claims |-> 0, stale |-> 0]
    /\ candidates = {}
    /\ reported = {}
    /\ reports = 0
    /\ faults = 0

\* An observations event of source s, with the observations from first to last
\* that need a model call; with none of them, if first exceeds last.
Report(s, first, last) ==
    /\ run.status = "running"
    /\ reports < MaxReports
    /\ reports' = reports + 1
    /\ run' = [run EXCEPT !.finished = @ \ {s}]
    /\ LET incoming == [n \in 1 .. last - first + 1 |-> <<s, first + n - 1>>]
       IN /\ queue' = [queue EXCEPT ![s] = Merge(queue[s], incoming)]
          /\ reported' = reported \cup ToSet(incoming)
    /\ UNCHANGED <<budget, worker, clock, candidates, faults>>

Reporting(s) == IF queue[s].status = "absent" THEN [NoQueue EXCEPT !.status = "unqueued"]
                                               ELSE queue[s]

\* A checkpoint event of source s: it is no longer finished.
Checkpoint(s) ==
    /\ run.status = "running"
    /\ reports < MaxReports
    /\ reports' = reports + 1
    /\ run' = [run EXCEPT !.finished = @ \ {s}]
    /\ queue' = [queue EXCEPT ![s] = Reporting(s)]
    /\ UNCHANGED <<budget, worker, clock, candidates, reported, faults>>

\* The completion event of source s.  The last one is the provider's end, which
\* ends the run unless a queue is open.
Complete(s) ==
    /\ run.status = "running"
    /\ LET finished == run.finished \cup {s}
           last == finished = Sources
       IN /\ run' = [status |-> IF last /\ ~ \E t \in Sources : Open(queue[t])
                                THEN "completed" ELSE "running",
                     provider |-> run.provider \/ last,
                     finished |-> finished]
          /\ queue' = [queue EXCEPT ![s] = Reporting(s)]
    /\ UNCHANGED <<budget, worker, clock, candidates, reported, reports, faults>>

\* An operator cancels the run, or pauses its programme.
Cancel ==
    /\ run.status = "running"
    /\ run' = [run EXCEPT !.status = "cancel_requested"]
    /\ UNCHANGED <<queue, budget, worker, clock, candidates, reported, reports, faults>>

\* The hard deadline passes, or the collector acknowledges a cancel request.
EndElsewhere ==
    /\ \/ /\ run.status \in {"running", "cancel_requested"}
          /\ run' = [run EXCEPT !.status = "failed"]
       \/ /\ run.status = "cancel_requested"
          /\ run' = [run EXCEPT !.status = "cancelled"]
    /\ UNCHANGED <<queue, budget, worker, clock, candidates, reported, reports, faults>>

\* DISCOVERY_INTERPRETATION_CLAIM_MS pass for the oldest claims.
ClaimsLapse ==
    /\ clock.stale < clock.claims
    /\ clock' = [clock EXCEPT !.stale = @ + 1]
    /\ UNCHANGED <<run, queue, budget, worker, candidates, reported, reports, faults>>

-------------------------------------------------------------------------------
(* First transaction of a tick: plan, and reserve *)

\* Mutant: a job without its receipt is not listed, also when it is cancelled.
ListedWithReceipt(s) ==
    /\ budget.receipt
    /\ run.status \in {"running", "cancel_requested"}
    /\ queue[s].status \notin FinalStatuses
    /\ Queued(queue[s]) # {}

\* Mutant: the cron leaves a claimed queue to the tick that claimed it.
ListedUnlessClaimed(s) ==
    /\ run.status = "running"
    /\ budget.receipt
    /\ queue[s].status \in {"pending", "ceiling"}
    /\ Queued(queue[s]) # {}

\* The sources listPendingDiscoveryInterpretationJobs returns to the cron.
Listed(s) ==
    \/ /\ run.status = "running"
       /\ budget.receipt
       /\ queue[s].status \in {"pending", "continuing", "ceiling"}
       /\ Queued(queue[s]) # {}
    \/ /\ run.status = "cancel_requested"
       /\ LET known == {t \in Sources : queue[t].status # "absent"}
              unfinished == {t \in known : queue[t].status \notin FinalStatuses}
              selectable == IF unfinished # {} THEN unfinished ELSE known
          IN s \in selectable /\ \A t \in selectable : s <= t

\* Inngest holds an event for every source that ever queued an observation: sent
\* by the callback or by an earlier tick, delayed, or retried.
Due(w, s) == IF w = "cron" THEN Listed(s) ELSE queue[s].status \notin {"absent", "unqueued"}

Busy(q) == q.inFlight # <<>> /\ q.status = "continuing"

\* planDiscoveryInterpretationTick
Plan(s, available) ==
    LET q == Loaded(s)
    IN IF run.status = "cancel_requested" THEN "cancel"
       ELSE IF ~ available THEN "unavailable"
       ELSE IF Busy(q) THEN (IF q.claimedAt > clock.stale THEN "busy" ELSE "uncertain")
       ELSE IF RemainingFor(q) = 0 THEN "ceiling"
       ELSE IF Todo(q) = <<>> THEN "done"
       ELSE "claim"

Starts(w, s) ==
    /\ worker[w].phase = "idle"
    /\ run.status \in {"running", "cancel_requested"}
    /\ Due(w, s)
    /\ budget.receipt \/ run.status = "cancel_requested"

\* The queue a tick without a model call will write.
Settling(w, s, q) ==
    worker' = [worker EXCEPT ![w] = [IdleWorker EXCEPT !.phase = "settling",
                                                       !.source = s, !.queue = q]]

\* Nothing to call: the queue is cancelled, given up, at the ceiling or done, or
\* another tick has it.  Nothing is stored yet.
TickWithoutCalls(w, s, available) ==
    /\ Starts(w, s)
    /\ LET q == Loaded(s)
           plan == Plan(s, available)
       IN /\ plan \in {"cancel", "unavailable", "busy", "ceiling", "done"}
          /\ Settling(w, s, CASE plan = "cancel" -> GiveUp(q, "cancelled")
                              [] plan = "unavailable" -> GiveUp(q, "unavailable")
                              [] plan = "busy" -> q
                              [] plan = "ceiling" -> Progress(q, <<>>, {}, "ceiling")
                              [] plan = "done" -> Progress(q, <<>>, {}, "completed"))
    /\ UNCHANGED <<run, queue, budget, clock, candidates, reported, reports, faults>>

\* A stale claim: the outcome of its calls is unknown and they are not repeated.
TickUncertain(w, s, available) ==
    /\ Starts(w, s)
    /\ Plan(s, available) = "uncertain"
    /\ LET q == Loaded(s)
           left == ToSet(q.pending) \ ToSet(q.inFlight)
           next == Progress(q, <<>>, ToSet(q.inFlight),
                            IF left # {} THEN "pending" ELSE "unavailable")
       IN /\ queue' = [queue EXCEPT ![s] = next]
          /\ Settling(w, s, next)
    /\ UNCHANGED <<run, budget, clock, candidates, reported, reports, faults>>

\* The items of the batch are claimed and their calls reserved.  If they cannot
\* be reserved nothing is stored, but the tick plans again and calls all the same.
TickClaims(w, s, available) ==
    /\ Starts(w, s)
    /\ Plan(s, available) = "claim"
    /\ LET q == Loaded(s)
           items == Batch(q)
           claimed == Progress(q, items, {}, "continuing")
       IN /\ worker' = [worker EXCEPT ![w] = [IdleWorker EXCEPT
                          !.phase = "calling", !.source = s, !.queue = claimed, !.todo = items]]
          /\ IF Reservable(items)
             THEN /\ budget' = [budget EXCEPT !.reserved = @ \cup ToSet(items)]
                  /\ queue' = [queue EXCEPT ![s] = claimed]
                  /\ clock' = [clock EXCEPT !.claims = @ + 1]
             ELSE UNCHANGED <<budget, queue, clock>>
    /\ UNCHANGED <<run, candidates, reported, reports, faults>>

-------------------------------------------------------------------------------
(* The model calls *)

\* One call: it grounds a company, or not, or its cost receipt cannot be stored.
CallModel(w, outcome) ==
    /\ worker[w].phase = "calling"
    /\ worker[w].todo # <<>>
    /\ ~ worker[w].noReceipt
    /\ LET t == worker[w]
           i == Head(t.todo)
       IN worker' = [worker EXCEPT ![w] = [t EXCEPT
                        !.todo = Tail(t.todo),
                        !.results = t.results \cup {i},
                        !.resolved = t.resolved \cup (IF outcome = "grounded" THEN {i} ELSE {}),
                        !.noReceipt = outcome = "no receipt"]]
    /\ UNCHANGED <<run, queue, budget, clock, candidates, reported, reports, faults>>

\* A tick dies with its calls: its second transaction never comes.
TickDies(w) ==
    /\ worker[w].phase # "idle"
    /\ faults < MaxFaults
    /\ faults' = faults + 1
    /\ worker' = [worker EXCEPT ![w] = IdleWorker]
    /\ UNCHANGED <<run, queue, budget, clock, candidates, reported, reports>>

-------------------------------------------------------------------------------
(* Second transaction of a tick *)

\* The queue after the calls.  Items the tick had no time for, or did not attempt
\* after a lost receipt, go back to the end.
Outcome(t) ==
    IF t.phase = "settling" THEN t.queue
    ELSE IF t.todo = <<>> /\ ~ t.noReceipt
    THEN Progress(t.queue, <<>>, t.results,
                  IF t.queue.pending # <<>> THEN "pending" ELSE "completed")
    ELSE [Progress(t.queue, <<>>, t.results, IF t.noReceipt THEN "unavailable" ELSE "pending")
             EXCEPT !.pending = @ \o t.todo]

\* Mutant: calls are refunded.
SettledCallsRefunded(t) == budget.settled - Cardinality(t.results)

SettledCalls(t) == budget.settled + Cardinality(t.results)

\* Mutant: every resolved observation is submitted, whatever became of the run.
SubmittedAnyway(t) == t.resolved

Submitted(t) == IF run.status = "running" THEN t.resolved ELSE {}

\* Mutant: the tick writes back the budget as it loaded it.
ReceiptAsLoaded(t) == run.status = "cancel_requested" \/ ~ t.noReceipt

Receipt(t) == budget.receipt /\ (run.status = "cancel_requested" \/ ~ t.noReceipt)

\* Mutant: the run ends with the queue of the tick, whatever the other sources do.
EndsAlone(next, t) ==
    /\ next[t.source].status \in FinalStatuses
    /\ run.status = "running" => run.provider /\ Receipt(t)

\* Mutant: the last tick ends the run, also before the provider has ended.
EndsEarly(next, t) ==
    /\ next[t.source].status \in FinalStatuses
    /\ \A s \in Sources : ~ Open(next[s])
    /\ run.status = "running" => Receipt(t)

Ends(next, t) ==
    /\ next[t.source].status \in FinalStatuses
    /\ \A s \in Sources : ~ Open(next[s])
    /\ run.status = "running" => run.provider /\ Receipt(t)

\* The queue the tick loaded takes the place of the stored one.  The calls end
\* early when the tick's time is used up, at the earliest after the first.
TickSettles(w) ==
    LET t == worker[w]
        cancelled == run.status = "cancel_requested"
        q == IF cancelled THEN GiveUp(Outcome(t), "cancelled") ELSE Outcome(t)
        next == [queue EXCEPT ![t.source] = q]
    IN /\ t.phase # "idle"
       /\ t.phase = "calling" => t.todo = <<>> \/ t.results # {}
       /\ worker' = [worker EXCEPT ![w] = IdleWorker]
       /\ IF run.status \in {"running", "cancel_requested"}
          THEN /\ queue' = next
               /\ budget' = [budget EXCEPT !.settled = SettledCalls(t), !.receipt = Receipt(t)]
               /\ candidates' = candidates \cup Submitted(t)
               /\ run' = IF Ends(next, t)
                         THEN [run EXCEPT !.status = IF cancelled THEN "cancelled" ELSE "completed"]
                         ELSE run
          ELSE UNCHANGED <<queue, budget, candidates, run>>
       /\ UNCHANGED <<clock, reported, reports, faults>>

-------------------------------------------------------------------------------

Callback ==
    \E s \in Sources :
        \/ \E first \in 1 .. ItemsPerSource, last \in 0 .. ItemsPerSource : Report(s, first, last)
        \/ Checkpoint(s)
        \/ Complete(s)

Start(w, s) ==
    \E available \in ProviderStates :
        \/ TickWithoutCalls(w, s, available)
        \/ TickUncertain(w, s, available)
        \/ TickClaims(w, s, available)

Call(w) == \E outcome \in {"grounded", "rejected", "no receipt"} : CallModel(w, outcome)

Next ==
    \/ Callback
    \/ Cancel
    \/ EndElsewhere
    \/ ClaimsLapse
    \/ \E w \in Workers :
        \/ \E s \in Sources : Start(w, s)
        \/ Call(w)
        \/ TickDies(w)
        \/ TickSettles(w)

Spec == Init /\ [][Next]_vars

\* The cron comes again and again and takes the listed sources one by one; model
\* calls time out, a claim lapses, and a tick that does not die settles.  The
\* collector, operators and Inngest are under no obligation.
FairSpec ==
    /\ Spec
    /\ \A s \in Sources : SF_vars(Start("cron", s))
    /\ \A w \in Workers : WF_vars(Call(w) \/ TickSettles(w))
    /\ WF_vars(ClaimsLapse)
-------------------------------------------------------------------------------
(* Properties *)

Queues == [pending : Seq(Items), inFlight : Seq(Items), done : SUBSET Items,
           claimedAt : Nat, status : QueueStatuses]

Ticks == [phase : {"idle", "calling", "settling"}, source : Sources, queue : Queues,
          todo : Seq(Items), results : SUBSET Items, resolved : SUBSET Items,
          noReceipt : BOOLEAN]

\* Every variable has its type.
TypeOK ==
    /\ run \in [status : {"running", "cancel_requested"} \cup Ended,
                provider : BOOLEAN, finished : SUBSET Sources]
    /\ queue \in [Sources -> Queues]
    /\ budget \in [reserved : SUBSET Items, settled : Nat, receipt : BOOLEAN]
    /\ worker \in [Workers -> Ticks]
    /\ clock \in [claims : Nat, stale : Nat]
    /\ candidates \in SUBSET Items
    /\ reported \in SUBSET Items
    /\ reports \in 0 .. MaxReports
    /\ faults \in 0 .. MaxFaults

\* The reservations of all sources and ticks together stay below the ceiling of
\* the job, although every tick plans with what its own queue has reserved.
ReservationsWithinCeiling == Cardinality(budget.reserved) <= MaxCalls

\* A cost receipt that could not be stored stops the job for good: no tick of any
\* source, not even one that was under way, clears the failure or reserves more.
ReceiptLossIsFinal ==
    [][~ budget.receipt => ~ budget'.receipt /\ budget'.reserved = budget.reserved]_vars

\* No candidate is submitted once the run was asked to stop or has ended, also by
\* a tick whose calls began before.
NoCandidateAfterCancel ==
    [][run.status # "running" => candidates' = candidates]_vars

\* A run that is reported as completed has no observation waiting in the queue of
\* any source: the callback that ends it and the tick that ends it agree.
CompletedRunsAreInterpreted ==
    run.status = "completed" => \A s \in Sources : ~ Open(queue[s])

\* No observation is left pending in a queue that is completed or cancelled: nobody
\* would come back to it.  What is done may be reported again, and ticks write back
\* the queue they loaded.  Only an empty report during the calls of a claim leaves
\* that claim in a completed queue; a cancelled queue has none.
NothingPendingOnceClosed ==
    \A s \in Sources :
        /\ queue[s].status \in {"completed", "cancelled"} => queue[s].pending = <<>>
        /\ queue[s].status = "cancelled" => queue[s].inFlight = <<>>

Asked == run.status = "cancel_requested" /\ \E s \in Sources : queue[s].status # "absent"

\* A queue that has its final status and yet holds observations.
Stranded == \E s \in Sources : queue[s].status \in FinalStatuses /\ Open(queue[s])

\* Once a source reported, a cancelled run ends without the collector, the
\* deadline or Inngest, unless a queue is stranded.
CancelledRunsEnd == Asked ~> (run.status \in Ended \/ Stranded)

\* A claim is never left behind: its tick settles, or the cron finds it stale.
ClaimsAreReleased ==
    \A s \in Sources :
        Busy(queue[s]) ~> (~ Busy(queue[s]) \/ run.status # "running" \/ ~ budget.receipt)

\* docs/DISCOVERY-P1-HANDBACK.md: "Cancellation ... can finalize when all queues
\* were already terminal."
CancellationFinalizes == Asked ~> run.status \in Ended

\* docs/DISCOVERY-P1-HANDBACK.md: "Receipt persistence failure ... preserves
\* unattempted observations."
ReceiptLossPreserves ==
    run.status = "running" /\ ~ budget.receipt =>
        reported \subseteq UNION {Queued(queue[s]) \cup queue[s].done : s \in Sources}

\* The run as DiscoveryCoordinator sees it: callbacks and ticks together do to the
\* row what its callbacks and its InterpretationSettles do.
Interpreted == INSTANCE DiscoveryInterpretedRun WITH
    status <- run.status,
    open <- \E s \in Sources : Open(queue[s]),
    provider <- run.provider

ImplementsInterpretedRun == Interpreted!Spec
===============================================================================
