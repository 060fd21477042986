--------------------------- MODULE GoogleChatReply ---------------------------
(***************************************************************************)
(* The answer to one Google Chat message.  A delivery of the message leaves *)
(* a receipt and a job.  The job is answered by the native assistant, which *)
(* claims it under a lease and hands its answer over, or directly; then it  *)
(* is delivered by the Inngest function or by the cron of generic jobs.     *)
(* Google delivers a message again, workers die, the assistant's lease      *)
(* lapses under it, and the member of staff who asked loses access.         *)
(*                                                                         *)
(* Locks and waits are the time that is left of them; Tick counts down.    *)
(***************************************************************************)
EXTENDS Integers, FiniteSets

CONSTANTS
    Workers,        \* processes that deliver answers
    MaxAttempts,    \* attempts of a job: the literal 3 of both claims
    QmLease,        \* the 2 minutes of the assistant's lease
    StaleLock,      \* the 10 minutes after which the cron resets a job
    RetryDelay,     \* the 5 minutes before the cron tries again
    EventCalls,     \* calls Inngest makes for an event: retries plus one
    MaxDeliveries,  \* bound: deliveries of the message by Google
    MaxRenewals,    \* bound: renewals of a lease
    MaxChanges,     \* bound: changes of who has access
    MaxFaults       \* bound: workers and requests that die, failed commits

ASSUME ReplyAssumption ==
    /\ IsFiniteSet(Workers)
    /\ {MaxAttempts, QmLease, StaleLock, EventCalls} \subseteq Nat \ {0}
    /\ {RetryDelay, MaxDeliveries, MaxRenewals, MaxChanges, MaxFaults} \subseteq Nat

VARIABLES
    receipt,     \* the integration_inbox row
    job,         \* the scheduled_job row
    calls,       \* calls Inngest has left for the event of the job
    requests,    \* how many calls of handleGoogleChatRequest are at each step
    worker,      \* progress of the deliveries of the answer
    qm,          \* progress of the assistant's claims, by token
    posted,      \* the text Google shows under the reply's message id, or none
    active,      \* whether who asked is active staff
    served,      \* whether the native assistant serves who asked
    texts,       \* texts made so far; a text is its number
    slips,       \* what went wrong unnoticed: see Progress and GiveUp
    used         \* how often each bounded event happened

rows == <<receipt, job>>
access == <<active, served>>
vars == <<rows, calls, requests, worker, qm, posted, access, texts, slips, used>>

-------------------------------------------------------------------------------
(* Rows *)

NoText == 0

NoReceipt == [status |-> "none", bridge |-> "none", text |-> NoText]

\* token numbers the claims of the assistant, run the claim that started the
\* recorded run; erased says that the payload is '{}'.
NoJob == [status |-> "none", kind |-> "none", attempts |-> 0, lock |-> 0, wait |-> 0,
          erased |-> FALSE, token |-> 0, run |-> 0]

IdleWorker == [pc |-> "idle", via |-> "none", attempts |-> 0, erased |-> FALSE, text |-> NoText]

IdleQm == [pc |-> "idle", run |-> 0, renewals |-> 0]

Tokens == 1 .. MaxAttempts

RequestSteps == {"progress", "queue"}

Fault == used.faults < MaxFaults /\ used' = [used EXCEPT !.faults = @ + 1]

Free(w) == worker' = [worker EXCEPT ![w] = IdleWorker]

Goto(w, pc) == worker' = [worker EXCEPT ![w].pc = pc]

Leave(t) == qm' = [qm EXCEPT ![t] = IdleQm]

-------------------------------------------------------------------------------
(* Deliveries of the message by Google *)

At(step) == requests[step] > 0

\* recordIntegrationReceipt.  A repeated delivery goes on to the queue, in case
\* the one before died on its way there.
Deliver ==
    /\ active
    /\ used.deliveries < MaxDeliveries
    /\ used' = [used EXCEPT !.deliveries = @ + 1]
    /\ \/ /\ receipt.status = "none"
          /\ receipt' = [NoReceipt EXCEPT !.status = "processing"]
          /\ requests' = [requests EXCEPT !.progress = @ + 1]
       \/ /\ receipt.status = "processing"
          /\ requests' = [requests EXCEPT !.queue = @ + 1]
          /\ UNCHANGED receipt
    /\ UNCHANGED <<job, calls, worker, qm, posted, access, texts, slips>>

\* updateIntegrationReceiptProgress by the first delivery, on no condition: it
\* slips when a repeated delivery has queued the job already.
Progress ==
    /\ At("progress")
    /\ receipt' = [status |-> "processing", bridge |-> "queued", text |-> NoText]
    /\ requests' = [progress |-> requests.progress - 1, queue |-> requests.queue + 1]
    /\ slips' = IF job.status = "none" THEN slips ELSE slips \cup {"late"}
    /\ UNCHANGED <<job, calls, worker, qm, posted, access, texts, used>>

Handling == \E w \in Workers : worker[w].via = "event"

\* dispatchGoogleChatInteraction: the event, whose id is the job's.  It may be
\* lost, by a failure that is ignored, a crash or as a repetition that Inngest
\* drops; until it is claimed it is on its way.
Dispatch ==
    \/ UNCHANGED calls
    \/ calls = 0 /\ ~Handling /\ calls' = EventCalls

\* queueGoogleChatInteraction, for the assistant when it serves who asked, and
\* the event.  The job key is the receipt's: a second insertion does nothing.
Queue ==
    /\ At("queue")
    /\ IF job.status = "none"
       THEN job' = [NoJob EXCEPT !.status = "pending",
                                 !.kind = IF served THEN "qm" ELSE "interaction"]
       ELSE UNCHANGED job
    /\ IF job'.kind = "qm" THEN UNCHANGED calls ELSE Dispatch
    /\ requests' = [requests EXCEPT !.queue = @ - 1]
    /\ UNCHANGED <<receipt, worker, qm, posted, access, texts, slips, used>>

RequestDies ==
    /\ Fault
    /\ \E step \in RequestSteps :
         At(step) /\ requests' = [requests EXCEPT ![step] = @ - 1]
    /\ UNCHANGED <<rows, calls, worker, qm, posted, access, texts, slips>>

-------------------------------------------------------------------------------
(* The native assistant: operateQmGoogleChat *)

LeaseLapsed == job.status = "running" /\ job.lock = 0

\* The row a lease names, while it lasts.
Leased(t) ==
    /\ job.kind = "qm" /\ job.status = "running" /\ job.lock > 0
    /\ job.token = t

FailReceipt == receipt' = [receipt EXCEPT !.status = IF @ = "processing" THEN "failed" ELSE @]

\* Mutant: the receipt of an exhausted job is left as it is.
SilentExpire ==
    /\ job.kind = "qm" /\ job.attempts >= MaxAttempts /\ LeaseLapsed
    /\ job' = [job EXCEPT !.status = "failed", !.lock = 0]
    /\ UNCHANGED <<receipt, calls, requests, worker, qm, posted, access, texts, slips, used>>

\* The first statement of a claim: the leases that lapsed for the last time.
QmExpire ==
    /\ job.kind = "qm" /\ job.attempts >= MaxAttempts /\ LeaseLapsed
    /\ job' = [job EXCEPT !.status = "failed", !.lock = 0]
    /\ FailReceipt
    /\ UNCHANGED <<calls, requests, worker, qm, posted, access, texts, slips, used>>

\* Mutant: the limit of the attempts is off by one.
OneClaimMore ==
    /\ job.kind = "qm" /\ job.wait = 0 /\ job.attempts <= MaxAttempts
    /\ job.status = "pending" \/ LeaseLapsed
    /\ receipt.status = "processing"
    /\ job' = [job EXCEPT !.status = "running", !.lock = QmLease, !.attempts = @ + 1,
                          !.token = job.attempts + 1]
    /\ UNCHANGED <<receipt, calls, requests, worker, qm, posted, access, texts, slips, used>>

\* The second: a due job, or one whose lease lapsed.
QmClaim ==
    /\ job.kind = "qm" /\ job.wait = 0 /\ job.attempts < MaxAttempts
    /\ job.status = "pending" \/ LeaseLapsed
    /\ receipt.status = "processing"
    /\ job' = [job EXCEPT !.status = "running", !.lock = QmLease, !.attempts = @ + 1,
                          !.token = job.attempts + 1]
    /\ qm' = [qm EXCEPT ![job'.token] =
                [IdleQm EXCEPT !.pc = "bind", !.run = IF job.run = 0 THEN job'.token ELSE job.run]]
    /\ UNCHANGED <<receipt, calls, requests, worker, posted, access, texts, slips, used>>

\* Who asked is no longer served: the job of the lease fails, lapsed or not.
QmRevoke(t) ==
    /\ IF job.kind = "qm" /\ job.token = t
       THEN job' = [job EXCEPT !.status = "failed", !.lock = 0] /\ FailReceipt
       ELSE UNCHANGED rows
    /\ Leave(t)

\* The third statement of a claim binds the actor; then the run goes on or starts.
QmBind(t) ==
    /\ qm[t].pc = "bind"
    /\ IF ~(active /\ served) THEN QmRevoke(t)
       ELSE /\ IF Leased(t) THEN qm' = [qm EXCEPT ![t].pc = "run"] ELSE Leave(t)
            /\ UNCHANGED rows
    /\ UNCHANGED <<calls, requests, worker, posted, access, texts, slips, used>>

\* A request to renew or to complete reads its row, and the run the row records.
QmRequest(t) ==
    /\ qm[t].pc = "run"
    /\ IF Leased(t) /\ receipt.status = "processing"
       THEN qm' = [qm EXCEPT ![t].pc = IF job.run \in {0, qm[t].run} THEN "staff" ELSE "changed"]
       ELSE Leave(t)
    /\ UNCHANGED <<rows, calls, requests, worker, posted, access, texts, slips, used>>

\* Then who asked is looked up, and a run other than the row's is refused.
QmStaff(t) ==
    /\ qm[t].pc \in {"staff", "changed"}
    /\ IF ~(active /\ served) THEN QmRevoke(t)
       ELSE /\ IF qm[t].pc = "changed" THEN Leave(t)
               ELSE \E action \in {"renew", "complete"} :
                      /\ action = "renew" => qm[t].renewals < MaxRenewals
                      /\ qm' = [qm EXCEPT ![t].pc = action]
            /\ UNCHANGED rows
    /\ UNCHANGED <<calls, requests, worker, posted, access, texts, slips, used>>

\* Mutant: the update does not compare the claim token.
TokenlessRenew(t) ==
    /\ qm[t].pc = "renew"
    /\ IF job.kind = "qm" /\ job.status = "running" /\ job.lock > 0
       THEN /\ \E run \in {job.run, qm[t].run} :
                 job' = [job EXCEPT !.lock = QmLease, !.run = run]
            /\ qm' = [qm EXCEPT ![t].pc = "run", ![t].renewals = @ + 1]
       ELSE Leave(t) /\ UNCHANGED job
    /\ UNCHANGED <<receipt, calls, requests, worker, posted, access, texts, slips, used>>

\* The update of a renewal, which may record the run.
QmRenew(t) ==
    /\ qm[t].pc = "renew"
    /\ IF Leased(t)
       THEN /\ \E run \in {job.run, qm[t].run} :
                 job' = [job EXCEPT !.lock = QmLease, !.run = run]
            /\ qm' = [qm EXCEPT ![t].pc = "run", ![t].renewals = @ + 1]
       ELSE Leave(t) /\ UNCHANGED job
    /\ UNCHANGED <<receipt, calls, requests, worker, posted, access, texts, slips, used>>

\* The update of a completion: the answer is saved and the job becomes one for
\* the workers that deliver, in one statement; then the event is sent.
QmComplete(t) ==
    /\ qm[t].pc = "complete"
    /\ IF Leased(t) /\ receipt.status = "processing"
       THEN /\ texts' = texts + 1
            /\ receipt' = [receipt EXCEPT !.bridge = "ready", !.text = texts']
            /\ job' = [NoJob EXCEPT !.status = "pending", !.kind = "interaction"]
            /\ Dispatch
       ELSE UNCHANGED <<rows, calls, texts>>
    /\ Leave(t)
    /\ UNCHANGED <<requests, worker, posted, access, slips, used>>

\* The assistant's process stops, or the request it made.
QmDies(t) ==
    /\ qm[t].pc # "idle"
    /\ Leave(t)
    /\ UNCHANGED <<rows, calls, requests, worker, posted, access, texts, slips, used>>

-------------------------------------------------------------------------------
(* Claiming the delivery *)

Deliverable == job.kind = "interaction" /\ job.status = "pending"

Take(w, via) ==
    /\ job' = [job EXCEPT !.status = "running", !.lock = StaleLock, !.attempts = @ + 1]
    /\ worker' = [worker EXCEPT ![w] =
                    [IdleWorker EXCEPT !.pc = "load", !.via = via, !.attempts = job'.attempts,
                                       !.erased = job.erased]]

\* Mutant: a running job is taken as well.
EventTakesRunning(w) ==
    /\ worker[w].pc = "idle"
    /\ calls > 0 /\ ~Handling
    /\ IF job.kind = "interaction" /\ job.status \in {"pending", "running"}
       THEN calls' = calls - 1 /\ Take(w, "event")
       ELSE calls' = 0 /\ UNCHANGED <<job, worker>>
    /\ UNCHANGED <<receipt, requests, qm, posted, access, texts, slips, used>>

\* runGoogleChatQueuedJob claims the row of its event, due or not; when somebody
\* else has it the call returns and the event is over.
EventClaim(w) ==
    /\ worker[w].pc = "idle"
    /\ calls > 0 /\ ~Handling
    /\ IF Deliverable
       THEN calls' = calls - 1 /\ Take(w, "event")
       ELSE calls' = 0 /\ UNCHANGED <<job, worker>>
    /\ UNCHANGED <<receipt, requests, qm, posted, access, texts, slips, used>>

\* The cron claims what is due, without regard to the attempts.
CronClaim(w) ==
    /\ worker[w].pc = "idle"
    /\ Deliverable
    /\ job.wait = 0
    /\ Take(w, "cron")
    /\ UNCHANGED <<receipt, calls, requests, qm, posted, access, texts, slips, used>>

\* Mutant: the reset leaves the jobs of Google Chat to Inngest.
ResetOthers ==
    /\ job.kind \notin {"qm", "interaction"}
    /\ LeaseLapsed
    /\ job' = [job EXCEPT !.status = "pending", !.lock = 0]
    /\ UNCHANGED <<receipt, calls, requests, worker, qm, posted, access, texts, slips, used>>

\* The cron first resets the jobs whose workers must have died.
CronReset ==
    /\ job.kind = "interaction"
    /\ LeaseLapsed
    /\ job' = [job EXCEPT !.status = "pending", !.lock = 0]
    /\ UNCHANGED <<receipt, calls, requests, worker, qm, posted, access, texts, slips, used>>

-------------------------------------------------------------------------------
(* Delivering: runGoogleChatInteractionJob and its two callers *)

\* The error of a step is handled by the caller: the last attempt gives up.
Throw(w) == Goto(w, IF worker[w].attempts < MaxAttempts THEN "requeue" ELSE "giveup")

\* Mutant: a saved answer is not used.
ForgetfulLoad(w) ==
    /\ worker[w].pc = "load"
    /\ IF worker[w].erased THEN Throw(w)
       ELSE IF receipt.status = "completed" THEN Goto(w, "finish")
       ELSE IF ~active THEN Throw(w)
       ELSE Goto(w, "model")
    /\ UNCHANGED <<rows, calls, requests, qm, posted, access, texts, slips, used>>

\* The receipt is read: it may be answered, its answer saved, or none made yet.
Load(w) ==
    /\ worker[w].pc = "load"
    /\ IF worker[w].erased THEN Throw(w)
       ELSE IF receipt.status = "completed" THEN Goto(w, "finish")
       ELSE IF ~active THEN Throw(w)
       ELSE IF receipt.bridge = "ready"
       THEN worker' = [worker EXCEPT ![w].pc = "send", ![w].text = receipt.text]
       ELSE Goto(w, "model")
    /\ UNCHANGED <<rows, calls, requests, qm, posted, access, texts, slips, used>>

\* chat.send: the model answers.
CallModel(w) ==
    /\ worker[w].pc = "model"
    /\ texts' = texts + 1
    /\ worker' = [worker EXCEPT ![w].pc = "save", ![w].text = texts']
    /\ UNCHANGED <<rows, calls, requests, qm, posted, access, slips, used>>

\* The answer is saved before it is sent, on no condition.
Save(w) ==
    /\ worker[w].pc = "save"
    /\ receipt' = [status |-> "processing", bridge |-> "ready", text |-> worker[w].text]
    /\ Goto(w, "send")
    /\ UNCHANGED <<job, calls, requests, qm, posted, access, texts, slips, used>>

\* Mutant: what Google already shows under the message id is not compared.
UnverifiedSend(w) ==
    /\ worker[w].pc = "send"
    /\ active
    /\ posted' = IF posted = NoText THEN worker[w].text ELSE posted
    /\ Goto(w, "complete")
    /\ UNCHANGED <<rows, calls, requests, qm, access, texts, slips, used>>

\* sendGoogleChatReply.  The message id is the receipt's, so that Google keeps
\* the first text it got; the answer counts once it was read back.
Send(w) ==
    /\ worker[w].pc = "send"
    /\ IF ~active THEN Throw(w) /\ UNCHANGED posted
       ELSE \E reached, read \in BOOLEAN :
              /\ posted' = IF reached /\ posted = NoText THEN worker[w].text ELSE posted
              /\ IF read /\ posted' = worker[w].text THEN Goto(w, "complete") ELSE Throw(w)
    /\ UNCHANGED <<rows, calls, requests, qm, access, texts, slips, used>>

\* completeIntegrationReceipt, on no condition.
Complete(w) ==
    /\ worker[w].pc = "complete"
    /\ receipt' = [status |-> "completed", bridge |-> "delivered", text |-> worker[w].text]
    /\ Goto(w, "finish")
    /\ UNCHANGED <<job, calls, requests, qm, posted, access, texts, slips, used>>

\* The event's worker writes to a running row only, the cron's to any.
MayWrite(w) == worker[w].via = "event" => job.status = "running"

Finish(w) ==
    /\ worker[w].pc = "finish"
    /\ job' = IF MayWrite(w)
              THEN [job EXCEPT !.status = "completed", !.lock = 0, !.erased = TRUE,
                               !.attempts = IF worker[w].via = "cron" THEN worker[w].attempts ELSE @]
              ELSE job
    /\ calls' = IF worker[w].via = "event" THEN 0 ELSE calls
    /\ Free(w)
    /\ UNCHANGED <<receipt, requests, qm, posted, access, texts, slips, used>>

\* The model, the database or Google fails.
StepFails(w) ==
    /\ worker[w].pc \in {"load", "model", "save", "complete", "finish"}
    /\ worker[w].pc # "model" => Fault
    /\ worker[w].pc = "model" => UNCHANGED used
    /\ Throw(w)
    /\ UNCHANGED <<rows, calls, requests, qm, posted, access, texts, slips>>

\* failGoogleChatInteractionJob: the result of the receipt is replaced by none.
\* The cron goes on when this fails, and the receipt waits for nobody.
GiveUp(w) ==
    /\ worker[w].pc = "giveup"
    /\ \/ /\ receipt' = IF receipt.status = "processing" /\ ~worker[w].erased
                        THEN [NoReceipt EXCEPT !.status = "failed"]
                        ELSE receipt
          /\ UNCHANGED <<slips, used>>
       \/ /\ worker[w].via = "cron"
          /\ Fault
          /\ slips' = slips \cup {"unreported"}
          /\ UNCHANGED receipt
    /\ Goto(w, "requeue")
    /\ UNCHANGED <<job, calls, requests, qm, posted, access, texts>>

\* The job waits for the next attempt, with the payload the worker claimed, or
\* has failed.  A call that will be repeated throws, and Inngest repeats it.
Requeue(w) ==
    LET retry == worker[w].attempts < MaxAttempts IN
    /\ worker[w].pc = "requeue"
    /\ job' = IF MayWrite(w)
              THEN [job EXCEPT !.status = IF retry THEN "pending" ELSE "failed",
                               !.lock = 0,
                               !.wait = IF retry /\ worker[w].via = "cron" THEN RetryDelay ELSE 0,
                               !.erased = ~retry \/ worker[w].erased]
              ELSE job
    /\ calls' = IF worker[w].via = "event" /\ ~retry THEN 0 ELSE calls
    /\ Free(w)
    /\ UNCHANGED <<receipt, requests, qm, posted, access, texts, slips, used>>

WorkerDies(w) ==
    /\ worker[w].pc # "idle"
    /\ Fault
    /\ Free(w)
    /\ UNCHANGED <<rows, calls, requests, qm, posted, access, texts, slips>>

-------------------------------------------------------------------------------
(* Staff and time *)

\* Who asked loses or regains access; the assistant's list of staff changes.
AccessChanges ==
    /\ used.changes < MaxChanges
    /\ used' = [used EXCEPT !.changes = @ + 1]
    /\ \/ active' = ~active /\ UNCHANGED served
       \/ served' = ~served /\ UNCHANGED active
    /\ UNCHANGED <<rows, calls, requests, worker, qm, posted, texts, slips>>

Less(t) == IF t = 0 THEN 0 ELSE t - 1

\* Assumed: the platform ends a worker before its lock of ten minutes lapses.  The
\* cron's route declares a maxDuration of five; Inngest's declares none, so that the
\* platform's default holds.  Nothing ends the assistant when its lease does.
Tick ==
    /\ job.lock > 0 \/ job.wait > 0
    /\ \A w \in Workers : worker[w].pc # "idle" => job.lock > 1
    /\ job' = [job EXCEPT !.lock = Less(@), !.wait = Less(@)]
    /\ UNCHANGED <<receipt, calls, requests, worker, qm, posted, access, texts, slips, used>>

-------------------------------------------------------------------------------
(* Specification *)

Init ==
    /\ receipt = NoReceipt
    /\ job = NoJob
    /\ calls = 0
    /\ requests = [step \in RequestSteps |-> 0]
    /\ worker = [w \in Workers |-> IdleWorker]
    /\ qm = [t \in Tokens |-> IdleQm]
    /\ posted = NoText
    /\ active = TRUE
    /\ served \in BOOLEAN
    /\ texts = 0
    /\ slips = {}
    /\ used = [deliveries |-> 0, changes |-> 0, faults |-> 0]

QmStep(t) == QmBind(t) \/ QmRequest(t) \/ QmStaff(t) \/ QmRenew(t) \/ QmComplete(t)

Step(w) ==
    \/ Load(w) \/ CallModel(w) \/ Save(w) \/ Send(w) \/ Complete(w) \/ Finish(w)
    \/ GiveUp(w) \/ Requeue(w)

Next ==
    \/ Deliver \/ Progress \/ Queue \/ RequestDies
    \/ QmExpire \/ QmClaim
    \/ \E t \in Tokens : QmStep(t) \/ QmDies(t)
    \/ CronReset
    \/ \E w \in Workers :
         EventClaim(w) \/ CronClaim(w) \/ Step(w) \/ StepFails(w) \/ WorkerDies(w)
    \/ AccessChanges
    \/ Tick

Spec == Init /\ [][Next]_vars

\* The cron comes again, the assistant polls for jobs, a worker that did not die
\* goes on, and time passes.  Nothing is assumed of Google or Inngest, and of the
\* assistant only that it renews a lease so often.
FairSpec ==
    /\ Spec
    /\ WF_vars(Tick)
    /\ WF_vars(CronReset)
    /\ WF_vars(\E w \in Workers : CronClaim(w))
    /\ \A w \in Workers : WF_vars(Step(w))
    /\ \A t \in Tokens : WF_vars(QmStep(t) \/ QmDies(t))
    /\ WF_vars(QmExpire)
    /\ WF_vars(QmClaim)

-------------------------------------------------------------------------------
(* Properties *)

Pcs == {"idle", "load", "model", "save", "send", "complete", "finish", "giveup", "requeue"}

\* Every row has the columns the schema gives it; the assistant claims a job no
\* more often than its attempts allow.
TypeOK ==
    /\ receipt \in [status : {"none", "processing", "completed", "failed"},
                    bridge : {"none", "queued", "ready", "delivered"}, text : Nat]
    /\ job \in [status : {"none", "pending", "running", "completed", "failed"},
                kind : {"none", "qm", "interaction"}, attempts : Nat,
                lock : 0 .. QmLease + StaleLock, wait : 0 .. RetryDelay, erased : BOOLEAN,
                token : 0 .. MaxAttempts, run : 0 .. MaxAttempts]
    /\ job.kind = "qm" => job.attempts <= MaxAttempts
    /\ calls \in 0 .. EventCalls
    /\ requests \in [RequestSteps -> Nat]
    /\ worker \in [Workers -> [pc : Pcs, via : {"none", "event", "cron"}, attempts : Nat,
                               erased : BOOLEAN, text : Nat]]
    /\ qm \in [Tokens -> [pc : {"idle", "bind", "run", "staff", "changed", "renew", "complete"},
                          run : 0 .. MaxAttempts, renewals : 0 .. MaxRenewals]]
    /\ {posted, texts} \subseteq Nat
    /\ {active, served} \subseteq BOOLEAN
    /\ slips \subseteq {"late", "unreported"}
    /\ used \in [deliveries : Nat, changes : Nat, faults : Nat]

\* Inngest and the cron never deliver one answer at the same time, with retries,
\* resets and workers that died in between.
OneDelivery == \A w, v \in Workers :
    worker[w].pc # "idle" /\ worker[v].pc # "idle" => w = v

\* What a completed receipt says was delivered is what Google shows, whichever
\* attempt, of whichever worker, got its text to Google first.
CompletedIsShown == receipt.status = "completed" => posted # NoText /\ posted = receipt.text

\* A job does not end before its message has been answered or reported as failed,
\* but for the two slips.
EndedJobsAreReported ==
    /\ job.status = "completed" /\ slips = {} => receipt.status = "completed"
    /\ job.status = "failed" /\ slips = {} => receipt.status \in {"completed", "failed"}

\* The run of the holder of the lease is the one the row records: a worker whose
\* lease lapsed cannot write its run over that of the worker that took over.
RunIsKept == \A t \in Tokens :
    qm[t].pc \in {"run", "staff", "renew", "complete"} /\ Leased(t) =>
        job.run \in {0, qm[t].run}

\* A saved answer is the one delivered unless the message is given up: no retry
\* makes another, whether the assistant saved it or a worker that died.
SavedAnswerIsKept ==
    [][receipt.bridge = "ready" /\ "late" \notin slips' =>
         receipt'.text = receipt.text \/ receipt'.status = "failed"]_vars

\* Every job ends, answered or failed, whatever died on the way.
JobsEnd == job.status # "none" ~> job.status \in {"completed", "failed"}
=============================================================================
