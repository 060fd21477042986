----------------------- MODULE GoogleChatDeliveryProofs -----------------------
(***************************************************************************)
(* Who delivers the answer to a Google Chat message and which answer it    *)
(* is, for every number of workers, attempts, deliveries and faults.       *)
(***************************************************************************)
EXTENDS GoogleChatReplyProofs

USE ReplyAssumption

Busy(w) == worker[w].pc # "idle"

-------------------------------------------------------------------------------
(* One delivery at a time *)

\* A worker that is alive has the job, alone, and the job's lock has not lapsed:
\* the guard of Tick, which stands for the platform's limit, sees to that.
DeliveryInv ==
    /\ OneDelivery
    /\ \A w \in Workers : Busy(w) =>
         job.kind = "interaction" /\ job.status = "running" /\ job.lock > 0

\* While a job is not being delivered nobody is at it.
LEMMA NobodyBusy ==
    ASSUME DeliveryInv,
           job.kind # "interaction" \/ job.status # "running" \/ ~(job.lock > 0)
    PROVE  \A w \in Workers : ~Busy(w)
BY DEF DeliveryInv

\* Requests and the assistant let the deliveries be.
LEMMA OthersLetDeliver ==
    ASSUME TypeInv, DeliveryInv,
           \/ Deliver \/ Progress \/ Queue \/ RequestDies \/ QmExpire \/ QmClaim
           \/ \E t \in Tokens : QmStep(t) \/ QmDies(t)
           \/ CronReset \/ AccessChanges \/ Tick \/ UNCHANGED vars
    PROVE  DeliveryInv'
<1> USE DEF DeliveryInv, OneDelivery, Busy
<1>1. worker' = worker
  BY DEF Deliver, Progress, Queue, RequestDies, QmExpire, QmClaim, QmStep, QmBind, QmRequest,
     QmStaff, QmRenew, QmComplete, QmDies, CronReset, AccessChanges, Tick, vars
<1>2. CASE job' = job
  BY <1>1, <1>2
<1>3. CASE Tick
  <2>1. \A w \in Workers : Busy(w) => job.lock > 1
    BY <1>3 DEF Tick
  <2>2. job' = [job EXCEPT !.lock = Less(job.lock), !.wait = Less(job.wait)]
    BY <1>3 DEF Tick
  <2>3. job'.kind = job.kind /\ job'.status = job.status /\ job'.lock = Less(job.lock)
    BY <2>2 DEF TypeInv, Types, Jobs
  <2>4. job.lock > 1 => Less(job.lock) > 0
    BY DEF Less, TypeInv, Types, Jobs
  <2> QED
    BY <1>1, <2>1, <2>3, <2>4
<1>4. CASE job' # job /\ ~Tick
  <2>1. job.status = "none" \/ job.kind = "qm" \/ job.lock = 0
    <3>1. CASE Queue
      BY <1>4, <3>1 DEF Queue
    <3>2. CASE QmExpire \/ QmClaim
      BY <3>2 DEF QmExpire, QmClaim
    <3>3. ASSUME NEW t \in Tokens, QmStep(t) PROVE job.kind = "qm"
      BY <1>4, <3>3 DEF QmStep, QmBind, QmRequest, QmStaff, QmRevoke, QmRenew,
         QmComplete, Leased, rows
    <3>4. CASE CronReset
      BY <3>4 DEF CronReset, LeaseLapsed
    <3>5. CASE \/ Deliver \/ Progress \/ RequestDies \/ AccessChanges \/ UNCHANGED vars
               \/ \E t \in Tokens : QmDies(t)
      BY <1>4, <3>5 DEF Deliver, Progress, RequestDies, QmDies, AccessChanges, vars, rows
    <3> QED
      BY <1>4, <3>1, <3>2, <3>3, <3>4, <3>5
  <2> QED
    BY <1>1, <2>1, NobodyBusy
<1> QED
  BY <1>2, <1>3, <1>4

\* A claim takes what nobody is at; a worker that goes on keeps the job, and one
\* that ends leaves nobody at it.
LEMMA WorkersDeliverAlone ==
    ASSUME TypeInv, DeliveryInv, NEW w \in Workers,
           EventClaim(w) \/ CronClaim(w) \/ Step(w) \/ StepFails(w) \/ WorkerDies(w)
    PROVE  DeliveryInv'
<1> USE DEF DeliveryInv, OneDelivery, Busy
<1>1. ASSUME Deliverable, NEW via \in {"event", "cron"}, Take(w, via) PROVE DeliveryInv'
  <2>1. \A v \in Workers : ~Busy(v)
    BY <1>1, NobodyBusy DEF Deliverable
  <2>2. job'.kind = "interaction" /\ job'.status = "running" /\ job'.lock = StaleLock
    <3>1. job' = [job EXCEPT !.status = "running", !.lock = StaleLock, !.attempts = @ + 1]
      BY <1>1 DEF Take
    <3>2. job \in Jobs /\ job.kind = "interaction"
      BY <1>1 DEF Deliverable, TypeInv, Types
    <3> QED
      BY <3>1, <3>2 DEF Jobs
  <2>3. \A v \in Workers : v # w => worker'[v] = worker[v]
    BY <1>1 DEF Take, TypeInv, Types
  <2> QED
    BY <2>1, <2>2, <2>3
<1>2. CASE EventClaim(w) \/ CronClaim(w)
  BY <1>1, <1>2 DEF EventClaim, CronClaim
<1>3. ASSUME Busy(w), job' = job, \A v \in Workers : v # w => worker'[v] = worker[v]
      PROVE  DeliveryInv'
  BY <1>3
<1>4. ASSUME Busy(w), worker' = [worker EXCEPT ![w] = IdleWorker] PROVE DeliveryInv'
  <2>1. \A v \in Workers : worker'[v].pc = "idle"
    BY <1>4 DEF IdleWorker, TypeInv, Types
  <2> QED
    BY <2>1
<1>5. CASE Finish(w) \/ Requeue(w) \/ WorkerDies(w)
  BY <1>4, <1>5 DEF Finish, Requeue, WorkerDies, Free
<1>6. CASE \/ Load(w) \/ CallModel(w) \/ Save(w) \/ Send(w) \/ Complete(w) \/ GiveUp(w)
           \/ StepFails(w)
  <2>1. Busy(w) /\ job' = job
    BY <1>6 DEF Load, CallModel, Save, Send, Complete, GiveUp, StepFails, rows
  <2>2. \A v \in Workers : v # w => worker'[v] = worker[v]
    BY <1>6 DEF Load, CallModel, Save, Send, Complete, GiveUp, StepFails, Goto, Throw,
       TypeInv, Types
  <2> QED
    BY <1>3, <2>1, <2>2
<1> QED
  BY <1>2, <1>5, <1>6 DEF Step

LEMMA DeliveryHolds == Spec => []DeliveryInv
<1>1. Init => DeliveryInv
  BY DEF Init, DeliveryInv, OneDelivery, Busy, IdleWorker
<1>2. TypeInv /\ DeliveryInv /\ [Next]_vars => DeliveryInv'
  BY OthersLetDeliver, WorkersDeliverAlone DEF Next
<1> QED
  BY <1>1, <1>2, TypesHold, PTL DEF Spec

\* Inngest and the cron never deliver one answer at the same time, with retries,
\* resets and workers that died in between.
THEOREM DeliversAlone == Spec => []OneDelivery
BY DeliveryHolds, PTL DEF DeliveryInv

-------------------------------------------------------------------------------
(* The run of the assistant *)

\* Whoever holds the lease works on the run of the row, from its claim on.
RunInv == \A t \in Tokens :
    qm[t].pc # "idle" /\ Leased(t) => job.run \in {0, qm[t].run}

\* RunIsKept: a worker whose lease lapsed cannot write its run over that of the
\* worker that took over, however often the lease changes hands.
THEOREM RunsAreKept == Spec => []RunIsKept
<1>1. Init => RunInv
  BY DEF Init, RunInv, IdleQm
<1>2. TypeInv /\ TypeInv' /\ RunInv /\ [Next]_vars => RunInv'
  <2> SUFFICES ASSUME TypeInv, TypeInv', RunInv, [Next]_vars PROVE RunInv'
    OBVIOUS
  <2> USE DEF RunInv, Leased, TypeInv, Types
  <2>0. ASSUME \A t \in Tokens : qm'[t].pc # "idle" => qm[t].pc # "idle" /\ qm'[t].run = qm[t].run,
               job'.run = job.run, job'.token = job.token,
               job'.kind = "qm" /\ job'.status = "running" /\ job'.lock > 0 =>
                 job.kind = "qm" /\ job.status = "running" /\ job.lock > 0
        PROVE  RunInv'
    BY <2>0
  <2>1. ASSUME job'.kind # "qm" \/ job'.status # "running" \/ ~(job'.lock > 0) PROVE RunInv'
    BY <2>1
  <2>2. ASSUME NEW t \in Tokens, Leave(t)
        PROVE  \A u \in Tokens : qm'[u].pc # "idle" => qm[u].pc # "idle" /\ qm'[u].run = qm[u].run
    BY <2>2 DEF Leave, IdleQm
  <2>3. ASSUME job' = job, qm' = qm PROVE RunInv'
    BY <2>3
  <2>4. ASSUME NEW t \in Tokens, Leave(t), job' = job PROVE RunInv'
    BY <2>0, <2>2, <2>4
  <2>5. CASE Deliver \/ Progress \/ RequestDies \/ AccessChanges \/ UNCHANGED vars
    BY <2>3, <2>5 DEF Deliver, Progress, RequestDies, AccessChanges, vars, rows
  <2>6. CASE Queue
    <3>1. job' = job \/ job'.status = "pending"
      BY <2>6 DEF Queue, NoJob
    <3> QED
      BY <2>1, <2>3, <2>6, <3>1 DEF Queue
  <2>7. CASE QmExpire
    BY <2>1, <2>7 DEF QmExpire, Jobs
  <2>8. CASE QmClaim
    <3> DEFINE r == IF job.run = 0 THEN job'.token ELSE job.run
    <3>1. job'.run = job.run /\ job'.token \in Tokens
      <4>1. job' = [job EXCEPT !.status = "running", !.lock = QmLease, !.attempts = @ + 1,
                               !.token = job.attempts + 1]
        BY <2>8 DEF QmClaim
      <4>2. job.attempts + 1 \in Tokens
        BY <2>8 DEF QmClaim, Tokens, Jobs
      <4> QED
        BY <4>1, <4>2 DEF Jobs
    <3>2. qm' = [qm EXCEPT ![job'.token] = [IdleQm EXCEPT !.pc = "bind", !.run = r]]
      BY <2>8 DEF QmClaim
    <3>3. qm'[job'.token].run = r
      BY <3>1, <3>2 DEF IdleQm
    <3> QED
      BY <3>1, <3>3
  <2>9. ASSUME NEW t \in Tokens, QmRevoke(t) PROVE RunInv'
    <3>1. CASE job.kind = "qm" /\ job.token = t
      BY <2>1, <2>9, <3>1 DEF QmRevoke, Jobs
    <3>2. CASE ~(job.kind = "qm" /\ job.token = t)
      BY <2>4, <2>9, <3>2 DEF QmRevoke, rows
    <3> QED
      BY <3>1, <3>2
  <2> DEFINE QmPcs == {"run", "staff", "changed", "renew", "complete"}
  <2>10. ASSUME NEW t \in Tokens, NEW pc \in QmPcs, qm[t].pc # "idle",
                qm' = [qm EXCEPT ![t].pc = pc], job' = job
         PROVE  RunInv'
    BY <2>0, <2>10 DEF QmStates
  <2>11. ASSUME NEW t \in Tokens, QmBind(t) PROVE RunInv'
    BY <2>4, <2>9, <2>10, <2>11 DEF QmBind, rows
  <2>12. ASSUME NEW t \in Tokens, QmRequest(t) \/ QmStaff(t) PROVE RunInv'
    <3>1. CASE Leave(t) /\ UNCHANGED rows
      BY <2>4, <3>1 DEF rows
    <3>2. CASE QmRevoke(t)
      BY <2>9, <3>2
    <3>3. ASSUME NEW pc \in QmPcs, qm' = [qm EXCEPT ![t].pc = pc], UNCHANGED rows
          PROVE  RunInv'
      <4>1. qm[t].pc # "idle"
        BY <2>12 DEF QmRequest, QmStaff
      <4> QED
        BY <2>10, <3>3, <4>1 DEF rows
    <3>4. CASE QmRequest(t)
      BY <3>1, <3>3, <3>4 DEF QmRequest
    <3>5. CASE QmStaff(t)
      BY <3>1, <3>2, <3>3, <3>5 DEF QmStaff
    <3> QED
      BY <2>12, <3>4, <3>5
  <2>13. ASSUME NEW t \in Tokens, QmRenew(t) PROVE RunInv'
    <3>1. CASE ~Leased(t)
      BY <2>4, <2>13, <3>1 DEF QmRenew
    <3>2. CASE Leased(t)
      <4>1. PICK run \in {job.run, qm[t].run} : job' = [job EXCEPT !.lock = QmLease, !.run = run]
        BY <2>13, <3>2 DEF QmRenew
      <4>2. job'.run = run /\ job'.token = t
        BY <3>2, <4>1 DEF Jobs
      <4>3. qm'[t].run = qm[t].run
        BY <2>13, <3>2 DEF QmRenew, QmStates
      <4>4. job.run \in {0, qm[t].run}
        BY <2>13, <3>2 DEF QmRenew
      <4> QED
        BY <4>1, <4>2, <4>3, <4>4
    <3> QED
      BY <3>1, <3>2
  <2>14. ASSUME NEW t \in Tokens, QmComplete(t) PROVE RunInv'
    <3>1. CASE job' = job
      BY <2>4, <2>14, <3>1 DEF QmComplete
    <3>2. CASE job' # job
      <4>1. job' = [NoJob EXCEPT !.status = "pending", !.kind = "interaction"]
        BY <2>14, <3>2 DEF QmComplete, rows
      <4> QED
        BY <2>1, <4>1 DEF NoJob
    <3> QED
      BY <3>1, <3>2
  <2>15. ASSUME NEW t \in Tokens, QmDies(t) PROVE RunInv'
    BY <2>4, <2>15 DEF QmDies, rows
  <2>16. CASE CronReset
    BY <2>1, <2>16 DEF CronReset, Jobs
  <2>17. ASSUME NEW w \in Workers, EventClaim(w) \/ CronClaim(w) PROVE RunInv'
    <3>1. CASE Deliverable /\ \E via \in {"event", "cron"} : Take(w, via)
      BY <2>1, <3>1 DEF Take, Deliverable, Jobs
    <3>2. CASE job' = job
      BY <2>3, <2>17, <3>2 DEF EventClaim, CronClaim
    <3> QED
      BY <2>17, <3>1, <3>2 DEF EventClaim, CronClaim
  <2>18. ASSUME NEW w \in Workers, Step(w) \/ StepFails(w) \/ WorkerDies(w) PROVE RunInv'
    <3>1. worker[w].pc # "idle" /\ qm' = qm
      BY <2>18 DEF Step, Load, CallModel, Save, Send, Complete, Finish, GiveUp, Requeue,
         StepFails, WorkerDies
    <3>2. job' = job \/ job'.kind = "interaction"
      <4>1. CASE Finish(w)
        BY <3>1, <4>1 DEF Finish, Jobs
      <4>2. CASE Requeue(w)
        BY <3>1, <4>2 DEF Requeue, Jobs
      <4> QED
        BY <2>18, <4>1, <4>2 DEF Step, Load, CallModel, Save, Send, Complete, GiveUp,
           StepFails, WorkerDies, rows
    <3> QED
      BY <2>1, <2>3, <3>1, <3>2
  <2>19. CASE Tick
    <3>1. job' = [job EXCEPT !.lock = Less(job.lock), !.wait = Less(job.wait)] /\ qm' = qm
      BY <2>19 DEF Tick
    <3>2. /\ job'.run = job.run /\ job'.token = job.token /\ job'.kind = job.kind
          /\ job'.status = job.status /\ job'.lock = Less(job.lock)
      BY <3>1 DEF Jobs
    <3>3. Less(job.lock) > 0 => job.lock > 0
      BY DEF Less, Jobs
    <3> QED
      BY <2>0, <3>1, <3>2, <3>3
  <2> QED
    BY <2>5, <2>6, <2>7, <2>8, <2>11, <2>12, <2>13, <2>14, <2>15, <2>16, <2>17, <2>18, <2>19
    DEF Next, QmStep
<1>3. RunInv => RunIsKept
  BY DEF RunInv, RunIsKept
<1> QED
  BY <1>1, <1>2, <1>3, TypesHold, PTL DEF Spec
-------------------------------------------------------------------------------
(* The answer *)

\* Whatever is being queued or has a job was received; a message has a saved
\* answer only once its job is one for the workers that deliver.
ReceivedInv ==
    /\ \A step \in RequestSteps : At(step) => receipt.status # "none"
    /\ job.status # "none" => receipt.status # "none"
    /\ job.kind # "interaction" => receipt.bridge # "ready"

\* A worker makes an answer only where none is saved, and sends the one that is.
WorkingInv == \A w \in Workers :
    /\ worker[w].pc \in {"model", "save"} => receipt.bridge # "ready"
    /\ worker[w].pc \in {"send", "complete"} /\ "late" \notin slips =>
         receipt.text = worker[w].text

\* A job that can be claimed has its payload; a worker that is about to end the
\* job has ended the message.
EndingInv ==
    /\ job.status \in {"none", "pending", "running"} => ~job.erased
    /\ \A w \in Workers :
         /\ Busy(w) => ~worker[w].erased
         /\ worker[w].pc = "finish" /\ slips = {} => receipt.status = "completed"
         /\ worker[w].pc = "requeue" /\ worker[w].attempts >= MaxAttempts /\ slips = {} =>
              receipt.status \in {"completed", "failed"}
    /\ EndedJobsAreReported

\* A worker that is about to complete the message has seen its own text at Google.
ShownInv ==
    /\ CompletedIsShown
    /\ receipt.bridge = "ready" => receipt.text # NoText
    /\ \A w \in Workers :
         /\ worker[w].pc \in {"save", "send", "complete"} => worker[w].text # NoText
         /\ worker[w].pc = "complete" => posted = worker[w].text

AnswerInv == ReceivedInv /\ WorkingInv /\ EndingInv /\ ShownInv

\* A step that changes no row, nothing at Google and no worker's answer.
LEMMA CalmStep ==
    ASSUME AnswerInv, UNCHANGED <<receipt, job, requests, worker, posted, slips>>
    PROVE  AnswerInv'
BY DEF AnswerInv, ReceivedInv, WorkingInv, EndingInv, ShownInv, EndedJobsAreReported,
   CompletedIsShown, At, Busy

LEMMA RequestsKeepAnswer ==
    ASSUME TypeInv, DeliveryInv, AnswerInv, Deliver \/ Progress \/ Queue \/ RequestDies
    PROVE  AnswerInv'
<1> USE DEF AnswerInv, ReceivedInv, WorkingInv, EndingInv, ShownInv, EndedJobsAreReported,
        CompletedIsShown, At, Busy, RequestSteps
<1>1. CASE Deliver
  <2>1. receipt' = receipt \/ (receipt.status = "none" /\ receipt' = [NoReceipt EXCEPT !.status = "processing"])
    BY <1>1 DEF Deliver
  <2>2. job' = job /\ worker' = worker /\ posted' = posted /\ slips' = slips
    BY <1>1 DEF Deliver
  <2>3. CASE receipt' = receipt
    <3>1. receipt.status # "none"
      BY <1>1, <2>3 DEF Deliver, NoReceipt
    <3> QED
      BY <2>2, <2>3, <3>1
  <2>4. CASE receipt.status = "none" /\ receipt' = [NoReceipt EXCEPT !.status = "processing"]
    <3>1. receipt'.status = "processing" /\ receipt'.bridge = "none" /\ job.status = "none"
      BY <2>4 DEF NoReceipt
    <3>2. \A w \in Workers : ~Busy(w)
      BY <3>1, NobodyBusy
    <3> QED
      BY <2>2, <3>1, <3>2
  <2> QED
    BY <2>1, <2>3, <2>4
<1>2. CASE Progress
  <2>1. /\ receipt'.status = "processing" /\ receipt'.bridge = "queued"
        /\ job' = job /\ worker' = worker /\ posted' = posted
    BY <1>2 DEF Progress
  <2>2. job.status # "none" => "late" \in slips'
    BY <1>2 DEF Progress
  <2>3. job.status = "none" => slips' = slips /\ \A w \in Workers : ~Busy(w)
    BY <1>2, NobodyBusy DEF Progress
  <2> QED
    BY <2>1, <2>2, <2>3
<1>3. CASE Queue
  <2>1. /\ receipt' = receipt /\ worker' = worker /\ posted' = posted /\ slips' = slips
        /\ receipt.status # "none"
    BY <1>3 DEF Queue
  <2>2. requests' = [requests EXCEPT !.queue = @ - 1]
    BY <1>3 DEF Queue
  <2>3. CASE job' = job
    BY <2>1, <2>3
  <2>4. CASE job.status = "none"
    <3>1. job' = [NoJob EXCEPT !.status = "pending",
                               !.kind = IF served THEN "qm" ELSE "interaction"]
      BY <1>3, <2>4 DEF Queue
    <3>2. job'.status = "pending" /\ ~job'.erased
      BY <3>1 DEF NoJob
    <3>3. job.kind # "interaction"
      BY <2>4 DEF TypeInv
    <3> QED
      BY <2>1, <3>2, <3>3
  <2> QED
    BY <1>3, <2>3, <2>4 DEF Queue
<1>4. CASE RequestDies
  <2>1. UNCHANGED <<receipt, job, worker, posted, slips>>
    BY <1>4 DEF RequestDies, rows
  <2>2. \A step \in RequestSteps : requests'[step] > 0 => requests[step] > 0
    BY <1>4 DEF RequestDies, TypeInv, Types
  <2> QED
    BY <2>1, <2>2
<1> QED
  BY <1>1, <1>2, <1>3, <1>4

\* A receipt that fails was in processing, and keeps its text.
LEMMA FailsProcessing ==
    ASSUME TypeInv, FailReceipt
    PROVE  /\ receipt'.bridge = receipt.bridge /\ receipt'.text = receipt.text
           /\ receipt'.status = IF receipt.status = "processing" THEN "failed" ELSE receipt.status
BY DEF FailReceipt, TypeInv, Types, Receipts

LEMMA AssistantKeepsAnswer ==
    ASSUME TypeInv, DeliveryInv, AnswerInv,
           QmExpire \/ QmClaim \/ \E t \in Tokens : QmStep(t) \/ QmDies(t)
    PROVE  AnswerInv'
<1> USE DEF AnswerInv, ReceivedInv, WorkingInv, EndingInv, ShownInv, EndedJobsAreReported,
        CompletedIsShown, At, Busy
<1>1. ASSUME job.kind = "qm", job.status # "none", FailReceipt,
             job' = [job EXCEPT !.status = "failed", !.lock = 0],
             UNCHANGED <<requests, worker, posted, slips>>
      PROVE  AnswerInv'
  <2>1. \A w \in Workers : ~Busy(w)
    BY <1>1, NobodyBusy
  <2>2. job'.status = "failed" /\ job'.kind = "qm"
    BY <1>1 DEF TypeInv, Types, Jobs
  <2>3. receipt'.status \in {"completed", "failed"}
    BY <1>1, FailsProcessing DEF TypeInv, Types, Receipts
  <2> QED
    BY <1>1, <2>1, <2>2, <2>3, FailsProcessing
<1>2. CASE QmExpire
  BY <1>1, <1>2 DEF QmExpire, LeaseLapsed
<1>3. CASE QmClaim
  <2>1. UNCHANGED <<receipt, requests, worker, posted, slips>>
    BY <1>3 DEF QmClaim
  <2>2. job' = [job EXCEPT !.status = "running", !.lock = QmLease, !.attempts = @ + 1,
                           !.token = job.attempts + 1]
    BY <1>3 DEF QmClaim
  <2>3. job'.status = "running" /\ job'.kind = job.kind /\ job'.erased = job.erased
    BY <2>2 DEF TypeInv, Types, Jobs
  <2>4. receipt.status # "none" /\ job.status \in {"pending", "running"}
    BY <1>3 DEF QmClaim, LeaseLapsed
  <2> QED
    BY <2>1, <2>3, <2>4
<1>4. ASSUME NEW t \in Tokens, QmRevoke(t), UNCHANGED <<requests, worker, posted, slips>>
      PROVE  AnswerInv'
  <2>1. CASE job.kind = "qm" /\ job.token = t
    <3>1. job.status # "none"
      BY <2>1 DEF TypeInv
    <3> QED
      BY <1>1, <1>4, <2>1, <3>1 DEF QmRevoke
  <2>2. CASE ~(job.kind = "qm" /\ job.token = t)
    BY <1>4, <2>2, CalmStep DEF QmRevoke, rows
  <2> QED
    BY <2>1, <2>2
<1>5. ASSUME NEW t \in Tokens, QmComplete(t) PROVE AnswerInv'
  <2>1. UNCHANGED <<requests, worker, posted, slips>>
    BY <1>5 DEF QmComplete
  <2>2. CASE Leased(t) /\ receipt.status = "processing"
    <3>1. \A w \in Workers : ~Busy(w)
      BY <2>2, NobodyBusy DEF Leased
    <3>2. job' = [NoJob EXCEPT !.status = "pending", !.kind = "interaction"]
      BY <1>5, <2>2 DEF QmComplete
    <3>3. job'.status = "pending" /\ job'.kind = "interaction" /\ ~job'.erased
      BY <3>2 DEF NoJob
    <3>4. texts' \in Nat /\ texts' # NoText
      BY <1>5, <2>2 DEF QmComplete, TypeInv, Types, NoText
    <3>5. receipt' = [receipt EXCEPT !.bridge = "ready", !.text = texts']
      BY <1>5, <2>2 DEF QmComplete
    <3>6. receipt'.status = "processing" /\ receipt'.text # NoText
      BY <2>2, <3>4, <3>5 DEF TypeInv, Types, Receipts
    <3> QED
      BY <2>1, <3>1, <3>3, <3>6
  <2>3. CASE ~(Leased(t) /\ receipt.status = "processing")
    BY <1>5, <2>1, <2>3, CalmStep DEF QmComplete, rows
  <2> QED
    BY <2>2, <2>3
<1>6. ASSUME NEW t \in Tokens, QmBind(t) \/ QmRequest(t) \/ QmStaff(t) PROVE AnswerInv'
  <2>1. UNCHANGED <<requests, worker, posted, slips>>
    BY <1>6 DEF QmBind, QmRequest, QmStaff
  <2>2. QmRevoke(t) \/ UNCHANGED rows
    BY <1>6 DEF QmBind, QmRequest, QmStaff
  <2> QED
    BY <1>4, <2>1, <2>2, CalmStep DEF rows
<1>7. ASSUME NEW t \in Tokens, QmRenew(t) PROVE AnswerInv'
  <2>1. UNCHANGED <<receipt, requests, worker, posted, slips>>
    BY <1>7 DEF QmRenew
  <2>2. job'.status = job.status /\ job'.kind = job.kind /\ job'.erased = job.erased
    BY <1>7 DEF QmRenew, TypeInv, Types, Jobs
  <2> QED
    BY <2>1, <2>2
<1>8. ASSUME NEW t \in Tokens, QmDies(t) PROVE AnswerInv'
  BY <1>8, CalmStep DEF QmDies, rows
<1> QED
  BY <1>2, <1>3, <1>5, <1>6, <1>7, <1>8 DEF QmStep
\* A claim takes the job with its payload, and a reset gives it back with it.
LEMMA ClaimsKeepAnswer ==
    ASSUME TypeInv, DeliveryInv, AnswerInv,
           CronReset \/ \E w \in Workers : EventClaim(w) \/ CronClaim(w)
    PROVE  AnswerInv'
<1> USE DEF AnswerInv, ReceivedInv, WorkingInv, EndingInv, ShownInv, EndedJobsAreReported,
        CompletedIsShown, At, Busy
<1>1. ASSUME NEW w \in Workers, NEW via \in {"event", "cron"}, Deliverable, Take(w, via),
             UNCHANGED <<receipt, requests, posted, slips>>
      PROVE  AnswerInv'
  <2>1. job' = [job EXCEPT !.status = "running", !.lock = StaleLock, !.attempts = @ + 1]
    BY <1>1 DEF Take
  <2>2. job'.status = "running" /\ job'.kind = job.kind /\ job'.erased = job.erased
    BY <2>1 DEF TypeInv, Types, Jobs
  <2>3. job.status = "pending" /\ ~job.erased
    BY <1>1 DEF Deliverable
  <2>4. /\ worker'[w].pc = "load" /\ worker'[w].erased = job.erased
        /\ \A v \in Workers : v # w => worker'[v] = worker[v]
    BY <1>1 DEF Take, IdleWorker, TypeInv, Types
  <2> QED
    BY <1>1, <2>2, <2>3, <2>4
<1>2. CASE CronReset
  <2>1. UNCHANGED <<receipt, requests, worker, posted, slips>>
    BY <1>2 DEF CronReset
  <2>2. job'.status = "pending" /\ job'.kind = job.kind /\ job'.erased = job.erased
    BY <1>2 DEF CronReset, TypeInv, Types, Jobs
  <2>3. job.status = "running"
    BY <1>2 DEF CronReset, LeaseLapsed
  <2> QED
    BY <2>1, <2>2, <2>3
<1>3. ASSUME NEW w \in Workers, EventClaim(w) PROVE AnswerInv'
  <2>1. UNCHANGED <<receipt, requests, posted, slips>>
    BY <1>3 DEF EventClaim
  <2> QED
    BY <1>1, <1>3, <2>1, CalmStep DEF EventClaim
<1>4. ASSUME NEW w \in Workers, CronClaim(w) PROVE AnswerInv'
  BY <1>1, <1>4 DEF CronClaim
<1> QED
  BY <1>2, <1>3, <1>4

\* A worker goes to one of its steps and keeps its claim.
LEMMA GoesOn ==
    ASSUME TypeInv, NEW w \in Workers, NEW pc, Goto(w, pc)
    PROVE  /\ worker'[w].pc = pc
           /\ worker'[w].attempts = worker[w].attempts
           /\ worker'[w].erased = worker[w].erased
           /\ worker'[w].text = worker[w].text
           /\ \A v \in Workers : v # w => worker'[v] = worker[v]
BY DEF Goto, TypeInv, Types, WorkerStates

\* A worker that goes on with a text differs from before in these two.
LEMMA Carries ==
    ASSUME TypeInv, NEW w \in Workers, NEW pc, NEW text,
           worker' = [worker EXCEPT ![w].pc = pc, ![w].text = text]
    PROVE  /\ worker'[w].pc = pc /\ worker'[w].text = text
           /\ worker'[w].erased = worker[w].erased
           /\ \A v \in Workers : v # w => worker'[v] = worker[v]
<1>1. worker \in [Workers -> WorkerStates]
  BY DEF TypeInv, Types
<1> DEFINE went == [worker[w] EXCEPT !.pc = pc]
<1> DEFINE row == [went EXCEPT !.text = text]
<1>2. went.pc = pc /\ went.erased = worker[w].erased /\ DOMAIN went = DOMAIN worker[w]
  BY <1>1 DEF WorkerStates
<1>3. DOMAIN worker[w] = {"pc", "via", "attempts", "erased", "text"}
  BY <1>1 DEF WorkerStates
<1> HIDE DEF went
<1>4. row.pc = pc /\ row.text = text /\ row.erased = worker[w].erased
  BY <1>2, <1>3
<1> HIDE DEF row
<1>5. worker' = [worker EXCEPT ![w] = row]
  BY DEF row, went
<1> QED
  BY <1>1, <1>4, <1>5

\* An error sends the worker to the reset of the job, or first to the report.
LEMMA Throws ==
    ASSUME TypeInv, NEW w \in Workers, Throw(w)
    PROVE  /\ worker'[w].pc = IF worker[w].attempts < MaxAttempts THEN "requeue" ELSE "giveup"
           /\ worker'[w].attempts = worker[w].attempts
           /\ worker'[w].erased = worker[w].erased
           /\ worker'[w].text = worker[w].text
           /\ \A v \in Workers : v # w => worker'[v] = worker[v]
BY GoesOn DEF Throw

\* A worker that throws, with the rows and Google as they were or with a text at
\* Google that no completed receipt contradicts.
LEMMA ThrowKeepsAnswer ==
    ASSUME TypeInv, DeliveryInv, AnswerInv, NEW w \in Workers, Busy(w), Throw(w),
           UNCHANGED <<receipt, job, requests, slips>>,
           posted' = posted \/ receipt.status # "completed" \/ posted = NoText
    PROVE  AnswerInv'
<1> USE DEF AnswerInv, ReceivedInv, WorkingInv, EndingInv, ShownInv, EndedJobsAreReported,
        CompletedIsShown, At, Busy
<1>1. \A v \in Workers : v # w => worker[v].pc = "idle" /\ worker'[v] = worker[v]
  BY Throws DEF DeliveryInv, OneDelivery
<1>2. /\ worker'[w].pc \in {"requeue", "giveup"}
      /\ worker'[w].pc = "requeue" => ~(worker'[w].attempts >= MaxAttempts)
      /\ ~worker'[w].erased
  <2>1. worker[w].attempts \in Nat
    BY DEF TypeInv, Types, WorkerStates
  <2> QED
    BY <2>1, Throws
<1>3. receipt.status = "completed" => posted' = posted
  OBVIOUS
<1> QED
  BY <1>1, <1>2, <1>3
\* A step of the worker that has the job makes, saves, sends, reports or ends.
LEMMA StepsKeepAnswer ==
    ASSUME TypeInv, DeliveryInv, AnswerInv, NEW w \in Workers,
           Step(w) \/ StepFails(w) \/ WorkerDies(w)
    PROVE  AnswerInv'
<1> USE DEF AnswerInv, ReceivedInv, WorkingInv, EndingInv, ShownInv, EndedJobsAreReported,
        CompletedIsShown, At, Busy
<1>1. Busy(w)
  BY DEF Step, Load, CallModel, Save, Send, Complete, Finish, GiveUp, Requeue, StepFails,
     WorkerDies
<1>2. /\ job.kind = "interaction" /\ job.status = "running" /\ ~job.erased
      /\ receipt.status # "none" /\ ~worker[w].erased
      /\ \A v \in Workers : v # w => worker[v].pc = "idle"
  BY <1>1 DEF DeliveryInv, OneDelivery
<1>3. CASE Load(w)
  <2>1. UNCHANGED <<receipt, job, requests, posted, slips>>
    BY <1>3 DEF Load, rows
  <2>2. CASE Throw(w)
    BY <1>1, <2>1, <2>2, ThrowKeepsAnswer
  <2>3. CASE Goto(w, "finish") /\ receipt.status = "completed"
    BY <1>2, <2>1, <2>3, GoesOn
  <2>4. CASE receipt.bridge = "ready"
             /\ worker' = [worker EXCEPT ![w].pc = "send", ![w].text = receipt.text]
    <3>1. /\ worker'[w].pc = "send" /\ worker'[w].text = receipt.text
          /\ ~worker'[w].erased
          /\ \A v \in Workers : v # w => worker'[v] = worker[v]
      <4>1. worker' = [worker EXCEPT ![w].pc = "send", ![w].text = receipt.text]
        BY <2>4
      <4>2. /\ worker'[w].pc = "send" /\ worker'[w].text = receipt.text
            /\ worker'[w].erased = worker[w].erased
            /\ \A v \in Workers : v # w => worker'[v] = worker[v]
        BY ONLY <4>1, TypeInv, w \in Workers, Carries, Zenon
      <4> QED
        BY <1>2, <4>2
    <3> QED
      BY <1>2, <2>1, <2>4, <3>1
  <2>5. CASE Goto(w, "model") /\ receipt.bridge # "ready"
    BY <1>2, <2>1, <2>5, GoesOn
  <2> QED
    BY <1>3, <2>2, <2>3, <2>4, <2>5 DEF Load
<1>4. CASE CallModel(w)
  <2>1. UNCHANGED <<receipt, job, requests, posted, slips>>
    BY <1>4 DEF CallModel, rows
  <2>2. texts' \in Nat /\ texts' # NoText
    BY <1>4 DEF CallModel, TypeInv, Types, NoText
  <2>3. /\ worker'[w].pc = "save" /\ worker'[w].text = texts' /\ ~worker'[w].erased
        /\ \A v \in Workers : v # w => worker'[v] = worker[v]
    <3>1. worker' = [worker EXCEPT ![w].pc = "save", ![w].text = texts']
      BY <1>4 DEF CallModel
    <3> QED
      <4>1. /\ worker'[w].pc = "save" /\ worker'[w].text = texts'
            /\ worker'[w].erased = worker[w].erased
            /\ \A v \in Workers : v # w => worker'[v] = worker[v]
        BY ONLY <3>1, TypeInv, w \in Workers, Carries, Zenon
      <4> QED
        BY <1>2, <4>1
  <2>4. receipt.bridge # "ready"
    BY <1>4 DEF CallModel
  <2> QED
    BY <1>2, <2>1, <2>2, <2>3, <2>4
<1>5. CASE Save(w)
  <2>1. UNCHANGED <<job, requests, posted, slips>> /\ Goto(w, "send") /\ worker[w].pc = "save"
    BY <1>5 DEF Save
  <2>2. receipt'.status = "processing" /\ receipt'.text = worker[w].text
    BY <1>5 DEF Save
  <2> QED
    BY <1>2, <2>1, <2>2, GoesOn
<1>6. CASE Send(w)
  <2>1. UNCHANGED <<receipt, job, requests, slips>> /\ worker[w].pc = "send"
    BY <1>6 DEF Send, rows
  <2>2. posted' = posted \/ posted = NoText
    BY <1>6 DEF Send
  <2>3. CASE Throw(w)
    BY <1>1, <2>1, <2>2, <2>3, ThrowKeepsAnswer
  <2>4. CASE Goto(w, "complete") /\ posted' = worker[w].text
    BY <1>2, <2>1, <2>2, <2>4, GoesOn
  <2> QED
    BY <1>6, <2>3, <2>4 DEF Send
<1>7. CASE Complete(w)
  <2>1. UNCHANGED <<job, requests, posted, slips>> /\ Goto(w, "finish") /\ worker[w].pc = "complete"
    BY <1>7 DEF Complete
  <2>2. /\ receipt'.status = "completed" /\ receipt'.bridge = "delivered"
        /\ receipt'.text = worker[w].text
    BY <1>7 DEF Complete
  <2> QED
    BY <1>2, <2>1, <2>2, GoesOn
<1>8. CASE Finish(w) \/ Requeue(w) \/ WorkerDies(w)
  <2>1. \A v \in Workers : worker'[v].pc = "idle"
    BY <1>2, <1>8 DEF Finish, Requeue, WorkerDies, Free, IdleWorker, TypeInv, Types
  <2>2. UNCHANGED <<receipt, requests, posted, slips>>
    BY <1>8 DEF Finish, Requeue, WorkerDies, rows
  <2>3. CASE WorkerDies(w)
    BY <2>1, <2>2, <2>3 DEF WorkerDies, rows
  <2>4. CASE Finish(w)
    <3>1. job' = [job EXCEPT !.status = "completed", !.lock = 0, !.erased = TRUE,
                             !.attempts = IF worker[w].via = "cron" THEN worker[w].attempts ELSE @]
      BY <1>2, <2>4 DEF Finish, MayWrite
    <3>2. job'.status = "completed" /\ job'.kind = "interaction"
      BY <1>2, <3>1 DEF TypeInv, Types, Jobs
    <3>3. worker[w].pc = "finish"
      BY <2>4 DEF Finish
    <3> QED
      BY <1>2, <2>1, <2>2, <3>2, <3>3
  <2>5. CASE Requeue(w)
    <3> DEFINE retry == worker[w].attempts < MaxAttempts
    <3>1. job' = [job EXCEPT !.status = IF retry THEN "pending" ELSE "failed",
                             !.lock = 0,
                             !.wait = IF retry /\ worker[w].via = "cron" THEN RetryDelay ELSE 0,
                             !.erased = ~retry \/ worker[w].erased]
      BY <1>2, <2>5 DEF Requeue, MayWrite
    <3>2. /\ job'.status = IF retry THEN "pending" ELSE "failed"
          /\ job'.erased = (~retry \/ worker[w].erased)
          /\ job'.kind = "interaction"
      BY <1>2, <3>1, ZenonT(60) DEF TypeInv, Types, Jobs
    <3>3. worker[w].pc = "requeue" /\ worker[w].attempts \in Nat
      BY <2>5 DEF Requeue, TypeInv, Types, WorkerStates
    <3>4. CASE retry
      BY <1>2, <2>1, <2>2, <3>2, <3>4
    <3>5. CASE ~retry
      <4>1. worker[w].attempts >= MaxAttempts
        BY <3>3, <3>5
      <4>2. slips = {} => receipt.status \in {"completed", "failed"}
        BY <3>3, <4>1
      <4> QED
        BY <1>2, <2>1, <2>2, <3>2, <3>5, <4>2
    <3> QED
      BY <3>4, <3>5
  <2> QED
    BY <1>8, <2>3, <2>4, <2>5
<1>9. CASE GiveUp(w)
  <2>1. UNCHANGED <<job, requests, posted>> /\ Goto(w, "requeue") /\ worker[w].pc = "giveup"
    BY <1>9 DEF GiveUp
  <2>2. CASE receipt' = receipt /\ slips' = slips \cup {"unreported"}
    <3>1. slips' # {} /\ ("late" \in slips => "late" \in slips')
      BY <2>2
    <3> QED
      BY <1>2, <2>1, <2>2, <3>1, GoesOn
  <2>3. CASE slips' = slips /\ receipt' = IF receipt.status = "processing" /\ ~worker[w].erased
                                          THEN [NoReceipt EXCEPT !.status = "failed"]
                                          ELSE receipt
    <3>1. CASE receipt.status = "processing"
      <4>1. receipt'.status = "failed" /\ receipt'.bridge = "none"
        BY <1>2, <2>3, <3>1 DEF NoReceipt
      <4> QED
        BY <1>2, <2>1, <2>3, <4>1, GoesOn
    <3>2. CASE receipt.status # "processing"
      <4>1. receipt' = receipt /\ receipt.status \in {"completed", "failed"}
        BY <1>2, <2>3, <3>2 DEF TypeInv, Types, Receipts
      <4> QED
        BY <1>2, <2>1, <2>3, <4>1, GoesOn
    <3> QED
      BY <3>1, <3>2
  <2> QED
    BY <1>9, <2>2, <2>3 DEF GiveUp
<1>10. CASE StepFails(w)
  <2>1. UNCHANGED <<receipt, job, requests, posted, slips>> /\ Throw(w)
    BY <1>10 DEF StepFails, rows
  <2> QED
    BY <1>1, <2>1, ThrowKeepsAnswer
<1> QED
  BY <1>3, <1>4, <1>5, <1>6, <1>7, <1>8, <1>9, <1>10 DEF Step

LEMMA RestKeepsAnswer ==
    ASSUME TypeInv, AnswerInv, AccessChanges \/ Tick \/ UNCHANGED vars
    PROVE  AnswerInv'
<1> USE DEF AnswerInv, ReceivedInv, WorkingInv, EndingInv, ShownInv, EndedJobsAreReported,
        CompletedIsShown, At, Busy
<1>1. CASE AccessChanges \/ UNCHANGED vars
  BY <1>1, CalmStep DEF AccessChanges, vars, rows
<1>2. CASE Tick
  <2>1. UNCHANGED <<receipt, requests, worker, posted, slips>>
    BY <1>2 DEF Tick
  <2>2. job' = [job EXCEPT !.lock = Less(job.lock), !.wait = Less(job.wait)]
    BY <1>2 DEF Tick
  <2>3. job'.status = job.status /\ job'.kind = job.kind /\ job'.erased = job.erased
    BY <2>2 DEF TypeInv, Types, Jobs
  <2> QED
    BY <2>1, <2>3
<1> QED
  BY <1>1, <1>2

LEMMA AnswerStep ==
    ASSUME TypeInv, DeliveryInv, AnswerInv, [Next]_vars PROVE AnswerInv'
BY RequestsKeepAnswer, AssistantKeepsAnswer, ClaimsKeepAnswer, StepsKeepAnswer, RestKeepsAnswer
DEF Next

LEMMA AnswerHolds == Spec => []AnswerInv
<1>1. Init => AnswerInv
  BY DEF Init, AnswerInv, ReceivedInv, WorkingInv, EndingInv, ShownInv, EndedJobsAreReported,
     CompletedIsShown, At, Busy, NoReceipt, NoJob, IdleWorker, NoText, RequestSteps
<1> QED
  BY <1>1, AnswerStep, TypesHold, DeliveryHolds, PTL DEF Spec

\* CompletedIsShown: what a completed receipt says was delivered is what Google
\* shows, whichever attempt of whichever worker got its text there first.
THEOREM CompletedAnswersAreShown == Spec => []CompletedIsShown
BY AnswerHolds, PTL DEF AnswerInv, ShownInv

\* EndedJobsAreReported: no job ends before its message has been answered or
\* reported as failed, but for the two slips.
THEOREM EndedJobsReport == Spec => []EndedJobsAreReported
BY AnswerHolds, PTL DEF AnswerInv, EndingInv

\* SavedAnswerIsKept: a saved answer is the one delivered unless the message is
\* given up, after however many retries, resets, deliveries and lost leases.
THEOREM SavedAnswersStay == Spec => SavedAnswerIsKept
<1>1. ASSUME TypeInv, DeliveryInv, AnswerInv, Next, receipt.bridge = "ready", "late" \notin slips'
      PROVE  receipt'.text = receipt.text \/ receipt'.status = "failed"
  <2> USE DEF AnswerInv, ReceivedInv, WorkingInv
  <2>1. receipt.status # "none"
    <3>1. job.status # "none"
      BY <1>1 DEF TypeInv
    <3> QED
      BY <1>1, <3>1
  <2>2. CASE Deliver
    BY <2>1, <2>2 DEF Deliver
  <2>3. CASE Progress
    BY <1>1, <2>3 DEF Progress, TypeInv
  <2>4. CASE Queue \/ RequestDies \/ QmClaim \/ CronReset \/ AccessChanges \/ Tick
    BY <2>4 DEF Queue, RequestDies, QmClaim, CronReset, AccessChanges, Tick, rows
  <2>5. CASE FailReceipt
    BY <1>1, <2>5, FailsProcessing
  <2>6. CASE QmExpire
    BY <2>5, <2>6 DEF QmExpire
  <2>7. ASSUME NEW t \in Tokens, QmStep(t) \/ QmDies(t)
        PROVE  receipt'.text = receipt.text \/ receipt'.status = "failed"
    <3>1. job.kind # "qm"
      BY <1>1
    <3>2. receipt' = receipt \/ FailReceipt
      BY <2>7, <3>1 DEF QmStep, QmBind, QmRequest, QmStaff, QmRevoke, QmRenew, QmComplete,
         QmDies, Leased, rows
    <3> QED
      BY <2>5, <3>2
  <2>8. ASSUME NEW w \in Workers,
               EventClaim(w) \/ CronClaim(w) \/ Step(w) \/ StepFails(w) \/ WorkerDies(w)
        PROVE  receipt'.text = receipt.text \/ receipt'.status = "failed"
    <3>1. ~Save(w)
      BY <1>1 DEF Save
    <3>2. CASE Complete(w)
      <4>1. receipt.text = worker[w].text /\ receipt'.text = worker[w].text
        BY <1>1, <3>2 DEF Complete
      <4> QED
        BY <4>1
    <3>3. CASE GiveUp(w)
      BY <3>3 DEF GiveUp, NoReceipt
    <3>4. CASE ~Save(w) /\ ~Complete(w) /\ ~GiveUp(w)
      BY <2>8, <3>4 DEF EventClaim, CronClaim, Step, Load, CallModel, Send, Finish, Requeue,
         StepFails, WorkerDies, rows
    <3> QED
      BY <3>1, <3>2, <3>3, <3>4
  <2> QED
    BY <1>1, <2>2, <2>3, <2>4, <2>6, <2>7, <2>8 DEF Next
<1>2. TypeInv /\ DeliveryInv /\ AnswerInv /\ [Next]_vars =>
        [receipt.bridge = "ready" /\ "late" \notin slips' =>
           receipt'.text = receipt.text \/ receipt'.status = "failed"]_vars
  BY <1>1
<1> QED
  BY <1>2, TypesHold, DeliveryHolds, AnswerHolds, PTL DEF Spec, SavedAnswerIsKept
=============================================================================
