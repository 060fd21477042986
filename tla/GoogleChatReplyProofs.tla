------------------------ MODULE GoogleChatReplyProofs ------------------------
(***************************************************************************)
(* What holds of the answer to a Google Chat message for every number of   *)
(* workers, attempts, calls of the event, deliveries, renewals and faults. *)
(***************************************************************************)
EXTENDS GoogleChatReply, TLAPS

Receipts == [status : {"none", "processing", "completed", "failed"},
             bridge : {"none", "queued", "ready", "delivered"}, text : Nat]

Jobs == [status : {"none", "pending", "running", "completed", "failed"},
         kind : {"none", "qm", "interaction"}, attempts : Nat,
         lock : 0 .. QmLease + StaleLock, wait : 0 .. RetryDelay, erased : BOOLEAN,
         token : 0 .. MaxAttempts, run : 0 .. MaxAttempts]

WorkerStates == [pc : Pcs, via : {"none", "event", "cron"}, attempts : Nat,
                 erased : BOOLEAN, text : Nat]

QmStates == [pc : {"idle", "bind", "run", "staff", "changed", "renew", "complete"},
             run : 0 .. MaxAttempts, renewals : 0 .. MaxRenewals]

Used == [deliveries : Nat, changes : Nat, faults : Nat]

USE ReplyAssumption

\* The constant records are of their types.
LEMMA ConstantTypes ==
    /\ NoReceipt \in Receipts /\ NoJob \in Jobs
    /\ IdleWorker \in WorkerStates /\ IdleQm \in QmStates
BY DEF NoReceipt, NoJob, IdleWorker, IdleQm, NoText, Receipts, Jobs, WorkerStates, QmStates, Pcs

\* The waits a job is given are within its type.
LEMMA Waits ==
    /\ {0, QmLease, StaleLock} \subseteq 0 .. QmLease + StaleLock
    /\ {0, RetryDelay} \subseteq 0 .. RetryDelay
    /\ MaxAttempts \in Nat
OBVIOUS

\* A job keeps its type when a field gets a value of that field's type.
LEMMA JobWith ==
    ASSUME NEW j \in Jobs
    PROVE  /\ \A x \in {"none", "pending", "running", "completed", "failed"} :
                [j EXCEPT !.status = x] \in Jobs
           /\ \A x \in {"none", "qm", "interaction"} : [j EXCEPT !.kind = x] \in Jobs
           /\ \A x \in Nat : [j EXCEPT !.attempts = x] \in Jobs
           /\ \A x \in 0 .. QmLease + StaleLock : [j EXCEPT !.lock = x] \in Jobs
           /\ \A x \in 0 .. RetryDelay : [j EXCEPT !.wait = x] \in Jobs
           /\ \A x \in BOOLEAN : [j EXCEPT !.erased = x] \in Jobs
           /\ \A x \in 0 .. MaxAttempts : [j EXCEPT !.token = x] \in Jobs
           /\ \A x \in 0 .. MaxAttempts : [j EXCEPT !.run = x] \in Jobs
BY ZenonT(60) DEF Jobs

\* A receipt likewise.
LEMMA ReceiptWith ==
    ASSUME NEW r \in Receipts
    PROVE  /\ \A x \in {"none", "processing", "completed", "failed"} :
                [r EXCEPT !.status = x] \in Receipts
           /\ \A x \in {"none", "queued", "ready", "delivered"} :
                [r EXCEPT !.bridge = x] \in Receipts
           /\ \A x \in Nat : [r EXCEPT !.text = x] \in Receipts
BY ZenonT(60) DEF Receipts

\* A worker likewise.
LEMMA WorkerWith ==
    ASSUME NEW r \in WorkerStates
    PROVE  /\ \A x \in Pcs : [r EXCEPT !.pc = x] \in WorkerStates
           /\ \A x \in {"none", "event", "cron"} : [r EXCEPT !.via = x] \in WorkerStates
           /\ \A x \in Nat : [r EXCEPT !.attempts = x] \in WorkerStates
           /\ \A x \in BOOLEAN : [r EXCEPT !.erased = x] \in WorkerStates
           /\ \A x \in Nat : [r EXCEPT !.text = x] \in WorkerStates
BY ZenonT(60) DEF WorkerStates

\* A holder of the assistant's lease likewise.
LEMMA QmWith ==
    ASSUME NEW q \in QmStates
    PROVE  /\ \A x \in {"idle", "bind", "run", "staff", "changed", "renew", "complete"} :
                [q EXCEPT !.pc = x] \in QmStates
           /\ \A x \in 0 .. MaxAttempts : [q EXCEPT !.run = x] \in QmStates
           /\ \A x \in 0 .. MaxRenewals : [q EXCEPT !.renewals = x] \in QmStates
BY ZenonT(60) DEF QmStates

\* Workers keep their type when they go on, throw or end.
LEMMA WorkerMoves ==
    ASSUME NEW w \in Workers, worker \in [Workers -> WorkerStates]
    PROVE  /\ \A p \in Pcs : Goto(w, p) => worker' \in [Workers -> WorkerStates]
           /\ Throw(w) \/ Free(w) => worker' \in [Workers -> WorkerStates]
<1>1. ASSUME NEW p \in Pcs, Goto(w, p) PROVE worker' \in [Workers -> WorkerStates]
  <2>1. [worker[w] EXCEPT !.pc = p] \in WorkerStates
    BY WorkerWith
  <2> QED
    BY <1>1, <2>1 DEF Goto
<1>2. CASE Free(w)
  BY <1>2, ConstantTypes DEF Free
<1> QED
  BY <1>1, <1>2 DEF Throw, Pcs

\* The rows and the counters of the model are of their types.
Types ==
    /\ receipt \in Receipts
    /\ job \in Jobs
    /\ calls \in 0 .. EventCalls
    /\ requests \in [RequestSteps -> Nat]
    /\ worker \in [Workers -> WorkerStates]
    /\ qm \in [Tokens -> QmStates]
    /\ {posted, texts} \subseteq Nat
    /\ {active, served} \subseteq BOOLEAN
    /\ slips \subseteq {"late", "unreported"}
    /\ used \in Used

\* The claims of the assistant stay within the attempts, a holder that is about to
\* renew has a renewal left, and what is delivered is not the assistant's.
TypeInv ==
    /\ Types
    /\ job.status = "none" => job.kind = "none"
    /\ \A w \in Workers : worker[w].pc # "idle" => job.kind = "interaction"
    /\ job.kind = "qm" => job.attempts <= MaxAttempts
    /\ \A t \in Tokens : qm[t].pc = "renew" => qm[t].renewals < MaxRenewals

\* Deliveries by Google.
LEMMA RequestsKeepTypes ==
    ASSUME TypeInv, Deliver \/ Progress \/ Queue \/ RequestDies
    PROVE  TypeInv'
<1> USE DEF TypeInv, Types
<1>1. CASE Deliver
  <2>1. [NoReceipt EXCEPT !.status = "processing"] \in Receipts
    BY DEF NoReceipt, NoText, Receipts
  <2>2. [used EXCEPT !.deliveries = @ + 1] \in Used
    BY DEF Used
  <2>3. /\ [requests EXCEPT !.progress = @ + 1] \in [RequestSteps -> Nat]
        /\ [requests EXCEPT !.queue = @ + 1] \in [RequestSteps -> Nat]
    BY DEF RequestSteps
  <2> QED
    BY <1>1, <2>1, <2>2, <2>3 DEF Deliver, access
<1>2. CASE Progress
  <2>1. [status |-> "processing", bridge |-> "queued", text |-> NoText] \in Receipts
    BY DEF Receipts, NoText
  <2>2. [progress |-> requests.progress - 1, queue |-> requests.queue + 1]
          \in [RequestSteps -> Nat]
    BY <1>2 DEF Progress, At, RequestSteps
  <2> QED
    BY <1>2, <2>1, <2>2 DEF Progress, access
<1>3. CASE Queue
  <2>1. ASSUME NEW kind \in {"qm", "interaction"}
        PROVE  [NoJob EXCEPT !.status = "pending", !.kind = kind] \in Jobs
    <3> DEFINE j == [NoJob EXCEPT !.status = "pending"]
    <3>1. j \in Jobs
      BY ConstantTypes, JobWith
    <3> QED
      BY <3>1, JobWith
  <2>2. job' \in Jobs /\ (job'.kind = "qm" => job'.attempts <= MaxAttempts)
    <3>1. CASE job.status = "none" /\ served
      <4>1. job' = [NoJob EXCEPT !.status = "pending", !.kind = "qm"]
        BY <1>3, <3>1 DEF Queue
      <4>2. job'.attempts = 0
        BY <4>1 DEF NoJob
      <4> QED
        BY <2>1, <4>1, <4>2
    <3>2. CASE job.status = "none" /\ ~served
      BY <1>3, <2>1, <3>2 DEF Queue, NoJob
    <3>3. CASE job.status # "none"
      BY <1>3, <3>3 DEF Queue
    <3> QED
      BY <3>1, <3>2, <3>3
  <2>3. calls' \in 0 .. EventCalls
    BY <1>3 DEF Queue, Dispatch
  <2>4. [requests EXCEPT !.queue = @ - 1] \in [RequestSteps -> Nat]
    BY <1>3 DEF Queue, At, RequestSteps
  <2>5. job' = job \/ (job.status = "none" /\ job'.status = "pending")
    BY <1>3 DEF Queue, NoJob
  <2>6. UNCHANGED <<receipt, worker, qm, posted, access, texts, slips, used>>
        /\ requests' \in [RequestSteps -> Nat]
    BY <1>3, <2>4 DEF Queue
  <2>7. job'.status = "none" => job'.kind = "none"
    BY <2>5
  <2>8. \A v \in Workers : worker'[v].pc # "idle" => job'.kind = "interaction"
    BY <2>5, <2>6
  <2>9. \A u \in Tokens : qm'[u].pc = "renew" => qm'[u].renewals < MaxRenewals
    BY <2>6
  <2>10. Types'
    BY <2>2, <2>3, <2>6 DEF access
  <2> QED
    BY <2>2, <2>7, <2>8, <2>9, <2>10
<1>4. CASE RequestDies
  <2>1. requests' \in [RequestSteps -> Nat]
    BY <1>4 DEF RequestDies, At, RequestSteps
  <2>2. used' \in Used
    BY <1>4 DEF RequestDies, Fault, Used
  <2> QED
    BY <1>4, <2>1, <2>2 DEF RequestDies, access, rows
<1> QED
  BY <1>1, <1>2, <1>3, <1>4

\* A receipt in processing that fails keeps the rest of it.
LEMMA FailedReceipt ==
    ASSUME receipt \in Receipts, FailReceipt
    PROVE  receipt' \in Receipts
BY ZenonT(60) DEF FailReceipt, Receipts

\* The assistant leaves.
LEMMA LeaveKeepsTypes ==
    ASSUME NEW t \in Tokens, TypeInv, Leave(t)
    PROVE  /\ qm' \in [Tokens -> QmStates]
           /\ \A u \in Tokens : qm'[u].pc = "renew" => qm'[u].renewals < MaxRenewals
BY ConstantTypes DEF Leave, TypeInv, Types, IdleQm

\* An expired or revoked lease.
LEMMA FailedJob ==
    ASSUME job \in Jobs, job.kind = "qm" => job.attempts <= MaxAttempts,
           job' = [job EXCEPT !.status = "failed", !.lock = 0]
    PROVE  /\ job' \in Jobs /\ (job'.kind = "qm" => job'.attempts <= MaxAttempts)
           /\ job'.kind = job.kind /\ job'.status = "failed"
<1> DEFINE j == [job EXCEPT !.status = "failed"]
<1>1. j \in Jobs
  BY JobWith
<1>2. 0 \in 0 .. QmLease + StaleLock
  OBVIOUS
<1>3. job' \in Jobs
  BY <1>1, <1>2, JobWith
<1>4. job'.kind = job.kind /\ job'.attempts = job.attempts /\ job'.status = "failed"
  BY DEF Jobs
<1> QED
  BY <1>3, <1>4

LEMMA RevokeKeepsTypes ==
    ASSUME NEW t \in Tokens, TypeInv, QmRevoke(t)
    PROVE  /\ receipt' \in Receipts /\ job' \in Jobs
           /\ job'.kind = job.kind /\ job'.status \in {job.status, "failed"}
           /\ job'.kind = "qm" => job'.attempts <= MaxAttempts
           /\ qm' \in [Tokens -> QmStates]
           /\ \A u \in Tokens : qm'[u].pc = "renew" => qm'[u].renewals < MaxRenewals
<1>1. CASE job.kind = "qm" /\ job.token = t
  BY <1>1, FailedJob, FailedReceipt, LeaveKeepsTypes DEF QmRevoke, TypeInv, Types
<1>2. CASE ~(job.kind = "qm" /\ job.token = t)
  BY <1>2, LeaveKeepsTypes DEF QmRevoke, TypeInv, Types, rows
<1> QED
  BY <1>1, <1>2

\* The native assistant.
LEMMA AssistantKeepsTypes ==
    ASSUME TypeInv,
           QmExpire \/ QmClaim \/ \E t \in Tokens : QmStep(t) \/ QmDies(t)
    PROVE  TypeInv'
<1> USE DEF TypeInv, Types
<1>1. CASE QmExpire
  BY <1>1, FailedJob, FailedReceipt DEF QmExpire, access
<1>2. CASE QmClaim
  <2>1. job.attempts + 1 \in Tokens
    BY SMTT(30), <1>2 DEF QmClaim, Tokens, Jobs
  <2>2. job' \in Jobs /\ job'.attempts <= MaxAttempts /\ job'.token = job.attempts + 1
    <3> DEFINE j1 == [job EXCEPT !.status = "running"]
               j2 == [j1 EXCEPT !.lock = QmLease]
               j3 == [j2 EXCEPT !.attempts = job.attempts + 1]
               j4 == [j3 EXCEPT !.token = job.attempts + 1]
    <3>0. job.attempts + 1 \in Nat /\ job.attempts + 1 \in 0 .. MaxAttempts
      BY <2>1 DEF Tokens
    <3>1. j1 \in Jobs
      BY JobWith
    <3>2. j2 \in Jobs
      BY <3>1, JobWith, Waits
    <3>3. j3 \in Jobs
      BY <3>0, <3>2, JobWith
    <3>4. j4 \in Jobs
      BY <3>0, <3>3, JobWith
    <3>5. job' = j4
      BY <1>2 DEF QmClaim, Jobs
    <3>6. j4.attempts = job.attempts + 1 /\ j4.token = job.attempts + 1
      BY DEF Jobs
    <3> QED
      BY <2>1, <3>4, <3>5, <3>6 DEF Tokens
  <2> DEFINE r == IF job.run = 0 THEN job'.token ELSE job.run
             q == [IdleQm EXCEPT !.pc = "bind", !.run = r]
  <2>3. q \in QmStates /\ q.pc = "bind"
    <3>1. r \in 0 .. MaxAttempts
      BY <2>1, <2>2 DEF Jobs, Tokens
    <3>2. [IdleQm EXCEPT !.pc = "bind"] \in QmStates
      BY ConstantTypes, QmWith
    <3> QED
      BY <3>1, <3>2, QmWith DEF IdleQm
  <2>4. qm' = [qm EXCEPT ![job.attempts + 1] = q]
    BY <1>2, <2>2 DEF QmClaim
  <2> QED
    BY <1>2, <2>1, <2>2, <2>3, <2>4 DEF QmClaim, access
<1>3. ASSUME NEW t \in Tokens, QmBind(t) PROVE TypeInv'
  <2>1. CASE ~(active /\ served)
    BY <1>3, <2>1, RevokeKeepsTypes DEF QmBind, access
  <2>2. CASE active /\ served /\ Leased(t)
    <3>1. qm' = [qm EXCEPT ![t].pc = "run"]
      BY <1>3, <2>2 DEF QmBind
    <3>2. [qm[t] EXCEPT !.pc = "run"] \in QmStates
      BY QmWith
    <3> QED
      BY <1>3, <2>2, <3>1, <3>2 DEF QmBind, access, rows, QmStates
  <2>3. CASE active /\ served /\ ~Leased(t)
    BY <1>3, <2>3, LeaveKeepsTypes DEF QmBind, access, rows
  <2> QED
    BY <2>1, <2>2, <2>3
<1>4. ASSUME NEW t \in Tokens, QmRequest(t) \/ QmStaff(t) PROVE TypeInv'
  <2>0. UNCHANGED <<calls, requests, worker, posted, access, texts, slips, used>>
    BY <1>4 DEF QmRequest, QmStaff
  <2>1. CASE Leave(t) /\ UNCHANGED rows
    BY <2>0, <2>1, LeaveKeepsTypes DEF access, rows
  <2>2. CASE QmRevoke(t)
    BY <2>0, <2>2, RevokeKeepsTypes DEF access
  <2>3. ASSUME NEW pc \in {"staff", "changed", "renew", "complete"},
               pc = "renew" => qm[t].renewals < MaxRenewals,
               qm' = [qm EXCEPT ![t].pc = pc], UNCHANGED rows
        PROVE  TypeInv'
    <3>1. [qm[t] EXCEPT !.pc = pc] \in QmStates
      BY QmWith
    <3> QED
      BY <2>0, <2>3, <3>1 DEF access, rows, QmStates
  <2>4. CASE QmRequest(t)
    BY <2>1, <2>3, <2>4 DEF QmRequest
  <2>5. CASE QmStaff(t)
    BY <2>1, <2>2, <2>3, <2>5 DEF QmStaff
  <2> QED
    BY <1>4, <2>4, <2>5
<1>5. ASSUME NEW t \in Tokens, QmRenew(t) PROVE TypeInv'
  <2>1. CASE Leased(t)
    <3>1. PICK run \in {job.run, qm[t].run} : job' = [job EXCEPT !.lock = QmLease, !.run = run]
      BY <1>5, <2>1 DEF QmRenew
    <3>2. job' \in Jobs
      <4>1. [job EXCEPT !.lock = QmLease] \in Jobs
        BY JobWith, Waits
      <4>2. run \in 0 .. MaxAttempts
        BY <3>1 DEF Jobs, QmStates
      <4> QED
        BY <3>1, <4>1, <4>2, JobWith
    <3>3. job'.kind = job.kind /\ job'.attempts = job.attempts /\ job'.status = job.status
      BY <3>1 DEF Jobs
    <3> DEFINE q == [[qm[t] EXCEPT !.pc = "run"] EXCEPT !.renewals = qm[t].renewals + 1]
    <3>4. q \in QmStates /\ q.pc = "run"
      <4>1. [qm[t] EXCEPT !.pc = "run"] \in QmStates
        BY QmWith
      <4>2. qm[t].renewals + 1 \in 0 .. MaxRenewals
        BY <1>5 DEF QmRenew, QmStates
      <4> QED
        BY <4>1, <4>2, QmWith DEF QmStates
    <3>5. qm' = [qm EXCEPT ![t] = q]
      BY <1>5, <2>1 DEF QmRenew, QmStates
    <3> QED
      BY <1>5, <3>2, <3>3, <3>4, <3>5 DEF QmRenew, access
  <2>2. CASE ~Leased(t)
    BY <1>5, <2>2, LeaveKeepsTypes DEF QmRenew, access
  <2> QED
    BY <2>1, <2>2
<1>6. ASSUME NEW t \in Tokens, QmComplete(t) PROVE TypeInv'
  <2>1. CASE Leased(t) /\ receipt.status = "processing"
    <3>1. receipt' \in Receipts
      <4>1. [receipt EXCEPT !.bridge = "ready"] \in Receipts
        BY ReceiptWith
      <4>2. texts + 1 \in Nat
        OBVIOUS
      <4>3. [[receipt EXCEPT !.bridge = "ready"] EXCEPT !.text = texts + 1] \in Receipts
        BY <4>1, <4>2, ReceiptWith
      <4> QED
        BY <1>6, <2>1, <4>3 DEF QmComplete
    <3>2. job' \in Jobs /\ job'.kind = "interaction" /\ job'.status = "pending"
      <4>1. [NoJob EXCEPT !.status = "pending"] \in Jobs
        BY ConstantTypes, JobWith
      <4>2. [[NoJob EXCEPT !.status = "pending"] EXCEPT !.kind = "interaction"] \in Jobs
        BY <4>1, JobWith
      <4> QED
        BY <1>6, <2>1, <4>2 DEF QmComplete, NoJob
    <3>3. calls' \in 0 .. EventCalls
      BY <1>6, <2>1 DEF QmComplete, Dispatch
    <3> QED
      BY <1>6, <2>1, <3>1, <3>2, <3>3, LeaveKeepsTypes DEF QmComplete, access
  <2>2. CASE ~(Leased(t) /\ receipt.status = "processing")
    BY <1>6, <2>2, LeaveKeepsTypes DEF QmComplete, access, rows
  <2> QED
    BY <2>1, <2>2
<1>7. ASSUME NEW t \in Tokens, QmDies(t) PROVE TypeInv'
  BY <1>7, LeaveKeepsTypes DEF QmDies, access, rows
<1> QED
  BY <1>1, <1>2, <1>3, <1>4, <1>5, <1>6, <1>7 DEF QmStep

\* A claim of the delivery.
LEMMA TakeKeepsTypes ==
    ASSUME NEW w \in Workers, NEW via \in {"event", "cron"}, TypeInv, Deliverable, Take(w, via)
    PROVE  /\ job' \in Jobs /\ job'.kind = "interaction" /\ job'.status = "running"
           /\ worker' \in [Workers -> WorkerStates]
<1> USE DEF TypeInv, Types
<1>0. job.attempts + 1 \in Nat
  BY DEF Jobs
<1>1. job' \in Jobs
  <2> DEFINE j1 == [job EXCEPT !.status = "running"]
             j2 == [j1 EXCEPT !.lock = StaleLock]
  <2>1. j1 \in Jobs
    BY JobWith
  <2>2. j2 \in Jobs
    BY <2>1, JobWith, Waits
  <2>3. [j2 EXCEPT !.attempts = job.attempts + 1] \in Jobs
    BY <1>0, <2>2, JobWith
  <2>4. job' = [j2 EXCEPT !.attempts = job.attempts + 1]
    BY DEF Take, Jobs
  <2> QED
    BY <2>3, <2>4
<1>2. /\ job'.kind = job.kind /\ job'.status = "running"
      /\ job'.attempts \in Nat /\ job.erased \in BOOLEAN
  BY <1>0 DEF Take, Jobs
<1>3. worker' \in [Workers -> WorkerStates]
  <2> DEFINE r1 == [IdleWorker EXCEPT !.pc = "load"]
             r2 == [r1 EXCEPT !.via = via]
             r3 == [r2 EXCEPT !.attempts = job'.attempts]
             r4 == [r3 EXCEPT !.erased = job.erased]
  <2>1. r1 \in WorkerStates
    BY ConstantTypes, WorkerWith DEF Pcs
  <2>2. r2 \in WorkerStates
    BY <2>1, WorkerWith
  <2>3. r3 \in WorkerStates
    BY <1>2, <2>2, WorkerWith
  <2>4. r4 \in WorkerStates
    BY <1>2, <2>3, WorkerWith
  <2>5. worker' = [worker EXCEPT ![w] = r4]
    BY DEF Take
  <2> QED
    BY <2>4, <2>5
<1> QED
  BY <1>1, <1>2, <1>3 DEF Deliverable

\* The claims of the delivery and the cron's reset.
LEMMA ClaimsKeepTypes ==
    ASSUME TypeInv,
           CronReset \/ \E w \in Workers : EventClaim(w) \/ CronClaim(w)
    PROVE  TypeInv'
<1> USE DEF TypeInv, Types
<1>1. CASE CronReset
  <2>1. [job EXCEPT !.status = "pending"] \in Jobs
    BY JobWith
  <2>2. [[job EXCEPT !.status = "pending"] EXCEPT !.lock = 0] \in Jobs
    BY <2>1, JobWith, Waits
  <2>3. job' \in Jobs
    BY <1>1, <2>2 DEF CronReset
  <2>4. job'.kind = job.kind /\ job'.attempts = job.attempts
    BY <1>1 DEF CronReset, Jobs
  <2> QED
    BY <1>1, <2>3, <2>4 DEF CronReset, access
<1>2. ASSUME NEW w \in Workers, EventClaim(w) PROVE TypeInv'
  <2>1. CASE Deliverable
    <3>1. calls - 1 \in 0 .. EventCalls
      BY <1>2 DEF EventClaim
    <3>2. Take(w, "event") /\ calls' = calls - 1
      BY <1>2, <2>1 DEF EventClaim
    <3> QED
      BY <1>2, <2>1, <3>1, <3>2, TakeKeepsTypes DEF EventClaim, access
  <2>2. CASE ~Deliverable
    <3>1. 0 \in 0 .. EventCalls
      OBVIOUS
    <3> QED
      BY <1>2, <2>2, <3>1 DEF EventClaim, access
  <2> QED
    BY <2>1, <2>2
<1>3. ASSUME NEW w \in Workers, CronClaim(w) PROVE TypeInv'
  BY <1>3, TakeKeepsTypes DEF CronClaim, access
<1> QED
  BY <1>1, <1>2, <1>3

\* The delivery.
LEMMA StepsKeepTypes ==
    ASSUME TypeInv, NEW w \in Workers, Step(w) \/ StepFails(w) \/ WorkerDies(w)
    PROVE  TypeInv'
<1> USE DEF TypeInv, Types
<1>0. worker[w].attempts \in Nat /\ worker[w].erased \in BOOLEAN /\ worker[w].text \in Nat
      /\ receipt.text \in Nat
  BY DEF WorkerStates, Receipts
<1>1. CASE Load(w)
  <2>1. CASE worker' = [worker EXCEPT ![w].pc = "send", ![w].text = receipt.text]
    <3> DEFINE r == [worker[w] EXCEPT !.pc = "send"]
    <3>1. r \in WorkerStates
      BY WorkerWith DEF Pcs
    <3>2. [r EXCEPT !.text = receipt.text] \in WorkerStates
      BY <1>0, <3>1, WorkerWith
    <3>3. worker' = [worker EXCEPT ![w] = [r EXCEPT !.text = receipt.text]]
      BY <2>1
    <3> QED
      BY <1>1, <3>2, <3>3 DEF Load, access, rows
  <2>2. CASE Throw(w) \/ Goto(w, "finish") \/ Goto(w, "model")
    BY <1>1, <2>2, WorkerMoves DEF Load, access, rows, Pcs
  <2> QED
    BY <1>1, <2>1, <2>2 DEF Load
<1>2. CASE CallModel(w)
  <2> DEFINE r == [worker[w] EXCEPT !.pc = "save"]
  <2>1. texts + 1 \in Nat
    OBVIOUS
  <2>2. r \in WorkerStates
    BY WorkerWith DEF Pcs
  <2>3. [r EXCEPT !.text = texts + 1] \in WorkerStates
    BY <2>1, <2>2, WorkerWith
  <2>4. worker' = [worker EXCEPT ![w] = [r EXCEPT !.text = texts + 1]]
    BY <1>2 DEF CallModel
  <2> QED
    BY <1>2, <2>1, <2>3, <2>4 DEF CallModel, access, rows
<1>3. CASE Save(w)
  <2>1. receipt' \in Receipts
    BY <1>0, <1>3 DEF Save, Receipts
  <2> QED
    BY <1>3, <2>1, WorkerMoves DEF Save, access, Pcs
<1>4. CASE Send(w)
  <2>1. Throw(w) \/ Goto(w, "complete")
    BY <1>4 DEF Send
  <2>2. posted' \in Nat
    BY <1>0, <1>4 DEF Send
  <2> QED
    BY <1>4, <2>1, <2>2, WorkerMoves DEF Send, access, rows, Pcs
<1>5. CASE Complete(w)
  <2>1. receipt' \in Receipts
    BY <1>0, <1>5 DEF Complete, Receipts
  <2> QED
    BY <1>5, <2>1, WorkerMoves DEF Complete, access, Pcs
<1>6. CASE Finish(w)
  <2>1. 0 \in 0 .. EventCalls
    OBVIOUS
  <2>2. CASE MayWrite(w)
    <3> DEFINE n == IF worker[w].via = "cron" THEN worker[w].attempts ELSE job.attempts
               j1 == [job EXCEPT !.status = "completed"]
               j2 == [j1 EXCEPT !.lock = 0]
               j3 == [j2 EXCEPT !.erased = TRUE]
               j4 == [j3 EXCEPT !.attempts = n]
    <3>1. n \in Nat
      BY <1>0 DEF Jobs
    <3>2. j1 \in Jobs
      BY JobWith
    <3>3. j2 \in Jobs
      BY <3>2, JobWith, Waits
    <3>4. j3 \in Jobs
      BY <3>3, JobWith
    <3>5. j4 \in Jobs
      BY <3>1, <3>4, JobWith
    <3>6. job' = j4
      BY <1>6, <2>2 DEF Finish, Jobs
    <3>7. j4.kind = job.kind /\ j4.status = "completed"
      BY DEF Jobs
    <3> HIDE DEF j4
    <3>8. job' \in Jobs /\ job'.kind = "interaction" /\ job'.status # "none"
      BY <1>6, <3>5, <3>6, <3>7 DEF Finish
    <3> QED
      BY <1>6, <2>1, <3>8, WorkerMoves DEF Finish, access
  <2>3. CASE ~MayWrite(w)
    <3>1. job' = job /\ calls' \in 0 .. EventCalls
      BY <1>6, <2>1, <2>3 DEF Finish
    <3>2. \A v \in Workers : worker'[v].pc # "idle" => worker[v].pc # "idle"
      BY <1>6 DEF Finish, Free, IdleWorker
    <3> QED
      BY <1>6, <3>1, <3>2, WorkerMoves DEF Finish, access
  <2> QED
    BY <2>2, <2>3
<1>7. CASE GiveUp(w)
  <2>1. receipt' \in Receipts
    <3>1. [NoReceipt EXCEPT !.status = "failed"] \in Receipts
      BY ConstantTypes, ReceiptWith
    <3> QED
      BY <1>7, <3>1 DEF GiveUp
  <2>2. used' \in Used /\ slips' \subseteq {"late", "unreported"}
    BY <1>7 DEF GiveUp, Fault, Used
  <2>3. Goto(w, "requeue") /\ UNCHANGED <<job, calls, requests, qm, posted, access, texts>>
    BY <1>7 DEF GiveUp
  <2> QED
    BY <1>7, <2>1, <2>2, <2>3, WorkerMoves DEF GiveUp, Goto, access, Pcs
<1>8. CASE Requeue(w)
  <2>1. 0 \in 0 .. EventCalls
    OBVIOUS
  <2>2. CASE MayWrite(w)
    <3> DEFINE retry == worker[w].attempts < MaxAttempts
               j1 == [job EXCEPT !.status = IF retry THEN "pending" ELSE "failed"]
               j2 == [j1 EXCEPT !.lock = 0]
               j3 == [j2 EXCEPT !.wait = IF retry /\ worker[w].via = "cron"
                                         THEN RetryDelay ELSE 0]
               j4 == [j3 EXCEPT !.erased = ~retry \/ worker[w].erased]
    <3>2. j1 \in Jobs
      BY JobWith
    <3>3. j2 \in Jobs
      BY <3>2, JobWith, Waits
    <3>4. j3 \in Jobs
      BY <3>3, JobWith, Waits
    <3>5. j4 \in Jobs
      BY <1>0, <3>4, JobWith
    <3>6. job' = j4
      BY <1>8, <2>2 DEF Requeue
    <3>7. j4.kind = job.kind /\ j4.status # "none"
      BY DEF Jobs
    <3> HIDE DEF j4
    <3>8. job' \in Jobs /\ job'.kind = "interaction" /\ job'.status # "none"
      BY <1>8, <3>5, <3>6, <3>7 DEF Requeue
    <3> QED
      BY <1>8, <2>1, <3>8, WorkerMoves DEF Requeue, access
  <2>3. CASE ~MayWrite(w)
    <3>1. job' = job /\ calls' \in 0 .. EventCalls
      BY <1>8, <2>1, <2>3 DEF Requeue
    <3>2. \A v \in Workers : worker'[v].pc # "idle" => worker[v].pc # "idle"
      BY <1>8 DEF Requeue, Free, IdleWorker
    <3> QED
      BY <1>8, <3>1, <3>2, WorkerMoves DEF Requeue, access
  <2> QED
    BY <2>2, <2>3
<1>9. CASE StepFails(w)
  <2>1. used' \in Used
    BY <1>9 DEF StepFails, Fault, Used
  <2>2. \A v \in Workers : worker'[v].pc # "idle" => worker[v].pc # "idle"
    BY <1>9 DEF StepFails, Throw, Goto
  <2> QED
    BY <1>9, <2>1, <2>2, WorkerMoves DEF StepFails, access, rows
<1>10. CASE WorkerDies(w)
  <2>1. used' \in Used
    BY <1>10 DEF WorkerDies, Fault, Used
  <2>2. \A v \in Workers : worker'[v].pc # "idle" => worker[v].pc # "idle"
    BY <1>10 DEF WorkerDies, Free, IdleWorker
  <2> QED
    BY <1>10, <2>1, <2>2, WorkerMoves DEF WorkerDies, access, rows
<1> QED
  BY <1>1, <1>2, <1>3, <1>4, <1>5, <1>6, <1>7, <1>8, <1>9, <1>10 DEF Step

\* Access and time.
LEMMA RestKeepsTypes ==
    ASSUME TypeInv, AccessChanges \/ Tick \/ UNCHANGED vars
    PROVE  TypeInv'
<1> USE DEF TypeInv, Types
<1>1. CASE AccessChanges
  <2>1. used' \in Used
    BY <1>1 DEF AccessChanges, Used
  <2> QED
    BY <1>1, <2>1 DEF AccessChanges, rows
<1>2. CASE Tick
  <2>1. Less(job.lock) \in 0 .. QmLease + StaleLock /\ Less(job.wait) \in 0 .. RetryDelay
    BY DEF Less, Jobs
  <2>2. [job EXCEPT !.lock = Less(job.lock)] \in Jobs
    BY <2>1, JobWith
  <2>3. [[job EXCEPT !.lock = Less(job.lock)] EXCEPT !.wait = Less(job.wait)] \in Jobs
    BY <2>1, <2>2, JobWith
  <2>4. job' = [[job EXCEPT !.lock = Less(job.lock)] EXCEPT !.wait = Less(job.wait)]
    BY <1>2 DEF Tick, Jobs
  <2>5. job'.kind = job.kind /\ job'.attempts = job.attempts /\ job'.status = job.status
    BY <1>2 DEF Tick, Jobs
  <2>6. job' \in Jobs
    BY <2>3, <2>4
  <2> QED
    BY <1>2, <2>5, <2>6 DEF Tick, access
<1>3. CASE UNCHANGED vars
  BY <1>3 DEF vars, rows, access
<1> QED
  BY <1>1, <1>2, <1>3

LEMMA TypesHold == Spec => []TypeInv
<1>1. Init => TypeInv
  <2> SUFFICES ASSUME Init PROVE TypeInv
    OBVIOUS
  <2>1. 0 \in 0 .. EventCalls /\ 0 \in Nat
    OBVIOUS
  <2> QED
    BY <2>1, ConstantTypes DEF Init, TypeInv, Types, NoJob, IdleWorker, IdleQm, NoText,
       RequestSteps, Used
<1>2. TypeInv /\ [Next]_vars => TypeInv'
  BY RequestsKeepTypes, AssistantKeepsTypes, ClaimsKeepTypes, StepsKeepTypes, RestKeepsTypes
  DEF Next
<1> QED
  BY <1>1, <1>2, PTL DEF Spec

\* Every row has the columns the schema gives it, and the assistant claims a job no
\* more often than its attempts allow.
THEOREM TypeCorrect == Spec => []TypeOK
<1>1. TypeInv => TypeOK
  BY DEF TypeInv, Types, TypeOK, Receipts, Jobs, WorkerStates, QmStates, Used
<1> QED
  BY <1>1, TypesHold, PTL
=============================================================================
