-------------------------- MODULE ApolloSearchProofs --------------------------
(***************************************************************************)
(* What holds of the free Apollo search for every number of searches,      *)
(* workers, employees, attempts, leases, keys and faults: the types, and   *)
(* to whom an attempt token belongs.                                       *)
(***************************************************************************)
EXTENDS ApolloSearch, TLAPS

USE ApolloAssumption

ReceiptTable == [Searches -> Receipts]
JobTable == [Searches -> Jobs]
WorkerTable == [Workers -> WorkerStates]
Keys == [status : {"connected", "error", "none"}, account : Nat, version : Nat]
KeyTable == [Employees -> Keys]

-------------------------------------------------------------------------------
(* Types of the rows *)

LEMMA ConstantTypes ==
    /\ NoToken \in Tokens \cup {NoToken}
    /\ NoReceipt \in Receipts /\ NoJob \in Jobs /\ IdleWorker \in WorkerStates
<1>1. NoReceipt \in Receipts
  BY DEF NoReceipt, Receipts, ReceiptStates, NoToken
<1>2. NoJob \in Jobs
  BY DEF NoJob, Jobs, NoToken
<1>3. (CHOOSE s \in Searches : TRUE) \in Searches
  OBVIOUS
<1>4. IdleWorker \in WorkerStates
  BY <1>3 DEF IdleWorker, WorkerStates, WorkerSteps, Answers, ReceiptStates, NoToken
<1> QED
  BY <1>1, <1>2, <1>4

\* A row keeps its type when one column is given a value of its type.
LEMMA ReceiptWith ==
    ASSUME NEW r \in Receipts
    PROVE  /\ \A x \in ReceiptStates : [r EXCEPT !.state = x] \in Receipts
           /\ \A x \in 0 .. MaxAttempts : [r EXCEPT !.attempts = x] \in Receipts
           /\ \A x \in Tokens \cup {NoToken} : [r EXCEPT !.token = x] \in Receipts
           /\ \A x \in 0 .. Lease : [r EXCEPT !.lease = x] \in Receipts
           /\ \A x \in Nat : [r EXCEPT !.next = x] \in Receipts
           /\ \A x \in BOOLEAN : [r EXCEPT !.authorized = x] \in Receipts
           /\ \A x \in BOOLEAN : [r EXCEPT !.ambiguous = x] \in Receipts
           /\ \A x \in Nat : [r EXCEPT !.account = x] \in Receipts
BY ZenonT(60) DEF Receipts

LEMMA JobWith ==
    ASSUME NEW r \in Jobs
    PROVE  /\ \A x \in {"none", "pending", "running", "completed", "failed"} :
                [r EXCEPT !.status = x] \in Jobs
           /\ \A x \in Tokens \cup {NoToken} : [r EXCEPT !.token = x] \in Jobs
           /\ \A x \in 0 .. Lease : [r EXCEPT !.lease = x] \in Jobs
           /\ \A x \in Nat : [r EXCEPT !.wait = x] \in Jobs
BY ZenonT(60) DEF Jobs

LEMMA WorkerWith ==
    ASSUME NEW r \in WorkerStates
    PROVE  /\ \A x \in WorkerSteps : [r EXCEPT !.pc = x] \in WorkerStates
           /\ \A x \in Searches : [r EXCEPT !.search = x] \in WorkerStates
           /\ \A x \in Tokens \cup {NoToken} : [r EXCEPT !.token = x] \in WorkerStates
           /\ \A x \in Tokens \cup {NoToken} : [r EXCEPT !.was = x] \in WorkerStates
           /\ \A x \in 0 .. Lease : [r EXCEPT !.lease = x] \in WorkerStates
           /\ \A x \in BOOLEAN : [r EXCEPT !.doubt = x] \in WorkerStates
           /\ \A x \in BOOLEAN : [r EXCEPT !.last = x] \in WorkerStates
           /\ \A x \in Nat : [r EXCEPT !.cred = x] \in WorkerStates
           /\ \A x \in 0 .. CallLimit : [r EXCEPT !.timer = x] \in WorkerStates
           /\ \A x \in Answers \cup {"none", "no_key"} : [r EXCEPT !.answer = x] \in WorkerStates
           /\ \A x \in ReceiptStates : [r EXCEPT !.result = x] \in WorkerStates
           /\ \A x \in Nat : [r EXCEPT !.wait = x] \in WorkerStates
BY ZenonT(60) DEF WorkerStates

LEMMA KeyWith ==
    ASSUME NEW r \in Keys
    PROVE  /\ \A x \in {"connected", "error", "none"} : [r EXCEPT !.status = x] \in Keys
           /\ \A x \in Nat : [r EXCEPT !.account = x] \in Keys
           /\ \A x \in Nat : [r EXCEPT !.version = x] \in Keys
BY ZenonT(60) DEF Keys

\* The row a transition, an attempt, its return, its authorisation or its settlement leaves.
LEMMA TransitionRow ==
    ASSUME NEW r \in Receipts, NEW state \in ReceiptStates, NEW ambiguous \in BOOLEAN,
           NEW next \in Nat
    PROVE  [r EXCEPT !.state = state, !.token = NoToken, !.lease = 0, !.next = next,
                     !.authorized = FALSE, !.ambiguous = ambiguous] \in Receipts
<1>0. NoToken \in Tokens \cup {NoToken} /\ 0 \in 0 .. Lease /\ FALSE \in BOOLEAN
  BY ConstantTypes
<1> QED
  BY <1>0, ReceiptWith

\* An attempt begins.
LEMMA AttemptRow ==
    ASSUME NEW r \in Receipts, NEW t \in Tokens \cup {NoToken}, NEW l \in 0 .. Lease,
           NEW a \in 0 .. MaxAttempts
    PROVE  [r EXCEPT !.state = "processing", !.token = t, !.lease = l, !.attempts = a] \in Receipts
<1>0. "processing" \in ReceiptStates
  BY ConstantTypes
  DEF ReceiptStates
<1> QED
  BY <1>0, ReceiptWith

\* An attempt is given back.
LEMMA ReturnedRow ==
    ASSUME NEW r \in Receipts, NEW a \in 0 .. MaxAttempts
    PROVE  [r EXCEPT !.state = "retry_scheduled", !.token = NoToken, !.lease = 0,
                     !.next = BusyRetry, !.attempts = a] \in Receipts
<1>0. "retry_scheduled" \in ReceiptStates /\ NoToken \in Tokens \cup {NoToken} /\ 0 \in 0 .. Lease
  BY ConstantTypes DEF ReceiptStates
<1> QED
  BY <1>0, ReceiptWith

\* An attempt is authorised.
LEMMA AuthorizedRow ==
    ASSUME NEW r \in Receipts
    PROVE  [r EXCEPT !.lease = Lease, !.authorized = TRUE] \in Receipts
<1>0. Lease \in 0 .. Lease /\ TRUE \in BOOLEAN
  BY ConstantTypes
<1> QED
  BY <1>0, ReceiptWith

\* A call is settled.
LEMMA SettledRow ==
    ASSUME NEW r \in Receipts, NEW b \in BOOLEAN
    PROVE  [r EXCEPT !.authorized = FALSE, !.ambiguous = b] \in Receipts
<1>0. FALSE \in BOOLEAN
  BY ConstantTypes
<1> QED
  BY <1>0, ReceiptWith

\* A job is claimed.
LEMMA ClaimedRow ==
    ASSUME NEW r \in Jobs, NEW t \in Tokens \cup {NoToken}
    PROVE  [r EXCEPT !.status = "running", !.token = t, !.lease = Lease] \in Jobs
<1>0. Lease \in 0 .. Lease
  BY ConstantTypes
<1> QED
  BY <1>0, JobWith

\* A key is replaced.
LEMMA ReplacedRow ==
    ASSUME NEW r \in Keys, NEW v \in Nat, NEW a \in Nat
    PROVE  [r EXCEPT !.version = v, !.status = "connected", !.account = a] \in Keys
<1>0. TRUE
  BY ConstantTypes
<1> QED
  BY <1>0, KeyWith

\* A key is disconnected.
LEMMA DisconnectedRow ==
    ASSUME NEW r \in Keys
    PROVE  [r EXCEPT !.status = "none", !.account = 0] \in Keys
<1>0. 0 \in Nat
  BY ConstantTypes
<1> QED
  BY <1>0, KeyWith

\* A worker claims.
LEMMA ClaimingWorker ==
    ASSUME NEW pc \in WorkerSteps, NEW s \in Searches, NEW t \in Tokens \cup {NoToken},
           NEW u \in Tokens \cup {NoToken}, NEW doubt \in BOOLEAN, NEW result \in ReceiptStates,
           NEW wait \in Nat
    PROVE  [IdleWorker EXCEPT !.pc = pc, !.search = s, !.token = t, !.lease = Lease, !.was = u,
                              !.doubt = doubt, !.result = result, !.wait = wait] \in WorkerStates
<1>0. IdleWorker \in WorkerStates /\ Lease \in 0 .. Lease
  BY ConstantTypes
<1> QED
  BY <1>0, WorkerWith

\* It has recovered the last attempt.
LEMMA RecoveringWorker ==
    ASSUME NEW r \in WorkerStates
    PROVE  [r EXCEPT !.pc = "check", !.was = NoToken, !.result = "none", !.wait = 0] \in WorkerStates
<1>0. "check" \in WorkerSteps /\ NoToken \in Tokens \cup {NoToken} /\ "none" \in ReceiptStates
  BY ConstantTypes DEF WorkerSteps, ReceiptStates
<1> QED
  BY <1>0, WorkerWith

\* It has begun an attempt.
LEMMA BeginningWorker ==
    ASSUME NEW r \in WorkerStates, NEW b \in BOOLEAN
    PROVE  [r EXCEPT !.pc = "configure", !.lease = 0, !.last = b] \in WorkerStates
<1>0. "configure" \in WorkerSteps /\ 0 \in 0 .. Lease
  BY ConstantTypes DEF WorkerSteps, Answers
<1> QED
  BY <1>0, WorkerWith

\* It has a key.
LEMMA ConfiguredWorker ==
    ASSUME NEW r \in WorkerStates, NEW c \in Nat
    PROVE  [r EXCEPT !.pc = "lock", !.cred = c] \in WorkerStates
<1>0. "lock" \in WorkerSteps
  BY ConstantTypes DEF WorkerSteps, Answers
<1> QED
  BY <1>0, WorkerWith

\* It has none.
LEMMA KeylessWorker ==
    ASSUME NEW r \in WorkerStates
    PROVE  [r EXCEPT !.pc = "fail", !.answer = "no_key"] \in WorkerStates
<1>0. "fail" \in WorkerSteps
  BY ConstantTypes DEF WorkerSteps, Answers
<1> QED
  BY <1>0, WorkerWith

\* It calls.
LEMMA CallingWorker ==
    ASSUME NEW r \in WorkerStates
    PROVE  [r EXCEPT !.pc = "call", !.timer = CallLimit] \in WorkerStates
<1>0. "call" \in WorkerSteps /\ CallLimit \in 0 .. CallLimit
  BY ConstantTypes DEF WorkerSteps, Answers
<1> QED
  BY <1>0, WorkerWith

\* It has an answer.
LEMMA AnsweredWorker ==
    ASSUME NEW r \in WorkerStates, NEW pc \in WorkerSteps, NEW answer \in Answers
    PROVE  [r EXCEPT !.pc = pc, !.timer = 0, !.answer = answer] \in WorkerStates
<1>0. 0 \in 0 .. CallLimit /\ answer \in Answers \cup {"none", "no_key"}
  BY ConstantTypes DEF WorkerSteps, Answers
<1> QED
  BY <1>0, WorkerWith

\* It reports.
LEMMA ReportingWorker ==
    ASSUME NEW s \in Searches, NEW t \in Tokens \cup {NoToken}, NEW result \in ReceiptStates,
           NEW wait \in Nat
    PROVE  [IdleWorker EXCEPT !.pc = "persist", !.search = s, !.token = t, !.result = result,
                              !.wait = wait] \in WorkerStates
<1>0. IdleWorker \in WorkerStates /\ "persist" \in WorkerSteps
  BY ConstantTypes DEF WorkerSteps, Answers
<1> QED
  BY <1>0, WorkerWith
-------------------------------------------------------------------------------
(* What the operators do to a row *)

Tables ==
    /\ receipt \in ReceiptTable
    /\ job \in JobTable
    /\ worker \in WorkerTable
    /\ connection \in KeyTable

Alone(w) == \A v \in Workers : v # w => worker'[v] = worker[v]
OnlyReceipt(s) == \A r \in Searches : r # s => receipt'[r] = receipt[r]
OnlyJob(s) == \A r \in Searches : r # s => job'[r] = job[r]

\* The worker goes on with all it knows.
GoesOn(w, pc) ==
    /\ worker'[w].pc = pc /\ worker'[w].search = worker[w].search
    /\ worker'[w].token = worker[w].token /\ worker'[w].was = worker[w].was
    /\ worker'[w].doubt = worker[w].doubt /\ worker'[w].cred = worker[w].cred
    /\ worker'[w].answer = worker[w].answer /\ worker'[w].result = worker[w].result

\* The worker ends, or has a state to report.
Idles(w) == worker'[w].pc = "idle" /\ worker'[w].token = NoToken
            /\ worker'[w].was = NoToken /\ worker'[w].result = "none"
Persists(w, state) ==
    /\ worker'[w].pc = "persist" /\ worker'[w].search = worker[w].search
    /\ worker'[w].token = worker[w].token /\ worker'[w].was = NoToken
    /\ worker'[w].result = state

Turns(s, state, ambiguous, next) ==
    /\ receipt'[s].state = state /\ receipt'[s].attempts = receipt[s].attempts
    /\ receipt'[s].token = NoToken /\ receipt'[s].next = next
    /\ receipt'[s].authorized = FALSE /\ receipt'[s].ambiguous = ambiguous

LEMMA RowTypes ==
    ASSUME Tables
    PROVE  /\ \A s \in Searches : receipt[s] \in Receipts /\ job[s] \in Jobs
           /\ \A w \in Workers : worker[w] \in WorkerStates
           /\ \A e \in Employees : connection[e] \in Keys
BY DEF Tables, ReceiptTable, JobTable, WorkerTable, KeyTable

\* A transition replaces the result and keeps the attempts and the account.
LEMMA Transitioned ==
    ASSUME Tables, NEW s \in Searches, NEW state \in ReceiptStates, NEW ambiguous \in BOOLEAN,
           NEW next \in Nat, Transition(s, state, ambiguous, next)
    PROVE  /\ receipt' \in ReceiptTable /\ receipt'[s] \in Receipts
           /\ OnlyReceipt(s) /\ Turns(s, state, ambiguous, next)
<1> DEFINE new == [receipt[s] EXCEPT !.state = state, !.token = NoToken, !.lease = 0,
                                     !.next = next, !.authorized = FALSE,
                                     !.ambiguous = ambiguous]
<1>1. receipt' = [receipt EXCEPT ![s] = new]
  BY DEF Transition
<1>2. receipt[s] \in Receipts
  BY RowTypes
<1>3. new \in Receipts
  BY <1>2, TransitionRow
<1>4. /\ new.state = state /\ new.attempts = receipt[s].attempts
      /\ new.token = NoToken /\ new.next = next
      /\ new.authorized = FALSE /\ new.ambiguous = ambiguous
  BY <1>2 DEF Receipts
<1> HIDE DEF new
<1> QED
  BY <1>1, <1>3, <1>4 DEF Tables, ReceiptTable, OnlyReceipt, Turns

\* A worker goes to a step and keeps what it knows.
LEMMA GoesTo ==
    ASSUME Tables, NEW w \in Workers, NEW pc \in WorkerSteps, Goto(w, pc)
    PROVE  /\ worker' \in WorkerTable
           /\ Alone(w) /\ GoesOn(w, pc)
<1> DEFINE new == [worker[w] EXCEPT !.pc = pc]
<1>1. worker' = [worker EXCEPT ![w] = new]
  BY DEF Goto
<1>2. worker[w] \in WorkerStates
  BY RowTypes
<1>3. new \in WorkerStates
  BY <1>2, WorkerWith
<1>4. /\ new.pc = pc /\ new.search = worker[w].search
      /\ new.token = worker[w].token /\ new.was = worker[w].was
      /\ new.doubt = worker[w].doubt /\ new.cred = worker[w].cred
      /\ new.timer = worker[w].timer /\ new.answer = worker[w].answer
      /\ new.result = worker[w].result /\ new.wait = worker[w].wait
  BY <1>2 DEF WorkerStates
<1> HIDE DEF new
<1> QED
  BY <1>1, <1>3, <1>4 DEF Tables, WorkerTable, Alone, GoesOn

\* A worker reports what it read of its search.
LEMMA Reports ==
    ASSUME Tables, NEW w \in Workers, NEW read \in Receipts, Report(w, read)
    PROVE  /\ worker' \in WorkerTable
           /\ Alone(w) /\ Persists(w, read.state)
<1> DEFINE new == [IdleWorker EXCEPT !.pc = "persist", !.search = worker[w].search,
                                     !.token = worker[w].token,
                                     !.result = read.state, !.wait = read.next]
<1>1. worker' = [worker EXCEPT ![w] = new]
  BY DEF Report
<1>2. /\ new.pc = "persist" /\ new.search = worker[w].search /\ new.token = worker[w].token
      /\ new.was = NoToken /\ new.result = read.state /\ new.wait = read.next
  BY DEF IdleWorker
<1>3. /\ worker[w].search \in Searches /\ worker[w].token \in Tokens \cup {NoToken}
      /\ read.state \in ReceiptStates /\ read.next \in Nat
  BY RowTypes DEF Receipts, WorkerStates
<1>4. new \in WorkerStates
  BY <1>3, ReportingWorker
<1> HIDE DEF new
<1> QED
  BY <1>1, <1>2, <1>4 DEF Tables, WorkerTable, Alone, Persists

LEMMA Frees ==
    ASSUME Tables, NEW w \in Workers, Free(w)
    PROVE  worker' \in WorkerTable /\ Alone(w) /\ Idles(w)
<1>1. /\ IdleWorker.pc = "idle" /\ IdleWorker.token = NoToken
      /\ IdleWorker.was = NoToken /\ IdleWorker.result = "none"
  BY DEF IdleWorker
<1>2. worker' \in WorkerTable /\ worker'[w] = IdleWorker /\ Alone(w)
  BY ConstantTypes DEF Free, Tables, WorkerTable, Alone
<1> QED
  BY <1>1, <1>2 DEF Idles

\* The fresh token is a token and nobody has it.
LEMMA Fresh ==
    ASSUME ~(Tokens \subseteq TokensInUse)
    PROVE  /\ FreshToken \in Tokens /\ FreshToken # NoToken
           /\ \A s \in Searches : job[s].token # FreshToken /\ receipt[s].token # FreshToken
           /\ \A w \in Workers : worker[w].token # FreshToken /\ worker[w].was # FreshToken
<1>1. \E t \in Tokens : t \notin TokensInUse
  OBVIOUS
<1>2. FreshToken \in Tokens /\ FreshToken \notin TokensInUse
  BY <1>1 DEF FreshToken
<1> QED
  BY <1>2 DEF Tokens, NoToken, TokensInUse
-------------------------------------------------------------------------------
(* What the actions do to a row *)

\* A claim gives the job and the worker a fresh token, and the worker what the
\* receipt says.
LEMMA Claims ==
    ASSUME Tables, NEW w \in Workers, NEW s \in Searches, Claim(w, s)
    PROVE  /\ job' \in JobTable /\ worker' \in WorkerTable
           /\ job'[s].status = "running" /\ job'[s].token = FreshToken
           /\ job'[s].lease = Lease /\ job'[s].wait = job[s].wait
           /\ \A r \in Searches : r # s => job'[r] = job[r]
           /\ worker'[w].pc = FirstStep(s) /\ worker'[w].search = s
           /\ worker'[w].token = FreshToken
           /\ worker'[w].was = IF FirstStep(s) = "recover" THEN receipt[s].token ELSE NoToken
           /\ worker'[w].doubt = (receipt[s].ambiguous \/ receipt[s].authorized)
           /\ worker'[w].result = IF FirstStep(s) = "check" THEN "none" ELSE receipt[s].state
           /\ worker'[w].wait = IF FirstStep(s) = "check" THEN 0 ELSE receipt[s].next
           /\ worker'[w].answer = "none"
           /\ \A v \in Workers : v # w => worker'[v] = worker[v]
<1> DEFINE row == [job[s] EXCEPT !.status = "running", !.token = FreshToken, !.lease = Lease]
           was == IF FirstStep(s) = "recover" THEN receipt[s].token ELSE NoToken
           doubt == receipt[s].ambiguous \/ receipt[s].authorized
           result == IF FirstStep(s) = "check" THEN "none" ELSE receipt[s].state
           wait == IF FirstStep(s) = "check" THEN 0 ELSE receipt[s].next
           new == [IdleWorker EXCEPT
                     !.pc = FirstStep(s), !.search = s, !.token = FreshToken, !.lease = Lease,
                     !.was = was, !.doubt = doubt, !.result = result, !.wait = wait]
<1>1. FreshToken \in Tokens \cup {NoToken}
  BY Fresh DEF Claim
<1>2. job' = [job EXCEPT ![s] = row] /\ worker' = [worker EXCEPT ![w] = new]
  BY DEF Claim
<1>3. job[s] \in Jobs /\ receipt[s] \in Receipts
  BY RowTypes
<1>4. row \in Jobs
  BY <1>1, <1>3, ClaimedRow
<1>5. /\ row.status = "running" /\ row.token = FreshToken /\ row.lease = Lease
      /\ row.wait = job[s].wait
  BY <1>3 DEF Jobs
<1>6. FirstStep(s) \in WorkerSteps
  BY DEF FirstStep, WorkerSteps
<1>7. /\ was \in Tokens \cup {NoToken} /\ doubt \in BOOLEAN /\ wait \in Nat
      /\ result \in ReceiptStates
  BY <1>3 DEF Receipts, ReceiptStates
<1>8. new \in WorkerStates
  <2> HIDE DEF was, doubt, result, wait
  <2> QED
    BY ZenonT(60), <1>1, <1>6, <1>7, ClaimingWorker
<1>9. /\ new.pc = FirstStep(s) /\ new.search = s /\ new.token = FreshToken /\ new.was = was
      /\ new.doubt = doubt /\ new.result = result /\ new.wait = wait /\ new.answer = "none"
  BY DEF IdleWorker
<1> HIDE DEF row, new
<1> QED
  BY <1>2, <1>4, <1>5, <1>8, <1>9 DEF Tables, JobTable, WorkerTable

LEMMA Recovers ==
    ASSUME Tables, NEW w \in Workers,
           worker' = [worker EXCEPT ![w] = [@ EXCEPT !.pc = "check", !.was = NoToken,
                                                     !.result = "none", !.wait = 0]]
    PROVE  /\ worker' \in WorkerTable
           /\ worker'[w].pc = "check" /\ worker'[w].search = worker[w].search
           /\ worker'[w].token = worker[w].token /\ worker'[w].was = NoToken
           /\ worker'[w].doubt = worker[w].doubt /\ worker'[w].result = "none"
           /\ \A v \in Workers : v # w => worker'[v] = worker[v]
<1> DEFINE new == [worker[w] EXCEPT !.pc = "check", !.was = NoToken, !.result = "none", !.wait = 0]
<1>1. worker[w] \in WorkerStates
  BY RowTypes
<1>2. new \in WorkerStates
  BY <1>1, RecoveringWorker
<1>3. /\ new.pc = "check" /\ new.search = worker[w].search /\ new.token = worker[w].token
      /\ new.was = NoToken /\ new.doubt = worker[w].doubt /\ new.result = "none"
  BY <1>1 DEF WorkerStates
<1>4. worker' = [worker EXCEPT ![w] = new]
  OBVIOUS
<1> HIDE DEF new
<1> QED
  BY <1>2, <1>3, <1>4 DEF Tables, WorkerTable

\* An attempt that begins has the token and what is left of the lease of its worker.
LEMMA Begins ==
    ASSUME Tables, NEW w \in Workers, NEW s \in Searches, AttemptLeft(s),
           receipt' = [receipt EXCEPT ![s] =
                        [@ EXCEPT !.state = "processing", !.token = worker[w].token,
                                  !.lease = worker[w].lease,
                                     !.attempts = receipt[s].attempts + 1]],
           worker' = [worker EXCEPT ![w] =
                       [@ EXCEPT !.pc = "configure", !.lease = 0,
                                 !.last = receipt'[s].attempts >= MaxAttempts]]
    PROVE  /\ receipt' \in ReceiptTable /\ worker' \in WorkerTable
           /\ receipt'[s].state = "processing" /\ receipt'[s].token = worker[w].token
           /\ receipt'[s].attempts = receipt[s].attempts + 1
           /\ receipt'[s].next = receipt[s].next
           /\ receipt'[s].authorized = receipt[s].authorized
           /\ receipt'[s].ambiguous = receipt[s].ambiguous
           /\ OnlyReceipt(s) /\ Alone(w) /\ GoesOn(w, "configure")
<1> DEFINE row == [receipt[s] EXCEPT !.state = "processing", !.token = worker[w].token,
                                     !.lease = worker[w].lease,
                                     !.attempts = receipt[s].attempts + 1]
           last == receipt'[s].attempts >= MaxAttempts
           new == [worker[w] EXCEPT !.pc = "configure", !.lease = 0, !.last = last]
<1>1. receipt[s] \in Receipts /\ worker[w] \in WorkerStates
  BY RowTypes
<1>2. receipt' = [receipt EXCEPT ![s] = row] /\ worker' = [worker EXCEPT ![w] = new]
  OBVIOUS
<1>3. receipt[s].attempts + 1 \in 0 .. MaxAttempts
  BY <1>1 DEF AttemptLeft, Receipts
<1>4. worker[w].token \in Tokens \cup {NoToken} /\ worker[w].lease \in 0 .. Lease
  BY <1>1 DEF WorkerStates
<1>5. row \in Receipts
  BY <1>1, <1>3, <1>4, AttemptRow
<1>6. /\ row.state = "processing" /\ row.token = worker[w].token
      /\ row.attempts = receipt[s].attempts + 1 /\ row.next = receipt[s].next
      /\ row.authorized = receipt[s].authorized /\ row.ambiguous = receipt[s].ambiguous
  BY <1>1 DEF Receipts
<1>7. last \in BOOLEAN
  <2>1. receipt'[s].attempts \in Nat /\ MaxAttempts \in Nat
    <3> HIDE DEF row
    <3> QED
      BY <1>1, <1>2, <1>3, <1>6 DEF Tables, ReceiptTable
  <2> QED
    BY <2>1
<1>8. new \in WorkerStates
  <2> HIDE DEF last
  <2> QED
    BY <1>1, <1>7, BeginningWorker
<1>9. /\ new.pc = "configure" /\ new.search = worker[w].search /\ new.token = worker[w].token
      /\ new.was = worker[w].was /\ new.doubt = worker[w].doubt
      /\ new.result = worker[w].result /\ new.answer = worker[w].answer /\ new.cred = worker[w].cred
  BY <1>1 DEF WorkerStates
<1> HIDE DEF row, new
<1> QED
  BY <1>2, <1>5, <1>6, <1>8, <1>9 DEF Tables, ReceiptTable, WorkerTable, OnlyReceipt, Alone,
                                         GoesOn

LEMMA Configures ==
    ASSUME Tables, Owner \in [Searches -> Employees], NEW w \in Workers, Configure(w)
    PROVE  /\ worker' \in WorkerTable
           /\ worker'[w].pc = IF Connected(worker[w].search) THEN "lock" ELSE "fail"
           /\ worker'[w].search = worker[w].search /\ worker'[w].token = worker[w].token
           /\ worker'[w].was = worker[w].was /\ worker'[w].doubt = worker[w].doubt
           /\ worker'[w].result = worker[w].result
           /\ worker'[w].pc = "fail" => worker'[w].answer = "no_key"
           /\ \A v \in Workers : v # w => worker'[v] = worker[v]
<1> DEFINE s == worker[w].search
           key == [worker[w] EXCEPT !.pc = "lock", !.cred = Key(s).version]
           none == [worker[w] EXCEPT !.pc = "fail", !.answer = "no_key"]
<1>1. worker[w] \in WorkerStates /\ Owner[s] \in Employees
  BY RowTypes DEF WorkerStates
<1>2. Key(s).version \in Nat
  BY <1>1, RowTypes DEF Key, Keys
<1>3. CASE Connected(s)
  <2>1. worker' = [worker EXCEPT ![w] = key]
    BY <1>3 DEF Configure
  <2>2. key \in WorkerStates
    BY <1>1, <1>2, ConfiguredWorker
  <2>3. /\ key.pc = "lock" /\ key.search = worker[w].search /\ key.token = worker[w].token
        /\ key.was = worker[w].was /\ key.doubt = worker[w].doubt
        /\ key.result = worker[w].result
    BY <1>1 DEF WorkerStates
  <2> HIDE DEF key
  <2> QED
    BY <1>3, <2>1, <2>2, <2>3 DEF Tables, WorkerTable
<1>4. CASE ~Connected(s)
  <2>1. worker' = [worker EXCEPT ![w] = none]
    BY <1>4 DEF Configure
  <2>2. none \in WorkerStates
    BY <1>1, KeylessWorker
  <2>3. /\ none.pc = "fail" /\ none.search = worker[w].search /\ none.token = worker[w].token
        /\ none.was = worker[w].was /\ none.doubt = worker[w].doubt
        /\ none.result = worker[w].result /\ none.answer = "no_key"
    BY <1>1 DEF WorkerStates
  <2> HIDE DEF none
  <2> QED
    BY <1>4, <2>1, <2>2, <2>3 DEF Tables, WorkerTable
<1> QED
  BY <1>3, <1>4

\* The job of a search ends, or waits for its next run.
LEMMA JobBecomes ==
    ASSUME Tables, NEW s \in Searches, NEW status \in {"none", "pending", "running", "completed",
    "failed"},
           NEW wait \in Nat,
           job' = [job EXCEPT ![s] = [NoJob EXCEPT !.status = status, !.wait = wait]]
    PROVE  /\ job' \in JobTable
           /\ job'[s].status = status /\ job'[s].token = NoToken
           /\ \A r \in Searches : r # s => job'[r] = job[r]
<1> DEFINE new == [NoJob EXCEPT !.status = status, !.wait = wait]
<1>1. new \in Jobs
  BY ConstantTypes, JobWith
<1>2. new.status = status /\ new.token = NoToken
  BY DEF NoJob
<1>3. job' = [job EXCEPT ![s] = new]
  OBVIOUS
<1> HIDE DEF new
<1> QED
  BY <1>1, <1>2, <1>3 DEF Tables, JobTable

LEMMA JobBecomesNow ==
    ASSUME Tables, NEW s \in Searches, NEW status \in {"none", "pending", "running", "completed",
    "failed"},
           job' = [job EXCEPT ![s] = [NoJob EXCEPT !.status = status]]
    PROVE  /\ job' \in JobTable
           /\ job'[s].status = status /\ job'[s].token = NoToken
           /\ \A r \in Searches : r # s => job'[r] = job[r]
<1> DEFINE new == [NoJob EXCEPT !.status = status]
<1>1. new \in Jobs
  BY ConstantTypes, JobWith
<1>2. new.status = status /\ new.token = NoToken
  BY DEF NoJob
<1>3. job' = [job EXCEPT ![s] = new]
  OBVIOUS
<1> HIDE DEF new
<1> QED
  BY <1>1, <1>2, <1>3 DEF Tables, JobTable

LEMMA IsAskedFor ==
    ASSUME Tables, NEW s \in Searches, Search(s)
    PROVE  /\ receipt' \in ReceiptTable /\ job' \in JobTable
           /\ receipt'[s].state = "retry_scheduled" /\ receipt'[s].attempts = 0
           /\ receipt'[s].token = NoToken /\ receipt'[s].next = 0
           /\ receipt'[s].authorized = FALSE /\ receipt'[s].ambiguous = FALSE
           /\ \A r \in Searches : r # s => receipt'[r] = receipt[r]
           /\ job'[s].status = "pending" /\ job'[s].token = NoToken
           /\ \A r \in Searches : r # s => job'[r] = job[r]
<1> DEFINE new == [NoReceipt EXCEPT !.state = "retry_scheduled", !.account = Key(s).account]
<1>1. Owner[s] \in Employees
  OBVIOUS
<1>2. Key(s).account \in Nat
  BY <1>1, RowTypes DEF Key, Keys
<1>3. "retry_scheduled" \in ReceiptStates
  BY DEF ReceiptStates
<1>4. new \in Receipts
  BY <1>2, <1>3, ConstantTypes, ReceiptWith
<1>5. /\ new.state = "retry_scheduled" /\ new.attempts = 0 /\ new.token = NoToken
      /\ new.next = 0 /\ new.authorized = FALSE /\ new.ambiguous = FALSE
  BY DEF NoReceipt
<1>6. receipt' = [receipt EXCEPT ![s] = new]
  BY DEF Search
<1>7. job' = [job EXCEPT ![s] = [NoJob EXCEPT !.status = "pending"]]
  BY DEF Search
<1>8. /\ job' \in JobTable /\ job'[s].status = "pending" /\ job'[s].token = NoToken
      /\ \A r \in Searches : r # s => job'[r] = job[r]
  BY <1>7, JobBecomesNow
<1> HIDE DEF new
<1> QED
  BY <1>4, <1>5, <1>6, <1>8 DEF Tables, ReceiptTable

\* An attempt is given back: it does not count.
LEMMA Returns ==
    ASSUME Tables, NEW s \in Searches, receipt[s].attempts >= 1,
           receipt' = [receipt EXCEPT ![s] =
                        [@ EXCEPT !.state = "retry_scheduled", !.token = NoToken,
                                  !.lease = 0, !.next = BusyRetry,
                                  !.attempts = receipt[s].attempts - 1]]
    PROVE  /\ receipt' \in ReceiptTable
           /\ receipt'[s].state = "retry_scheduled" /\ receipt'[s].token = NoToken
           /\ receipt'[s].next = BusyRetry
           /\ receipt'[s].authorized = receipt[s].authorized
           /\ receipt'[s].ambiguous = receipt[s].ambiguous
           /\ \A r \in Searches : r # s => receipt'[r] = receipt[r]
<1> DEFINE new == [receipt[s] EXCEPT !.state = "retry_scheduled", !.token = NoToken,
                                     !.lease = 0, !.next = BusyRetry,
                                     !.attempts = receipt[s].attempts - 1]
<1>1. receipt[s] \in Receipts
  BY RowTypes
<1>2. receipt[s].attempts - 1 \in 0 .. MaxAttempts
  BY <1>1 DEF Receipts
<1>3. new \in Receipts
  BY <1>1, <1>2, ReturnedRow
<1>4. /\ new.state = "retry_scheduled" /\ new.token = NoToken /\ new.next = BusyRetry
      /\ new.authorized = receipt[s].authorized /\ new.ambiguous = receipt[s].ambiguous
  BY <1>1 DEF Receipts
<1>5. receipt' = [receipt EXCEPT ![s] = new]
  OBVIOUS
<1> HIDE DEF new
<1> QED
  BY <1>3, <1>4, <1>5 DEF Tables, ReceiptTable

\* The fence authorises an attempt and renews the lease of its job.
LEMMA Authorizes ==
    ASSUME Tables, NEW s \in Searches,
           receipt' = [receipt EXCEPT ![s] = [@ EXCEPT !.lease = Lease, !.authorized = TRUE]],
           job' = [job EXCEPT ![s].lease = Lease]
    PROVE  /\ receipt' \in ReceiptTable /\ job' \in JobTable
           /\ receipt'[s].state = receipt[s].state /\ receipt'[s].token = receipt[s].token
           /\ receipt'[s].attempts = receipt[s].attempts /\ receipt'[s].next = receipt[s].next
           /\ receipt'[s].authorized = TRUE /\ receipt'[s].ambiguous = receipt[s].ambiguous
           /\ \A r \in Searches : r # s => receipt'[r] = receipt[r]
           /\ job'[s].status = job[s].status /\ job'[s].token = job[s].token
           /\ job'[s].lease = Lease
           /\ \A r \in Searches : r # s => job'[r] = job[r]
<1> DEFINE row == [receipt[s] EXCEPT !.lease = Lease, !.authorized = TRUE]
           new == [job[s] EXCEPT !.lease = Lease]
<1>1. receipt[s] \in Receipts /\ job[s] \in Jobs /\ Lease \in 0 .. Lease
  BY RowTypes
<1>2. row \in Receipts /\ new \in Jobs
  BY <1>1, AuthorizedRow, JobWith
<1>3. /\ row.state = receipt[s].state /\ row.token = receipt[s].token
      /\ row.attempts = receipt[s].attempts /\ row.next = receipt[s].next
      /\ row.authorized = TRUE /\ row.ambiguous = receipt[s].ambiguous
  BY <1>1 DEF Receipts
<1>4. new.status = job[s].status /\ new.token = job[s].token /\ new.lease = Lease
  BY <1>1 DEF Jobs
<1>5. receipt' = [receipt EXCEPT ![s] = row] /\ job' = [job EXCEPT ![s] = new]
  OBVIOUS
<1> HIDE DEF row, new
<1> QED
  BY <1>2, <1>3, <1>4, <1>5 DEF Tables, ReceiptTable, JobTable

\* The request is sent.
LEMMA Sends ==
    ASSUME Tables, NEW w \in Workers,
           worker' = [worker EXCEPT ![w] = [@ EXCEPT !.pc = "call", !.timer = CallLimit]]
    PROVE  /\ worker' \in WorkerTable
           /\ worker'[w].pc = "call" /\ worker'[w].timer = CallLimit
           /\ worker'[w].search = worker[w].search /\ worker'[w].token = worker[w].token
           /\ worker'[w].was = worker[w].was /\ worker'[w].doubt = worker[w].doubt
           /\ worker'[w].cred = worker[w].cred /\ worker'[w].result = worker[w].result
           /\ \A v \in Workers : v # w => worker'[v] = worker[v]
<1> DEFINE new == [worker[w] EXCEPT !.pc = "call", !.timer = CallLimit]
<1>1. worker[w] \in WorkerStates
  BY RowTypes
<1>2. new \in WorkerStates
  BY <1>1, CallingWorker
<1>3. /\ new.pc = "call" /\ new.timer = CallLimit
      /\ new.search = worker[w].search /\ new.token = worker[w].token
      /\ new.was = worker[w].was /\ new.doubt = worker[w].doubt
      /\ new.cred = worker[w].cred /\ new.result = worker[w].result
  BY <1>1 DEF WorkerStates
<1>4. worker' = [worker EXCEPT ![w] = new]
  OBVIOUS
<1> HIDE DEF new
<1> QED
  BY <1>2, <1>3, <1>4 DEF Tables, WorkerTable

\* A call that failed is settled: its attempt stays open.
LEMMA Settles ==
    ASSUME Tables, NEW s \in Searches, NEW ambiguous \in BOOLEAN,
           receipt' = [receipt EXCEPT ![s] =
                        [@ EXCEPT !.authorized = FALSE, !.ambiguous = ambiguous]]
    PROVE  /\ receipt' \in ReceiptTable
           /\ receipt'[s].state = receipt[s].state /\ receipt'[s].token = receipt[s].token
           /\ receipt'[s].attempts = receipt[s].attempts /\ receipt'[s].next = receipt[s].next
           /\ receipt'[s].authorized = FALSE /\ receipt'[s].ambiguous = ambiguous
           /\ \A r \in Searches : r # s => receipt'[r] = receipt[r]
<1> DEFINE new == [receipt[s] EXCEPT !.authorized = FALSE, !.ambiguous = ambiguous]
<1>1. receipt[s] \in Receipts
  BY RowTypes
<1>2. new \in Receipts
  BY <1>1, SettledRow
<1>3. /\ new.state = receipt[s].state /\ new.token = receipt[s].token
      /\ new.attempts = receipt[s].attempts /\ new.next = receipt[s].next
      /\ new.authorized = FALSE /\ new.ambiguous = ambiguous
  BY <1>1 DEF Receipts
<1>4. receipt' = [receipt EXCEPT ![s] = new]
  OBVIOUS
<1> HIDE DEF new
<1> QED
  BY <1>2, <1>3, <1>4 DEF Tables, ReceiptTable

\* A key is entered; the account stays while there is one.
LEMMA KeyReplaced ==
    ASSUME Tables, NEW e \in Employees, ReplaceKey(e)
    PROVE  /\ connection' \in KeyTable
           /\ connection'[e].status = "connected" /\ connection'[e].account # 0
           /\ \A d \in Employees : d # e => connection'[d] = connection[d]
<1> DEFINE account == IF connection[e].account = 0 THEN connection[e].version + 1
                      ELSE connection[e].account
           version == connection[e].version + 1
           new == [connection[e] EXCEPT !.version = version, !.status = "connected",
                                        !.account = account]
<1>1. connection[e] \in Keys
  BY RowTypes
<1>2. account \in Nat /\ version \in Nat /\ account # 0
  BY <1>1 DEF Keys
<1>3. connection' = [connection EXCEPT ![e] = new]
  BY DEF ReplaceKey
<1> HIDE DEF account, version
<1>4. new \in Keys
  BY <1>1, <1>2, ReplacedRow
<1>5. new.status = "connected" /\ new.account = account
  BY <1>1 DEF Keys
<1> HIDE DEF new
<1> QED
  BY <1>2, <1>3, <1>4, <1>5 DEF Tables, KeyTable

LEMMA KeyDisconnected ==
    ASSUME Tables, NEW e \in Employees, Disconnect(e)
    PROVE  /\ connection' \in KeyTable
           /\ connection'[e].status = "none"
           /\ \A d \in Employees : d # e => connection'[d] = connection[d]
<1> DEFINE new == [connection[e] EXCEPT !.status = "none", !.account = 0]
<1>1. connection[e] \in Keys
  BY RowTypes
<1>2. connection' = [connection EXCEPT ![e] = new]
  BY DEF Disconnect
<1>3. new \in Keys
  BY <1>1, DisconnectedRow
<1>4. new.status = "none"
  BY <1>1 DEF Keys
<1> HIDE DEF new
<1> QED
  BY <1>2, <1>3, <1>4 DEF Tables, KeyTable

\* A refusal marks the key the request was sent with, if it is still there.
LEMMA Marks ==
    ASSUME Tables, NEW w \in Workers, Mark(w)
    PROVE  /\ connection' \in KeyTable
           /\ \A e \in Employees : /\ connection'[e].account = connection[e].account
                                   /\ connection'[e].version = connection[e].version
           /\ \A e \in Employees :
                \/ connection'[e] = connection[e]
                \/ /\ e = Owner[worker[w].search] /\ connection[e].status = "connected"
                   /\ connection[e].version = worker[w].cred
<1> DEFINE s == worker[w].search
           o == Owner[s]
           new == [connection[o] EXCEPT !.status = "error"]
<1>1. worker[w] \in WorkerStates
  BY RowTypes
<1>2. o \in Employees
  BY <1>1 DEF WorkerStates
<1>3. connection[o] \in Keys
  BY <1>2, RowTypes
<1>4. new \in Keys
  BY <1>3, KeyWith
<1>5. new.account = connection[o].account /\ new.version = connection[o].version
  BY <1>3 DEF Keys
<1>6. CASE Connected(s) /\ Key(s).version = worker[w].cred
  <2>1. connection' = [connection EXCEPT ![o] = new]
    BY <1>6 DEF Mark
  <2>2. connection[o].status = "connected" /\ connection[o].version = worker[w].cred
    BY <1>6 DEF Connected, Key
  <2> HIDE DEF new, o
  <2>3. connection' \in KeyTable
    BY <1>2, <1>4, <2>1 DEF Tables, KeyTable
  <2>4. connection'[o] = new /\ \A e \in Employees : e # o => connection'[e] = connection[e]
    BY <1>2, <2>1 DEF Tables, KeyTable
  <2> QED
    BY <1>5, <2>2, <2>3, <2>4 DEF o
<1>7. CASE ~(Connected(s) /\ Key(s).version = worker[w].cred)
  <2>1. connection' = connection
    BY <1>7 DEF Mark
  <2> QED
    BY <2>1 DEF Tables
<1> QED
  BY <1>6, <1>7

LEMMA LessType ==
    ASSUME NEW m \in Nat, NEW t \in 0 .. m
    PROVE  Less(t) \in 0 .. m
BY DEF Less

\* Time changes what is left of leases and waits and nothing else of a row.
LEMMA Ticks ==
    ASSUME Tables, Tick
    PROVE  /\ receipt' \in ReceiptTable /\ job' \in JobTable /\ worker' \in WorkerTable
           /\ \A s \in Searches :
                /\ receipt'[s].state = receipt[s].state /\ receipt'[s].token = receipt[s].token
                /\ receipt'[s].attempts = receipt[s].attempts
                /\ receipt'[s].next = Less(receipt[s].next)
                /\ receipt'[s].authorized = receipt[s].authorized
                /\ receipt'[s].ambiguous = receipt[s].ambiguous
                /\ job'[s].status = job[s].status /\ job'[s].token = job[s].token
                /\ job'[s].lease = Less(job[s].lease)
           /\ \A w \in Workers :
                /\ worker'[w].pc = worker[w].pc /\ worker'[w].search = worker[w].search
                /\ worker'[w].token = worker[w].token /\ worker'[w].was = worker[w].was
                /\ worker'[w].doubt = worker[w].doubt /\ worker'[w].cred = worker[w].cred
                /\ worker'[w].timer = Less(worker[w].timer)
                /\ worker'[w].answer = worker[w].answer /\ worker'[w].result = worker[w].result
<1> DEFINE row(s) == [receipt[s] EXCEPT !.lease = Less(@), !.next = Less(@)]
           run(s) == [job[s] EXCEPT !.lease = Less(@), !.wait = Less(@)]
           new(w) == [worker[w] EXCEPT !.lease = Less(@), !.timer = Less(@), !.wait = Less(@)]
<1>1. /\ receipt' = [s \in Searches |-> row(s)] /\ job' = [s \in Searches |-> run(s)]
      /\ worker' = [w \in Workers |-> new(w)]
  BY DEF Tick
<1>2. ASSUME NEW s \in Searches
      PROVE  /\ row(s) \in Receipts
             /\ row(s).state = receipt[s].state /\ row(s).token = receipt[s].token
             /\ row(s).attempts = receipt[s].attempts /\ row(s).next = Less(receipt[s].next)
             /\ row(s).authorized = receipt[s].authorized
             /\ row(s).ambiguous = receipt[s].ambiguous
  <2>1. receipt[s] \in Receipts
    BY RowTypes
  <2>2. Less(receipt[s].lease) \in 0 .. Lease /\ Less(receipt[s].next) \in Nat
    BY <2>1 DEF Less, Receipts
  <2>3. [receipt[s] EXCEPT !.lease = Less(receipt[s].lease)] \in Receipts
    BY <2>1, <2>2, ReceiptWith
  <2>4. row(s) \in Receipts
    BY <2>2, <2>3, ReceiptWith
  <2> QED
    BY <2>1, <2>4 DEF Receipts
<1>3. ASSUME NEW s \in Searches
      PROVE  /\ run(s) \in Jobs
             /\ run(s).status = job[s].status /\ run(s).token = job[s].token
             /\ run(s).lease = Less(job[s].lease)
  <2>1. job[s] \in Jobs
    BY RowTypes
  <2>2. Less(job[s].lease) \in 0 .. Lease /\ Less(job[s].wait) \in Nat
    BY <2>1 DEF Less, Jobs
  <2>3. [job[s] EXCEPT !.lease = Less(job[s].lease)] \in Jobs
    BY <2>1, <2>2, JobWith
  <2>4. run(s) \in Jobs
    BY <2>2, <2>3, JobWith
  <2> QED
    BY <2>1, <2>4 DEF Jobs
<1>4. ASSUME NEW w \in Workers
      PROVE  /\ new(w) \in WorkerStates
             /\ new(w).pc = worker[w].pc /\ new(w).search = worker[w].search
             /\ new(w).token = worker[w].token /\ new(w).was = worker[w].was
             /\ new(w).doubt = worker[w].doubt /\ new(w).cred = worker[w].cred
             /\ new(w).timer = Less(worker[w].timer)
             /\ new(w).answer = worker[w].answer /\ new(w).result = worker[w].result
  <2>1. worker[w] \in WorkerStates
    BY RowTypes
  <2>2. /\ Less(worker[w].lease) \in 0 .. Lease /\ Less(worker[w].timer) \in 0 .. CallLimit
        /\ Less(worker[w].wait) \in Nat
    BY <2>1 DEF Less, WorkerStates
  <2>3. [worker[w] EXCEPT !.lease = Less(worker[w].lease)] \in WorkerStates
    BY <2>1, <2>2, WorkerWith
  <2>4. [worker[w] EXCEPT !.lease = Less(worker[w].lease),
                          !.timer = Less(worker[w].timer)] \in WorkerStates
    BY <2>2, <2>3, WorkerWith
  <2>5. new(w) \in WorkerStates
    BY <2>2, <2>4, WorkerWith
  <2> QED
    BY <2>1, <2>5 DEF WorkerStates
<1> HIDE DEF row, run, new
<1> QED
  BY <1>1, <1>2, <1>3, <1>4 DEF ReceiptTable, JobTable, WorkerTable
-------------------------------------------------------------------------------
(* What a step does, seen by the other rows *)

Others ==
    /\ lane \subseteq Workers
    /\ laneIdle \in 0 .. LaneIdle
    /\ entitled \subseteq Employees
    /\ imported \subseteq Searches
    /\ rejected \subseteq Employees \X Nat
    /\ lost \subseteq Searches
    /\ misread \subseteq Searches
    /\ rushed \subseteq Searches
    /\ notBefore \in [Searches -> Nat]
    /\ used \in [faults : Nat, denials : Nat, misreads : Nat]

\* A processing attempt is counted: giving it back takes one away.
Counted == \A s \in Searches : receipt[s].state = "processing" => receipt[s].attempts >= 1

TypeInv == Tables /\ Others /\ Counted

LEMMA Rows ==
    ASSUME TypeInv
    PROVE  /\ Tables /\ Owner \in [Searches -> Employees]
           /\ \A s \in Searches : receipt[s] \in Receipts /\ job[s] \in Jobs
           /\ \A w \in Workers : worker[w] \in WorkerStates /\ worker[w].search \in Searches
           /\ \A e \in Employees : connection[e] \in Keys
BY RowTypes DEF TypeInv, WorkerStates

\* A receipt that leaves processing, or none that changes, is no new count.
LEMMA CountedStays ==
    ASSUME TypeInv, NEW s \in Searches,
           receipt' = receipt \/ (OnlyReceipt(s) /\ receipt'[s].state # "processing")
    PROVE  Counted'
BY Rows DEF TypeInv, Counted, OnlyReceipt

LEMMA ReturnDoes ==
    ASSUME Tables, NEW w \in Workers, NEW read \in Receipts, ReturnFromLane(w, read)
    PROVE  /\ worker' \in WorkerTable /\ Alone(w)
           /\ Idles(w) \/ Persists(w, read.state)
           /\ Release(w)
<1>1. CASE w \in lane
  <2>1. Report(w, read) /\ Release(w)
    BY <1>1 DEF ReturnFromLane
  <2> QED
    BY <2>1, Reports
<1>2. CASE w \notin lane
  <2>1. Free(w) /\ Release(w)
    BY <1>2 DEF ReturnFromLane
  <2> QED
    BY <2>1, Frees
<1> QED
  BY <1>1, <1>2

LEMMA RevokeDoes ==
    ASSUME TypeInv, NEW s \in Searches, Revoke(s)
    PROVE  /\ receipt' \in ReceiptTable /\ job' \in JobTable
           /\ OnlyReceipt(s) /\ OnlyJob(s)
           /\ receipt[s].state \in {"retry_scheduled", "processing"}
           /\ Turns(s, "revoked", receipt[s].authorized \/ receipt[s].ambiguous, 0)
           /\ \/ job' = job
              \/ /\ job[s].status = "pending"
                 /\ job'[s].status = "failed" /\ job'[s].token = NoToken
<1> DEFINE ambiguous == receipt[s].authorized \/ receipt[s].ambiguous
<1>1. /\ Transition(s, "revoked", ambiguous, 0)
      /\ receipt[s].state \in {"retry_scheduled", "processing"}
  BY DEF Revoke
<1>2. "revoked" \in ReceiptStates
  BY DEF ReceiptStates, TerminalStates
<1> HIDE DEF ambiguous
<1>3. ambiguous \in BOOLEAN
  BY DEF ambiguous
<1>4. receipt' \in ReceiptTable /\ OnlyReceipt(s) /\ Turns(s, "revoked", ambiguous, 0)
  BY <1>1, <1>2, <1>3, Rows, Transitioned
<1>5. CASE job[s].status = "pending"
  <2>1. job' = [job EXCEPT ![s] = [NoJob EXCEPT !.status = "failed"]]
    BY <1>5 DEF Revoke
  <2>2. /\ job' \in JobTable /\ job'[s].status = "failed" /\ job'[s].token = NoToken
        /\ OnlyJob(s)
    BY <2>1, Rows, JobBecomesNow DEF OnlyJob
  <2> QED
    BY <1>1, <1>4, <1>5, <2>2 DEF ambiguous
<1>6. CASE job[s].status # "pending"
  <2>1. job' = job /\ job' \in JobTable
    BY <1>6, Rows DEF Revoke, Tables
  <2> QED
    BY <1>1, <1>4, <2>1 DEF OnlyJob, ambiguous
<1> QED
  BY <1>5, <1>6

LEMMA RepairDoes ==
    ASSUME TypeInv, NEW w \in Workers, Repair(w)
    PROVE  /\ worker' \in WorkerTable /\ Alone(w) /\ worker[w].pc = "repair"
           /\ \/ GoesOn(w, "persist") /\ imported' = imported \cup {worker[w].search}
              \/ Idles(w) /\ imported' = imported
<1>1. "persist" \in WorkerSteps
  BY DEF WorkerSteps
<1>2. CASE Owner[worker[w].search] \in entitled
  <2>1. /\ Goto(w, "persist") /\ worker[w].pc = "repair"
        /\ imported' = imported \cup {worker[w].search}
    BY <1>2 DEF Repair
  <2> QED
    BY <1>1, <2>1, Rows, GoesTo
<1>3. CASE Owner[worker[w].search] \notin entitled
  <2>1. Free(w) /\ worker[w].pc = "repair" /\ imported' = imported
    BY <1>3 DEF Repair
  <2> QED
    BY <2>1, Rows, Frees
<1> QED
  BY <1>2, <1>3

LEMMA RecoverDoes ==
    ASSUME TypeInv, NEW w \in Workers, Recover(w)
    PROVE  LET s == worker[w].search IN
           /\ receipt' \in ReceiptTable /\ worker' \in WorkerTable
           /\ Alone(w) /\ OnlyReceipt(s) /\ worker[w].pc = "recover"
           /\ \/ /\ AtAttempt(s, worker[w].was)
                 /\ Turns(s, "retry_scheduled", worker[w].doubt, 0)
                 /\ worker'[w].pc = "check" /\ worker'[w].search = s
                 /\ worker'[w].token = worker[w].token /\ worker'[w].was = NoToken
                 /\ worker'[w].doubt = worker[w].doubt /\ worker'[w].result = "none"
              \/ /\ ~AtAttempt(s, worker[w].was) /\ receipt' = receipt /\ GoesOn(w, "persist")
<1> DEFINE s == worker[w].search
<1>1. "persist" \in WorkerSteps /\ "retry_scheduled" \in ReceiptStates
  BY DEF WorkerSteps, ReceiptStates
<1>2. s \in Searches /\ worker[w].doubt \in BOOLEAN /\ worker[w].pc = "recover"
  BY Rows DEF Recover, WorkerStates
<1>3. CASE AtAttempt(s, worker[w].was)
  <2>1. /\ Transition(s, "retry_scheduled", worker[w].doubt, 0)
        /\ worker' = [worker EXCEPT ![w] = [@ EXCEPT !.pc = "check", !.was = NoToken,
                                                     !.result = "none", !.wait = 0]]
    BY <1>3 DEF Recover
  <2>2. /\ receipt' \in ReceiptTable /\ OnlyReceipt(s)
        /\ Turns(s, "retry_scheduled", worker[w].doubt, 0)
    BY <1>1, <1>2, <2>1, Rows, Transitioned
  <2>3. /\ worker' \in WorkerTable /\ Alone(w)
        /\ worker'[w].pc = "check" /\ worker'[w].search = s
        /\ worker'[w].token = worker[w].token /\ worker'[w].was = NoToken
        /\ worker'[w].doubt = worker[w].doubt /\ worker'[w].result = "none"
    BY <2>1, Rows, Recovers DEF Alone
  <2> QED
    BY <1>2, <1>3, <2>2, <2>3
<1>4. CASE ~AtAttempt(s, worker[w].was)
  <2>1. Goto(w, "persist") /\ receipt' = receipt
    BY <1>4 DEF Recover
  <2> QED
    BY <1>1, <1>2, <1>4, <2>1, Rows, GoesTo DEF Tables, OnlyReceipt
<1> QED
  BY <1>3, <1>4

LEMMA CheckActorDoes ==
    ASSUME TypeInv, NEW w \in Workers, CheckActor(w)
    PROVE  LET s == worker[w].search IN
           /\ receipt' \in ReceiptTable /\ worker' \in WorkerTable
           /\ Alone(w) /\ OnlyReceipt(s) /\ worker[w].pc = "check"
           /\ \/ /\ Owner[s] \in entitled /\ receipt' = receipt /\ GoesOn(w, "begin")
              \/ /\ Owner[s] \notin entitled /\ receipt[s].state = "retry_scheduled"
                 /\ Turns(s, "revoked", worker[w].doubt, 0) /\ Persists(w, "revoked")
              \/ /\ Owner[s] \notin entitled /\ receipt[s].state # "retry_scheduled"
                 /\ receipt' = receipt /\ Persists(w, receipt[s].state)
<1> DEFINE s == worker[w].search
<1>1. "begin" \in WorkerSteps /\ "revoked" \in ReceiptStates
  BY DEF WorkerSteps, ReceiptStates, TerminalStates
<1>2. s \in Searches /\ worker[w].doubt \in BOOLEAN /\ worker[w].pc = "check"
  BY Rows DEF CheckActor, WorkerStates
<1>3. CASE Owner[s] \in entitled
  <2>1. Goto(w, "begin") /\ receipt' = receipt
    BY <1>3 DEF CheckActor
  <2> QED
    BY <1>1, <1>2, <1>3, <2>1, Rows, GoesTo DEF Tables, OnlyReceipt
<1>4. CASE Owner[s] \notin entitled /\ receipt[s].state = "retry_scheduled"
  <2>1. Transition(s, "revoked", worker[w].doubt, 0) /\ Report(w, receipt'[s])
    BY <1>4 DEF CheckActor
  <2>2. /\ receipt' \in ReceiptTable /\ OnlyReceipt(s) /\ receipt'[s] \in Receipts
        /\ Turns(s, "revoked", worker[w].doubt, 0)
    BY <1>1, <1>2, <2>1, Rows, Transitioned
  <2>3. worker' \in WorkerTable /\ Alone(w) /\ Persists(w, receipt'[s].state)
    BY <2>1, <2>2, Rows, Reports
  <2> QED
    BY <1>2, <1>4, <2>2, <2>3 DEF Turns
<1>5. CASE Owner[s] \notin entitled /\ receipt[s].state # "retry_scheduled"
  <2>1. receipt' = receipt /\ Report(w, receipt[s])
    BY <1>5 DEF CheckActor
  <2>2. worker' \in WorkerTable /\ Alone(w) /\ Persists(w, receipt[s].state)
    BY <1>2, <2>1, Rows, Reports
  <2> QED
    BY <1>2, <1>5, <2>1, <2>2, Rows DEF Tables, OnlyReceipt
<1> QED
  BY <1>3, <1>4, <1>5

LEMMA BeginDoes ==
    ASSUME TypeInv, NEW w \in Workers, Begin(w)
    PROVE  LET s == worker[w].search IN
           /\ receipt' \in ReceiptTable /\ worker' \in WorkerTable
           /\ Alone(w) /\ OnlyReceipt(s) /\ worker[w].pc = "begin"
           /\ \/ /\ receipt[s].state = "retry_scheduled"
                 /\ receipt'[s].state = "processing" /\ receipt'[s].token = worker[w].token
                 /\ receipt'[s].attempts = receipt[s].attempts + 1
                 /\ receipt'[s].next = receipt[s].next
                 /\ receipt'[s].authorized = receipt[s].authorized
                 /\ receipt'[s].ambiguous = receipt[s].ambiguous
                 /\ GoesOn(w, "configure")
                 /\ rushed' = IF notBefore[s] > 0 /\ ~HoldsJob(s, worker[w].token)
                              THEN rushed \cup {s}
                              ELSE rushed
              \/ /\ receipt[s].state = "retry_scheduled"
                 /\ Turns(s, "dead_letter", receipt[s].ambiguous, 0)
                 /\ Persists(w, "dead_letter") /\ rushed' = rushed
              \/ /\ receipt[s].state # "retry_scheduled" /\ receipt' = receipt
                 /\ Persists(w, receipt[s].state) /\ rushed' = rushed
<1> DEFINE s == worker[w].search
<1>1. "dead_letter" \in ReceiptStates
  BY DEF ReceiptStates, TerminalStates
<1>2. s \in Searches /\ receipt[s] \in Receipts /\ worker[w].pc = "begin"
  BY Rows DEF Begin
<1>3. CASE receipt[s].state = "retry_scheduled" /\ AttemptLeft(s)
  <2>1. /\ receipt' = [receipt EXCEPT ![s] =
                         [@ EXCEPT !.state = "processing", !.token = worker[w].token,
                                   !.lease = worker[w].lease,
                                   !.attempts = receipt[s].attempts + 1]]
        /\ worker' = [worker EXCEPT ![w] =
                        [@ EXCEPT !.pc = "configure", !.lease = 0,
                                  !.last = receipt'[s].attempts >= MaxAttempts]]
        /\ rushed' = IF notBefore[s] > 0 /\ ~HoldsJob(s, worker[w].token)
                     THEN rushed \cup {s}
                     ELSE rushed
    BY <1>3 DEF Begin
  <2>2. /\ receipt' \in ReceiptTable /\ worker' \in WorkerTable
        /\ receipt'[s].state = "processing" /\ receipt'[s].token = worker[w].token
        /\ receipt'[s].attempts = receipt[s].attempts + 1
        /\ receipt'[s].next = receipt[s].next
        /\ receipt'[s].authorized = receipt[s].authorized
        /\ receipt'[s].ambiguous = receipt[s].ambiguous
        /\ OnlyReceipt(s) /\ Alone(w) /\ GoesOn(w, "configure")
    BY <1>2, <1>3, <2>1, Rows, Begins
  <2> QED
    BY <1>2, <1>3, <2>1, <2>2
<1>4. CASE receipt[s].state = "retry_scheduled" /\ ~AttemptLeft(s)
  <2>1. /\ Transition(s, "dead_letter", receipt[s].ambiguous, 0) /\ Report(w, receipt'[s])
        /\ rushed' = rushed
    BY <1>4 DEF Begin
  <2>2. receipt[s].ambiguous \in BOOLEAN
    BY <1>2 DEF Receipts
  <2>3. /\ receipt' \in ReceiptTable /\ OnlyReceipt(s) /\ receipt'[s] \in Receipts
        /\ Turns(s, "dead_letter", receipt[s].ambiguous, 0)
    BY <1>1, <1>2, <2>1, <2>2, Rows, Transitioned
  <2>4. worker' \in WorkerTable /\ Alone(w) /\ Persists(w, receipt'[s].state)
    BY <2>1, <2>3, Rows, Reports
  <2>5. receipt'[s].state = "dead_letter"
    BY <2>3 DEF Turns
  <2> QED
    BY <1>2, <1>4, <2>1, <2>3, <2>4, <2>5
<1>5. CASE receipt[s].state # "retry_scheduled"
  <2>1. receipt' = receipt /\ Report(w, receipt[s]) /\ rushed' = rushed
    BY <1>5 DEF Begin
  <2>2. worker' \in WorkerTable /\ Alone(w) /\ Persists(w, receipt[s].state)
    BY <1>2, <2>1, Rows, Reports
  <2> QED
    BY <1>2, <1>5, <2>1, <2>2, Rows DEF Tables, OnlyReceipt
<1> QED
  BY <1>3, <1>4, <1>5

LEMMA LockDoes ==
    ASSUME TypeInv, NEW w \in Workers, Lock(w)
    PROVE  /\ worker' \in WorkerTable /\ Alone(w) /\ worker[w].pc = "lock"
           /\ GoesOn(w, "fence") /\ lane = {} /\ lane' = {w} /\ laneIdle' = LaneIdle
BY Rows, GoesTo DEF Lock, WorkerSteps

LEMMA LockBusyDoes ==
    ASSUME TypeInv, NEW w \in Workers, LockBusy(w)
    PROVE  /\ worker' \in WorkerTable /\ Alone(w) /\ worker[w].pc = "lock"
           /\ GoesOn(w, "relinquish")
BY Rows, GoesTo DEF LockBusy, WorkerSteps

LEMMA RelinquishDoes ==
    ASSUME TypeInv, NEW w \in Workers, Relinquish(w)
    PROVE  LET s == worker[w].search IN
           /\ receipt' \in ReceiptTable /\ job' \in JobTable /\ worker' \in WorkerTable
           /\ Alone(w) /\ OnlyReceipt(s) /\ OnlyJob(s) /\ worker[w].pc = "relinquish"
           /\ Idles(w)
           /\ \/ /\ AtAttempt(s, worker[w].token) /\ HoldsJob(s, worker[w].token)
                 /\ receipt'[s].state = "retry_scheduled" /\ receipt'[s].token = NoToken
                 /\ receipt'[s].next = BusyRetry
                 /\ receipt'[s].authorized = receipt[s].authorized
                 /\ receipt'[s].ambiguous = receipt[s].ambiguous
                 /\ job'[s].status = "pending" /\ job'[s].token = NoToken
              \/ receipt' = receipt /\ job' = job
<1> DEFINE s == worker[w].search
<1>1. s \in Searches /\ worker[w].pc = "relinquish"
  BY Rows DEF Relinquish
<1>2. worker' \in WorkerTable /\ Alone(w) /\ Idles(w)
  BY Rows, Frees DEF Relinquish
<1>3. CASE AtAttempt(s, worker[w].token) /\ HoldsJob(s, worker[w].token)
  <2>1. /\ receipt' = [receipt EXCEPT ![s] =
                         [@ EXCEPT !.state = "retry_scheduled", !.token = NoToken,
                                   !.lease = 0, !.next = BusyRetry,
                                   !.attempts = receipt[s].attempts - 1]]
        /\ job' = [job EXCEPT ![s] = [NoJob EXCEPT !.status = "pending", !.wait = BusyRetry]]
    BY <1>3 DEF Relinquish
  <2>2. receipt[s].attempts >= 1
    BY <1>1, <1>3 DEF TypeInv, Counted, AtAttempt
  <2>3. /\ receipt' \in ReceiptTable
        /\ receipt'[s].state = "retry_scheduled" /\ receipt'[s].token = NoToken
        /\ receipt'[s].next = BusyRetry
        /\ receipt'[s].authorized = receipt[s].authorized
        /\ receipt'[s].ambiguous = receipt[s].ambiguous
        /\ OnlyReceipt(s)
    BY <1>1, <2>1, <2>2, Rows, Returns DEF OnlyReceipt
  <2>4. BusyRetry \in Nat
    OBVIOUS
  <2>5. /\ job' \in JobTable /\ job'[s].status = "pending" /\ job'[s].token = NoToken
        /\ OnlyJob(s)
    BY <1>1, <2>1, <2>4, Rows, JobBecomes DEF OnlyJob
  <2> QED
    BY <1>1, <1>2, <1>3, <2>3, <2>5
<1>4. CASE ~(AtAttempt(s, worker[w].token) /\ HoldsJob(s, worker[w].token))
  <2>1. receipt' = receipt /\ job' = job
    BY <1>4 DEF Relinquish
  <2> QED
    BY <1>1, <1>2, <2>1, Rows DEF Tables, OnlyReceipt, OnlyJob
<1> QED
  BY <1>3, <1>4

LEMMA FenceDoes ==
    ASSUME TypeInv, NEW w \in Workers, Fence(w)
    PROVE  LET s == worker[w].search
               t == worker[w].token IN
           /\ receipt' \in ReceiptTable /\ job' \in JobTable /\ worker' \in WorkerTable
           /\ Alone(w) /\ OnlyReceipt(s) /\ OnlyJob(s) /\ worker[w].pc = "fence"
           /\ \/ /\ AtAttempt(s, t) /\ HoldsJob(s, t) /\ Authorized(w)
                 /\ receipt'[s].state = receipt[s].state /\ receipt'[s].token = receipt[s].token
                 /\ receipt'[s].attempts = receipt[s].attempts
                 /\ receipt'[s].next = receipt[s].next
                 /\ receipt'[s].authorized = TRUE
                 /\ receipt'[s].ambiguous = receipt[s].ambiguous
                 /\ job'[s].status = job[s].status /\ job'[s].token = job[s].token
                 /\ job'[s].lease = Lease
                 /\ GoesOn(w, "start") /\ lane' = lane /\ laneIdle' = laneIdle
              \/ /\ AtAttempt(s, t) /\ HoldsJob(s, t)
                 /\ Turns(s, "revoked", receipt[s].ambiguous, 0) /\ job' = job
                 /\ Idles(w) \/ Persists(w, "revoked")
                 /\ Release(w)
              \/ /\ ~(AtAttempt(s, t) /\ HoldsJob(s, t)) /\ receipt' = receipt /\ job' = job
                 /\ Idles(w) \/ Persists(w, receipt[s].state)
                 /\ Release(w)
<1> DEFINE s == worker[w].search
           t == worker[w].token
<1>1. s \in Searches /\ receipt[s] \in Receipts /\ worker[w].pc = "fence"
  BY Rows DEF Fence
<1>2. CASE AtAttempt(s, t) /\ HoldsJob(s, t) /\ Authorized(w)
  <2>1. /\ receipt' = [receipt EXCEPT ![s] = [@ EXCEPT !.lease = Lease, !.authorized = TRUE]]
        /\ job' = [job EXCEPT ![s].lease = Lease]
        /\ Goto(w, "start") /\ lane' = lane /\ laneIdle' = laneIdle
    BY <1>2 DEF Fence
  <2>2. /\ receipt' \in ReceiptTable /\ job' \in JobTable
        /\ receipt'[s].state = receipt[s].state /\ receipt'[s].token = receipt[s].token
        /\ receipt'[s].attempts = receipt[s].attempts /\ receipt'[s].next = receipt[s].next
        /\ receipt'[s].authorized = TRUE /\ receipt'[s].ambiguous = receipt[s].ambiguous
        /\ OnlyReceipt(s) /\ OnlyJob(s)
        /\ job'[s].status = job[s].status /\ job'[s].token = job[s].token
        /\ job'[s].lease = Lease
    BY <1>1, <2>1, Rows, Authorizes DEF OnlyReceipt, OnlyJob
  <2>3. "start" \in WorkerSteps
    BY DEF WorkerSteps
  <2>4. worker' \in WorkerTable /\ Alone(w) /\ GoesOn(w, "start")
    BY <2>1, <2>3, Rows, GoesTo
  <2> QED
    BY <1>1, <1>2, <2>1, <2>2, <2>4
<1>3. CASE AtAttempt(s, t) /\ HoldsJob(s, t) /\ ~Authorized(w)
  <2>1. /\ Transition(s, "revoked", receipt[s].ambiguous, 0)
        /\ ReturnFromLane(w, receipt'[s]) /\ job' = job
    BY <1>3 DEF Fence
  <2>2. receipt[s].ambiguous \in BOOLEAN /\ "revoked" \in ReceiptStates
    BY <1>1 DEF Receipts, ReceiptStates, TerminalStates
  <2>3. /\ receipt' \in ReceiptTable /\ OnlyReceipt(s) /\ receipt'[s] \in Receipts
        /\ Turns(s, "revoked", receipt[s].ambiguous, 0)
    BY <1>1, <2>1, <2>2, Rows, Transitioned
  <2>4. /\ worker' \in WorkerTable /\ Alone(w) /\ Release(w)
        /\ Idles(w) \/ Persists(w, receipt'[s].state)
    BY <2>1, <2>3, Rows, ReturnDoes
  <2>5. receipt'[s].state = "revoked"
    BY <2>3 DEF Turns
  <2> QED
    BY <1>1, <1>3, <2>1, <2>3, <2>4, <2>5, Rows DEF Tables, OnlyJob
<1>4. CASE ~(AtAttempt(s, t) /\ HoldsJob(s, t))
  <2>1. receipt' = receipt /\ job' = job /\ ReturnFromLane(w, receipt[s])
    BY <1>4 DEF Fence
  <2>2. /\ worker' \in WorkerTable /\ Alone(w) /\ Release(w)
        /\ Idles(w) \/ Persists(w, receipt[s].state)
    BY <1>1, <2>1, Rows, ReturnDoes
  <2> QED
    BY <1>1, <1>4, <2>1, <2>2, Rows DEF Tables, OnlyReceipt, OnlyJob
<1> QED
  BY <1>2, <1>3, <1>4

LEMMA StartCallDoes ==
    ASSUME TypeInv, NEW w \in Workers, StartCall(w)
    PROVE  /\ worker' \in WorkerTable /\ Alone(w) /\ worker[w].pc = "start"
           /\ \/ /\ w \in lane /\ laneIdle' = LaneIdle
                 /\ worker'[w].pc = "call" /\ worker'[w].timer = CallLimit
                 /\ worker'[w].search = worker[w].search /\ worker'[w].token = worker[w].token
                 /\ worker'[w].was = worker[w].was /\ worker'[w].doubt = worker[w].doubt
                 /\ worker'[w].cred = worker[w].cred /\ worker'[w].result = worker[w].result
              \/ w \notin lane /\ laneIdle' = laneIdle /\ Idles(w)
<1>1. CASE w \in lane
  <2>1. /\ worker' = [worker EXCEPT ![w] = [@ EXCEPT !.pc = "call", !.timer = CallLimit]]
        /\ laneIdle' = LaneIdle /\ worker[w].pc = "start"
    BY <1>1 DEF StartCall
  <2>2. /\ worker' \in WorkerTable /\ Alone(w)
        /\ worker'[w].pc = "call" /\ worker'[w].timer = CallLimit
        /\ worker'[w].search = worker[w].search /\ worker'[w].token = worker[w].token
        /\ worker'[w].was = worker[w].was /\ worker'[w].doubt = worker[w].doubt
        /\ worker'[w].cred = worker[w].cred /\ worker'[w].result = worker[w].result
    BY <2>1, Rows, Sends DEF Alone
  <2> QED
    BY <1>1, <2>1, <2>2
<1>2. CASE w \notin lane
  <2>1. Free(w) /\ laneIdle' = laneIdle /\ worker[w].pc = "start"
    BY <1>2 DEF StartCall
  <2> QED
    BY <1>2, <2>1, Rows, Frees
<1> QED
  BY <1>1, <1>2

LEMMA RespondDoes ==
    ASSUME TypeInv, NEW w \in Workers, Respond(w)
    PROVE  LET s == worker[w].search IN
           /\ worker' \in WorkerTable /\ Alone(w) /\ worker[w].pc = "call"
           /\ worker'[w].pc \in {"complete", "settle"} /\ worker'[w].answer \in Answers
           /\ worker'[w].search = worker[w].search /\ worker'[w].token = worker[w].token
           /\ worker'[w].was = worker[w].was /\ worker'[w].doubt = worker[w].doubt
           /\ worker'[w].cred = worker[w].cred /\ worker'[w].result = worker[w].result
           /\ lost' = IF worker'[w].answer = "transport" THEN lost \cup {s} ELSE lost
           /\ rejected' = IF worker'[w].answer = "auth"
                          THEN rejected \cup {<<Owner[s], worker[w].cred>>}
                          ELSE rejected
<1> DEFINE s == worker[w].search
<1>1. PICK answer \in Answers :
        /\ worker' = [worker EXCEPT ![w] =
                        [@ EXCEPT !.pc = IF answer = "ok" THEN "complete" ELSE "settle",
                                  !.timer = 0, !.answer = answer]]
        /\ lost' = IF answer = "transport" THEN lost \cup {s} ELSE lost
        /\ rejected' = IF answer = "auth"
                       THEN rejected \cup {<<Owner[s], worker[w].cred>>}
                       ELSE rejected
  BY DEF Respond
<1> DEFINE pc == IF answer = "ok" THEN "complete" ELSE "settle"
<1>2. pc \in WorkerSteps /\ pc \in {"complete", "settle"} /\ worker[w].pc = "call"
  BY DEF WorkerSteps, Respond
<1>3. worker' = [worker EXCEPT ![w] = [@ EXCEPT !.pc = pc, !.timer = 0, !.answer = answer]]
  BY <1>1
<1> HIDE DEF pc
<1> DEFINE new == [worker[w] EXCEPT !.pc = pc, !.timer = 0, !.answer = answer]
<1>4. worker' = [worker EXCEPT ![w] = new] /\ worker[w] \in WorkerStates /\ worker \in WorkerTable
  BY <1>3, Rows DEF Tables
<1>5. new \in WorkerStates
  BY <1>2, <1>4, AnsweredWorker
<1>6. /\ new.pc = pc /\ new.answer = answer
      /\ new.search = worker[w].search /\ new.token = worker[w].token
      /\ new.was = worker[w].was /\ new.doubt = worker[w].doubt
      /\ new.cred = worker[w].cred /\ new.result = worker[w].result
  BY <1>4 DEF WorkerStates
<1> HIDE DEF new
<1>7. worker' \in WorkerTable /\ Alone(w) /\ worker'[w] = new
  BY <1>4, <1>5 DEF WorkerTable, Alone
<1> QED
  BY <1>1, <1>2, <1>6, <1>7

LEMMA CompleteDoes ==
    ASSUME TypeInv, NEW w \in Workers, Complete(w)
    PROVE  LET s == worker[w].search IN
           /\ receipt' \in ReceiptTable /\ worker' \in WorkerTable
           /\ Alone(w) /\ OnlyReceipt(s) /\ worker[w].pc = "complete"
           /\ \/ /\ AtAttempt(s, worker[w].token) /\ Turns(s, "completed", worker[w].doubt, 0)
                 /\ s \in NativeSearches /\ GoesOn(w, "import")
                 /\ lane' = lane /\ laneIdle' = laneIdle
              \/ /\ AtAttempt(s, worker[w].token) /\ Turns(s, "completed", worker[w].doubt, 0)
                 /\ s \notin NativeSearches /\ (Idles(w) \/ Persists(w, "completed"))
                 /\ Release(w)
              \/ /\ ~AtAttempt(s, worker[w].token) /\ receipt' = receipt
                 /\ Idles(w) \/ Persists(w, receipt[s].state)
                 /\ Release(w)
<1> DEFINE s == worker[w].search
<1>1. s \in Searches /\ worker[w].doubt \in BOOLEAN /\ worker[w].pc = "complete"
  BY Rows DEF Complete, WorkerStates
<1>2. "completed" \in ReceiptStates /\ "import" \in WorkerSteps
  BY DEF ReceiptStates, TerminalStates, WorkerSteps
<1>3. CASE AtAttempt(s, worker[w].token)
  <2>1. Transition(s, "completed", worker[w].doubt, 0)
    BY <1>3 DEF Complete
  <2>2. /\ receipt' \in ReceiptTable /\ OnlyReceipt(s) /\ receipt'[s] \in Receipts
        /\ Turns(s, "completed", worker[w].doubt, 0)
    BY <1>1, <1>2, <2>1, Rows, Transitioned
  <2>3. receipt'[s].state = "completed"
    BY <2>2 DEF Turns
  <2>4. CASE s \in NativeSearches
    <3>1. Goto(w, "import") /\ lane' = lane /\ laneIdle' = laneIdle
      BY <1>3, <2>4 DEF Complete
    <3> QED
      BY <1>1, <1>2, <1>3, <2>2, <2>4, <3>1, Rows, GoesTo
  <2>5. CASE s \notin NativeSearches
    <3>1. ReturnFromLane(w, receipt'[s])
      BY <1>3, <2>5 DEF Complete
    <3>2. /\ worker' \in WorkerTable /\ Alone(w) /\ Release(w)
          /\ Idles(w) \/ Persists(w, receipt'[s].state)
      BY <2>2, <3>1, Rows, ReturnDoes
    <3> QED
      BY <1>1, <1>3, <2>2, <2>3, <2>5, <3>2
  <2> QED
    BY <2>4, <2>5
<1>4. CASE ~AtAttempt(s, worker[w].token)
  <2>1. receipt' = receipt /\ ReturnFromLane(w, receipt'[s])
    BY <1>4 DEF Complete
  <2>2. receipt'[s] = receipt[s] /\ receipt'[s] \in Receipts
    BY <1>1, <2>1, Rows
  <2>3. /\ worker' \in WorkerTable /\ Alone(w) /\ Release(w)
        /\ Idles(w) \/ Persists(w, receipt'[s].state)
    BY <2>1, <2>2, Rows, ReturnDoes
  <2> QED
    BY <1>1, <1>4, <2>1, <2>2, <2>3, Rows DEF Tables, OnlyReceipt
<1> QED
  BY <1>3, <1>4

LEMMA ImportDoes ==
    ASSUME TypeInv, NEW w \in Workers, Import(w)
    PROVE  LET s == worker[w].search IN
           /\ worker' \in WorkerTable /\ Alone(w) /\ worker[w].pc = "import" /\ Release(w)
           /\ \/ /\ imported' = imported \cup {s}
                 /\ Idles(w) \/ Persists(w, receipt[s].state)
              \/ imported' = imported /\ Idles(w)
<1> DEFINE s == worker[w].search
<1>1. receipt[s] \in Receipts /\ worker[w].pc = "import"
  BY Rows DEF Import
<1>2. CASE Owner[s] \in entitled
  <2>1. imported' = imported \cup {s} /\ ReturnFromLane(w, receipt[s])
    BY <1>2 DEF Import
  <2> QED
    BY <1>1, <2>1, Rows, ReturnDoes
<1>3. CASE Owner[s] \notin entitled
  <2>1. Free(w) /\ Release(w) /\ imported' = imported
    BY <1>3 DEF Import
  <2> QED
    BY <1>1, <2>1, Rows, Frees
<1> QED
  BY <1>2, <1>3

LEMMA SettleDoes ==
    ASSUME TypeInv, NEW w \in Workers, Settle(w)
    PROVE  LET s == worker[w].search IN
           /\ receipt' \in ReceiptTable /\ worker' \in WorkerTable
           /\ Alone(w) /\ OnlyReceipt(s) /\ worker[w].pc = "settle" /\ Release(w)
           /\ \/ /\ AtAttempt(s, worker[w].token)
                 /\ receipt'[s].state = receipt[s].state /\ receipt'[s].token = receipt[s].token
                 /\ receipt'[s].attempts = receipt[s].attempts
                 /\ receipt'[s].next = receipt[s].next
                 /\ receipt'[s].authorized = FALSE
                 /\ receipt'[s].ambiguous
                      = (receipt[s].ambiguous \/ worker[w].answer = "transport")
              \/ ~AtAttempt(s, worker[w].token) /\ receipt' = receipt
           /\ \/ Idles(w)
              \/ worker[w].answer = "auth" /\ GoesOn(w, "mark")
              \/ GoesOn(w, "fail")
<1> DEFINE s == worker[w].search
           ambiguous == receipt[s].ambiguous \/ worker[w].answer = "transport"
<1>1. s \in Searches /\ receipt[s] \in Receipts /\ worker[w].pc = "settle" /\ Release(w)
  BY Rows DEF Settle
<1>2. /\ OnlyReceipt(s) /\ receipt' \in ReceiptTable
      /\ \/ /\ AtAttempt(s, worker[w].token)
            /\ receipt'[s].state = receipt[s].state /\ receipt'[s].token = receipt[s].token
            /\ receipt'[s].attempts = receipt[s].attempts
            /\ receipt'[s].next = receipt[s].next
            /\ receipt'[s].authorized = FALSE /\ receipt'[s].ambiguous = ambiguous
         \/ ~AtAttempt(s, worker[w].token) /\ receipt' = receipt
  <2>1. ambiguous \in BOOLEAN
    BY <1>1 DEF Receipts
  <2>2. CASE AtAttempt(s, worker[w].token)
    <3>1. receipt' = [receipt EXCEPT ![s] =
                       [@ EXCEPT !.authorized = FALSE, !.ambiguous = ambiguous]]
      BY <2>2 DEF Settle
    <3> HIDE DEF ambiguous
    <3> QED
      BY <1>1, <2>1, <2>2, <3>1, Rows, Settles DEF OnlyReceipt
  <2>3. CASE ~AtAttempt(s, worker[w].token)
    <3>1. receipt' = receipt
      BY <2>3 DEF Settle
    <3> QED
      BY <2>3, <3>1, Rows DEF Tables, OnlyReceipt
  <2> QED
    BY <2>2, <2>3
<1>3. /\ worker' \in WorkerTable /\ Alone(w)
      /\ \/ Idles(w)
         \/ worker[w].answer = "auth" /\ GoesOn(w, "mark")
         \/ GoesOn(w, "fail")
  <2> DEFINE next == AfterFailure(worker[w].answer)
  <2>1. /\ next \in {"mark", "fail", "idle"} /\ next \in WorkerSteps
        /\ next = "mark" => worker[w].answer = "auth"
    BY DEF AfterFailure, WorkerSteps
  <2>2. IF w \in lane /\ next # "idle" THEN Goto(w, next) ELSE Free(w)
    BY DEF Settle
  <2> HIDE DEF next
  <2>3. CASE w \in lane /\ next # "idle"
    <3>1. worker' \in WorkerTable /\ Alone(w) /\ GoesOn(w, next)
      BY <2>1, <2>2, <2>3, Rows, GoesTo
    <3> QED
      BY <2>1, <2>3, <3>1
  <2>4. CASE ~(w \in lane /\ next # "idle")
    BY <2>2, <2>4, Rows, Frees
  <2> QED
    BY <2>3, <2>4
<1> QED
  BY <1>1, <1>2, <1>3

LEMMA MarkDoes ==
    ASSUME TypeInv, NEW w \in Workers, Mark(w)
    PROVE  worker' \in WorkerTable /\ Alone(w) /\ worker[w].pc = "mark" /\ GoesOn(w, "fail")
BY Rows, GoesTo DEF Mark, WorkerSteps

LEMMA FailDoes ==
    ASSUME TypeInv, NEW w \in Workers, Fail(w)
    PROVE  LET s == worker[w].search
               state == FailureState(w)
               wait == IF state = "retry_scheduled" THEN RetryAfter ELSE 0 IN
           /\ receipt' \in ReceiptTable /\ worker' \in WorkerTable
           /\ Alone(w) /\ OnlyReceipt(s) /\ worker[w].pc = "fail"
           /\ misread' \subseteq Searches /\ misread \subseteq misread'
           /\ \/ /\ AtAttempt(s, worker[w].token) /\ notBefore' = [notBefore EXCEPT ![s] = wait]
                 /\ \E ambiguous \in BOOLEAN :
                      /\ Turns(s, state, ambiguous, wait)
                      /\ s \notin misread' /\ receipt[s].ambiguous => ambiguous
                      /\ worker[w].answer = "transport" => ambiguous
                 /\ Idles(w) \/ Persists(w, state)
              \/ /\ ~AtAttempt(s, worker[w].token) /\ notBefore' = notBefore
                 /\ receipt' = receipt
                 /\ Idles(w) \/ Persists(w, receipt[s].state)
<1> DEFINE s == worker[w].search
           state == FailureState(w)
           wait == IF state = "retry_scheduled" THEN RetryAfter ELSE 0
<1>1. s \in Searches /\ receipt[s] \in Receipts /\ worker[w].pc = "fail"
  BY Rows DEF Fail
<1>2. state \in ReceiptStates /\ wait \in Nat
  BY DEF FailureState, ReceiptStates, TerminalStates
<1> HIDE DEF state, wait
<1>3. PICK read \in BOOLEAN :
        /\ IF read THEN UNCHANGED <<misread, used>> ELSE misread' = misread \cup {s}
        /\ IF AtAttempt(s, worker[w].token)
           THEN Transition(s, state,
                           (read /\ receipt[s].ambiguous) \/ worker[w].answer = "transport", wait)
           ELSE receipt' = receipt
        /\ Free(w) \/ Report(w, receipt'[s])
  BY Zenon DEF Fail, state, wait
<1>4. misread' \subseteq Searches /\ misread \subseteq misread' /\ (s \in misread' \/ read)
  BY <1>1, <1>3 DEF TypeInv, Others
<1>5. CASE AtAttempt(s, worker[w].token)
  <2> DEFINE ambiguous == (read /\ receipt[s].ambiguous) \/ worker[w].answer = "transport"
  <2>1. Transition(s, state, ambiguous, wait)
    BY <1>3, <1>5
  <2>2. ambiguous \in BOOLEAN
    OBVIOUS
  <2>3. /\ s \notin misread' /\ receipt[s].ambiguous => ambiguous
        /\ worker[w].answer = "transport" => ambiguous
    BY <1>4
  <2> HIDE DEF ambiguous
  <2>4. /\ receipt' \in ReceiptTable /\ OnlyReceipt(s) /\ receipt'[s] \in Receipts
        /\ Turns(s, state, ambiguous, wait)
    BY <1>1, <1>2, <2>1, <2>2, Rows, Transitioned
  <2>5. worker' \in WorkerTable /\ Alone(w) /\ (Idles(w) \/ Persists(w, receipt'[s].state))
    BY <1>3, <2>4, Rows, Frees, Reports
  <2>6. receipt'[s].state = state
    BY <2>4 DEF Turns
  <2>7. notBefore' = [notBefore EXCEPT ![s] = wait]
    BY <1>5 DEF Fail, wait, state
  <2> QED
    BY <1>1, <1>4, <1>5, <2>2, <2>3, <2>4, <2>5, <2>6, <2>7 DEF state, wait
<1>6. CASE ~AtAttempt(s, worker[w].token)
  <2>1. receipt' = receipt
    BY <1>3, <1>6
  <2>2. notBefore' = notBefore
    BY <1>6 DEF Fail
  <2>3. receipt'[s] = receipt[s] /\ receipt'[s] \in Receipts
    BY <1>1, <2>1
  <2>4. worker' \in WorkerTable /\ Alone(w) /\ (Idles(w) \/ Persists(w, receipt'[s].state))
    BY <1>3, <2>3, Rows, Frees, Reports
  <2> QED
    BY <1>1, <1>4, <1>6, <2>1, <2>2, <2>3, <2>4, Rows DEF Tables, OnlyReceipt
<1> QED
  BY <1>5, <1>6

JobEnd(state) ==
    CASE state = "completed" -> "completed"
      [] state \in {"dead_letter", "revoked"} -> "failed"
      [] OTHER -> "pending"

LEMMA PersistDoes ==
    ASSUME TypeInv, NEW w \in Workers, Persist(w)
    PROVE  LET s == worker[w].search IN
           /\ job' \in JobTable /\ worker' \in WorkerTable
           /\ Alone(w) /\ OnlyJob(s) /\ worker[w].pc = "persist" /\ Idles(w)
           /\ \/ /\ HoldsJob(s, worker[w].token)
                 /\ job'[s].status = JobEnd(worker[w].result) /\ job'[s].token = NoToken
              \/ ~HoldsJob(s, worker[w].token) /\ job' = job
<1> DEFINE s == worker[w].search
           status == JobEnd(worker[w].result)
<1>1. s \in Searches /\ worker[w].wait \in Nat /\ worker[w].pc = "persist"
  BY Rows DEF Persist, WorkerStates
<1>2. worker' \in WorkerTable /\ Alone(w) /\ Idles(w)
  BY Rows, Frees DEF Persist
<1>3. status \in {"none", "pending", "running", "completed", "failed"}
  BY DEF JobEnd
<1>4. CASE HoldsJob(s, worker[w].token)
  <2>1. job' = [job EXCEPT ![s] = [NoJob EXCEPT !.status = status, !.wait = worker[w].wait]]
    BY <1>4 DEF Persist, JobEnd
  <2> HIDE DEF status
  <2>2. /\ job' \in JobTable /\ job'[s].status = status /\ job'[s].token = NoToken
        /\ OnlyJob(s)
    BY <1>1, <1>3, <2>1, Rows, JobBecomes DEF OnlyJob
  <2> QED
    BY <1>1, <1>2, <1>4, <2>2 DEF status
<1>5. CASE ~HoldsJob(s, worker[w].token)
  <2>1. job' = job
    BY <1>5 DEF Persist
  <2> QED
    BY <1>1, <1>2, <1>5, <2>1, Rows DEF Tables, OnlyJob
<1> QED
  BY <1>4, <1>5

LEMMA CrashDoes ==
    ASSUME TypeInv, NEW w \in Workers, Crash(w)
    PROVE  /\ worker' \in WorkerTable /\ Alone(w) /\ Idles(w) /\ Release(w)
           /\ lost' = IF worker[w].pc \in {"call", "complete", "settle"}
                      THEN lost \cup {worker[w].search}
                      ELSE lost
BY Rows, Frees DEF Crash

LEMMA FaultType ==
    ASSUME TypeInv, Fault
    PROVE  used' \in [faults : Nat, denials : Nat, misreads : Nat]
BY DEF TypeInv, Others, Fault

LEMMA ReleaseType ==
    ASSUME Others, NEW w, Release(w)
    PROVE  lane' \subseteq Workers /\ laneIdle' \in 0 .. LaneIdle
BY DEF Others, Release
-------------------------------------------------------------------------------
(* Types *)

LEMMA SearchTypes ==
    ASSUME TypeInv, NEW s \in Searches, Search(s)
    PROVE  TypeInv'
<1>1. Tables'
  BY Rows, IsAskedFor DEF Search, Tables
<1>2. Others'
  BY Rows, IsAskedFor DEF Search, TypeInv, Others, history
<1>3. Counted'
  BY Rows, IsAskedFor DEF Search, TypeInv, Counted, Turns, OnlyReceipt
<1> QED
  BY <1>1, <1>2, <1>3 DEF TypeInv

LEMMA RevokeTypes ==
    ASSUME TypeInv, NEW s \in Searches, Revoke(s)
    PROVE  TypeInv'
<1>1. Tables'
  BY Rows, RevokeDoes DEF Revoke, Tables
<1>2. Others'
  BY Rows, RevokeDoes DEF Revoke, TypeInv, Others, history
<1>3. Counted'
  BY Rows, RevokeDoes DEF Revoke, TypeInv, Counted, Turns, OnlyReceipt
<1> QED
  BY <1>1, <1>2, <1>3 DEF TypeInv

LEMMA ReplaceKeyTypes ==
    ASSUME TypeInv, NEW e \in Employees, ReplaceKey(e)
    PROVE  TypeInv'
<1>1. Tables'
  BY Rows, KeyReplaced DEF ReplaceKey, Tables
<1>2. Others'
  BY Rows, KeyReplaced DEF ReplaceKey, TypeInv, Others, history
<1>3. Counted'
  BY Rows, KeyReplaced DEF ReplaceKey, TypeInv, Counted, Turns, OnlyReceipt
<1> QED
  BY <1>1, <1>2, <1>3 DEF TypeInv

LEMMA DisconnectTypes ==
    ASSUME TypeInv, NEW e \in Employees, Disconnect(e)
    PROVE  TypeInv'
<1>1. Tables'
  BY Rows, KeyDisconnected DEF Disconnect, Tables
<1>2. Others'
  BY Rows, KeyDisconnected DEF Disconnect, TypeInv, Others, history
<1>3. Counted'
  BY Rows, KeyDisconnected DEF Disconnect, TypeInv, Counted, Turns, OnlyReceipt
<1> QED
  BY <1>1, <1>2, <1>3 DEF TypeInv

LEMMA DenyTypes ==
    ASSUME TypeInv, NEW e \in Employees, Deny(e)
    PROVE  TypeInv'
<1>1. Tables'
  BY Rows DEF Deny, Tables
<1>2. Others'
  BY Rows DEF Deny, TypeInv, Others, history
<1>3. Counted'
  BY Rows DEF Deny, TypeInv, Counted, Turns, OnlyReceipt
<1> QED
  BY <1>1, <1>2, <1>3 DEF TypeInv

LEMMA GrantTypes ==
    ASSUME TypeInv, NEW e \in Employees, Grant(e)
    PROVE  TypeInv'
<1>1. Tables'
  BY Rows DEF Grant, Tables
<1>2. Others'
  BY Rows DEF Grant, TypeInv, Others, history
<1>3. Counted'
  BY Rows DEF Grant, TypeInv, Counted, Turns, OnlyReceipt
<1> QED
  BY <1>1, <1>2, <1>3 DEF TypeInv

LEMMA ClaimTypes ==
    ASSUME TypeInv, NEW w \in Workers, NEW s \in Searches, Claim(w, s)
    PROVE  TypeInv'
<1>1. Tables'
  BY Rows, Claims DEF Claim, Tables
<1>2. Others'
  BY Rows, Claims DEF Claim, TypeInv, Others, history
<1>3. Counted'
  BY Rows, Claims DEF Claim, TypeInv, Counted, Turns, OnlyReceipt
<1> QED
  BY <1>1, <1>2, <1>3 DEF TypeInv

LEMMA RepairTypes ==
    ASSUME TypeInv, NEW w \in Workers, Repair(w)
    PROVE  TypeInv'
<1>1. Tables'
  BY Rows, RepairDoes DEF Repair, Tables
<1>2. Others'
  BY Rows, RepairDoes DEF Repair, TypeInv, Others, history
<1>3. Counted'
  BY Rows, RepairDoes DEF Repair, TypeInv, Counted, Turns, OnlyReceipt
<1> QED
  BY <1>1, <1>2, <1>3 DEF TypeInv

LEMMA RecoverTypes ==
    ASSUME TypeInv, NEW w \in Workers, Recover(w)
    PROVE  TypeInv'
<1>1. Tables'
  BY Rows, RecoverDoes DEF Recover, Tables
<1>2. Others'
  BY Rows, RecoverDoes DEF Recover, TypeInv, Others, history
<1>3. Counted'
  <2>1. \/ receipt' = receipt
        \/ /\ OnlyReceipt(worker[w].search)
           /\ receipt'[worker[w].search].state # "processing"
    BY RecoverDoes DEF Turns
  <2> QED
    BY <2>1, Rows, CountedStays
<1> QED
  BY <1>1, <1>2, <1>3 DEF TypeInv

LEMMA CheckActorTypes ==
    ASSUME TypeInv, NEW w \in Workers, CheckActor(w)
    PROVE  TypeInv'
<1>1. Tables'
  BY Rows, CheckActorDoes DEF CheckActor, Tables
<1>2. Others'
  BY Rows, CheckActorDoes DEF CheckActor, TypeInv, Others, history
<1>3. Counted'
  BY Rows, CheckActorDoes DEF CheckActor, TypeInv, Counted, Turns, OnlyReceipt
<1> QED
  BY <1>1, <1>2, <1>3 DEF TypeInv

LEMMA BeginTypes ==
    ASSUME TypeInv, NEW w \in Workers, Begin(w)
    PROVE  TypeInv'
<1>1. Tables'
  BY Rows, BeginDoes DEF Begin, Tables
<1>2. Others'
  BY ZenonT(60), Rows, BeginDoes DEF Begin, TypeInv, Others, history
<1>3. Counted'
  <2>1. receipt[worker[w].search].attempts \in Nat
    BY Rows DEF Receipts
  <2>2. \A s \in Searches : s # worker[w].search => receipt'[s] = receipt[s]
    BY BeginDoes DEF OnlyReceipt
  <2>3. LET s == worker[w].search IN
        receipt'[s].state = "processing" =>
          receipt'[s].attempts = receipt[s].attempts + 1 \/ receipt'[s] = receipt[s]
    BY BeginDoes DEF Turns
  <2> QED
    BY <2>1, <2>2, <2>3 DEF TypeInv, Counted
<1> QED
  BY <1>1, <1>2, <1>3 DEF TypeInv

LEMMA ConfigureTypes ==
    ASSUME TypeInv, NEW w \in Workers, Configure(w)
    PROVE  TypeInv'
<1>1. Tables'
  BY Rows, Configures DEF Configure, Tables
<1>2. Others'
  BY Rows, Configures DEF Configure, TypeInv, Others, history
<1>3. Counted'
  BY Rows, Configures DEF Configure, TypeInv, Counted, Turns, OnlyReceipt
<1> QED
  BY <1>1, <1>2, <1>3 DEF TypeInv

LEMMA LockTypes ==
    ASSUME TypeInv, NEW w \in Workers, Lock(w)
    PROVE  TypeInv'
<1>1. Tables'
  BY Rows, LockDoes DEF Lock, Tables
<1>2. Others'
  BY Rows, LockDoes DEF Lock, TypeInv, Others, history
<1>3. Counted'
  BY Rows, LockDoes DEF Lock, TypeInv, Counted, Turns, OnlyReceipt
<1> QED
  BY <1>1, <1>2, <1>3 DEF TypeInv

LEMMA LockBusyTypes ==
    ASSUME TypeInv, NEW w \in Workers, LockBusy(w)
    PROVE  TypeInv'
<1>1. Tables'
  BY Rows, LockBusyDoes DEF LockBusy, Tables
<1>2. Others'
  <2>1. used' \in [faults : Nat, denials : Nat, misreads : Nat]
    BY FaultType DEF LockBusy, TypeInv, Others
  <2> QED
    BY <2>1 DEF LockBusy, TypeInv, Others, history
<1>3. Counted'
  BY Rows, LockBusyDoes DEF LockBusy, TypeInv, Counted, Turns, OnlyReceipt
<1> QED
  BY <1>1, <1>2, <1>3 DEF TypeInv

LEMMA RelinquishTypes ==
    ASSUME TypeInv, NEW w \in Workers, Relinquish(w)
    PROVE  TypeInv'
<1>1. Tables'
  BY Rows, RelinquishDoes DEF Relinquish, Tables
<1>2. Others'
  BY Rows, RelinquishDoes DEF Relinquish, TypeInv, Others, history
<1>3. Counted'
  <2>1. \/ receipt' = receipt
        \/ /\ OnlyReceipt(worker[w].search)
           /\ receipt'[worker[w].search].state # "processing"
    BY RelinquishDoes DEF Turns
  <2> QED
    BY <2>1, Rows, CountedStays
<1> QED
  BY <1>1, <1>2, <1>3 DEF TypeInv

LEMMA FenceTypes ==
    ASSUME TypeInv, NEW w \in Workers, Fence(w)
    PROVE  TypeInv'
<1>1. Tables'
  BY Rows, FenceDoes DEF Fence, Tables
<1>2. Others'
  BY Rows, FenceDoes, ReleaseType DEF Fence, TypeInv, Others, history
<1>3. Counted'
  BY Rows, FenceDoes DEF TypeInv, Counted, Turns, OnlyReceipt
<1> QED
  BY <1>1, <1>2, <1>3 DEF TypeInv

LEMMA StartCallTypes ==
    ASSUME TypeInv, NEW w \in Workers, StartCall(w)
    PROVE  TypeInv'
<1>1. Tables'
  BY Rows, StartCallDoes DEF StartCall, Tables
<1>2. Others'
  <2>1. laneIdle' \in 0 .. LaneIdle
    BY StartCallDoes DEF TypeInv, Others
  <2> QED
    BY <2>1 DEF StartCall, TypeInv, Others, history
<1>3. Counted'
  BY Rows, StartCallDoes DEF StartCall, TypeInv, Counted, Turns, OnlyReceipt
<1> QED
  BY <1>1, <1>2, <1>3 DEF TypeInv

LEMMA RespondTypes ==
    ASSUME TypeInv, NEW w \in Workers, Respond(w)
    PROVE  TypeInv'
<1>1. Tables'
  BY Rows, RespondDoes DEF Respond, Tables
<1>2. Others'
  <2>1. Owner[worker[w].search] \in Employees /\ worker[w].cred \in Nat
    BY Rows DEF WorkerStates
  <2>2. rejected' \subseteq Employees \X Nat /\ lost' \subseteq Searches
    BY <2>1, Rows, RespondDoes DEF TypeInv, Others
  <2> QED
    BY <2>2 DEF Respond, TypeInv, Others
<1>3. Counted'
  BY Rows, RespondDoes DEF Respond, TypeInv, Counted, Turns, OnlyReceipt
<1> QED
  BY <1>1, <1>2, <1>3 DEF TypeInv

LEMMA CompleteTypes ==
    ASSUME TypeInv, NEW w \in Workers, Complete(w)
    PROVE  TypeInv'
<1>1. Tables'
  BY Rows, CompleteDoes DEF Complete, Tables
<1>2. Others'
  BY Rows, CompleteDoes, ReleaseType DEF Complete, TypeInv, Others, history
<1>3. Counted'
  <2>1. \/ receipt' = receipt
        \/ /\ OnlyReceipt(worker[w].search)
           /\ receipt'[worker[w].search].state # "processing"
    BY CompleteDoes DEF Turns
  <2> QED
    BY <2>1, Rows, CountedStays
<1> QED
  BY <1>1, <1>2, <1>3 DEF TypeInv

LEMMA ImportTypes ==
    ASSUME TypeInv, NEW w \in Workers, Import(w)
    PROVE  TypeInv'
<1>1. Tables'
  BY Rows, ImportDoes DEF Import, Tables
<1>2. Others'
  BY Rows, ImportDoes, ReleaseType DEF Import, TypeInv, Others, history
<1>3. Counted'
  BY Rows, ImportDoes DEF Import, TypeInv, Counted, Turns, OnlyReceipt
<1> QED
  BY <1>1, <1>2, <1>3 DEF TypeInv

LEMMA SettleTypes ==
    ASSUME TypeInv, NEW w \in Workers, Settle(w)
    PROVE  TypeInv'
<1>1. Tables'
  BY Rows, SettleDoes DEF Settle, Tables
<1>2. Others'
  BY Rows, SettleDoes, ReleaseType DEF Settle, TypeInv, Others, history
<1>3. Counted'
  <2>1. \A s \in Searches : /\ receipt'[s].state = receipt[s].state
                            /\ receipt'[s].attempts = receipt[s].attempts
    BY SettleDoes DEF OnlyReceipt
  <2> QED
    BY <2>1 DEF TypeInv, Counted
<1> QED
  BY <1>1, <1>2, <1>3 DEF TypeInv

LEMMA MarkTypes ==
    ASSUME TypeInv, NEW w \in Workers, Mark(w)
    PROVE  TypeInv'
<1>1. Tables'
  BY Rows, MarkDoes, Marks DEF Mark, Tables
<1>2. Others'
  BY Rows, MarkDoes, Marks DEF Mark, TypeInv, Others, history
<1>3. Counted'
  BY Rows, MarkDoes, Marks DEF Mark, TypeInv, Counted, Turns, OnlyReceipt
<1> QED
  BY <1>1, <1>2, <1>3 DEF TypeInv

LEMMA FailTypes ==
    ASSUME TypeInv, NEW w \in Workers, Fail(w)
    PROVE  TypeInv'
<1>1. Tables'
  BY Rows, FailDoes DEF Fail, Tables
<1>2. Others'
  BY Rows, FailDoes DEF Fail, TypeInv, Others, history
<1>3. Counted'
  <2>1. FailureState(w) # "processing"
    BY DEF FailureState
  <2> QED
    BY <2>1, Rows, FailDoes DEF TypeInv, Counted, Turns, OnlyReceipt
<1> QED
  BY <1>1, <1>2, <1>3 DEF TypeInv

LEMMA PersistTypes ==
    ASSUME TypeInv, NEW w \in Workers, Persist(w)
    PROVE  TypeInv'
<1>1. Tables'
  BY Rows, PersistDoes DEF Persist, Tables
<1>2. Others'
  BY Rows, PersistDoes DEF Persist, TypeInv, Others, history
<1>3. Counted'
  BY Rows, PersistDoes DEF Persist, TypeInv, Counted, Turns, OnlyReceipt
<1> QED
  BY <1>1, <1>2, <1>3 DEF TypeInv

LEMMA CrashTypes ==
    ASSUME TypeInv, NEW w \in Workers, Crash(w)
    PROVE  TypeInv'
<1>1. Tables'
  BY Rows, CrashDoes DEF Crash, Tables
<1>2. Others'
  <2>1. lost' \subseteq Searches
    BY Rows, CrashDoes DEF TypeInv, Others
  <2>2. lane' \subseteq Workers /\ laneIdle' \in 0 .. LaneIdle
    BY CrashDoes, ReleaseType DEF TypeInv
  <2>3. used' \in [faults : Nat, denials : Nat, misreads : Nat]
    BY FaultType DEF Crash
  <2> QED
    BY <2>1, <2>2, <2>3 DEF Crash, TypeInv, Others
<1>3. Counted'
  BY Rows, CrashDoes DEF Crash, TypeInv, Counted, Turns, OnlyReceipt
<1> QED
  BY <1>1, <1>2, <1>3 DEF TypeInv

LEMMA LoseLaneTypes ==
    ASSUME TypeInv, LoseLane
    PROVE  TypeInv'
<1>1. Tables'
  BY Rows DEF LoseLane, Tables
<1>2. Others'
  BY Rows DEF LoseLane, Fault, TypeInv, Others, history
<1>3. Counted'
  BY Rows DEF LoseLane, TypeInv, Counted
<1> QED
  BY <1>1, <1>2, <1>3 DEF TypeInv

LEMMA TickTypes ==
    ASSUME TypeInv, Tick
    PROVE  TypeInv'
<1>1. Tables'
  BY Rows, Ticks DEF Tick, Tables
<1>2. Others'
  <2>1. laneIdle' \in 0 .. LaneIdle
    BY LessType DEF Tick, TypeInv, Others
  <2>2. notBefore' \in [Searches -> Nat]
    <3>1. \A n \in Nat : Less(n) \in Nat
      BY DEF Less
    <3>2. notBefore' = [s \in Searches |-> Less(notBefore[s])]
      BY DEF Tick
    <3>3. notBefore \in [Searches -> Nat]
      BY DEF TypeInv, Others
    <3> QED
      BY <3>1, <3>2, <3>3
  <2>3. lane' \subseteq Workers
    BY DEF Tick, TypeInv, Others
  <2> QED
    BY <2>1, <2>2, <2>3 DEF Tick, TypeInv, Others
<1>3. Counted'
  BY Rows, Ticks DEF TypeInv, Counted
<1> QED
  BY <1>1, <1>2, <1>3 DEF TypeInv

LEMMA TypeStep ==
    ASSUME TypeInv, [Next]_vars
    PROVE  TypeInv'
<1>1. ASSUME NEW s \in Searches, Search(s) \/ Revoke(s)
      PROVE  TypeInv'
  BY <1>1, SearchTypes, RevokeTypes
<1>2. ASSUME NEW e \in Employees, ReplaceKey(e) \/ Disconnect(e) \/ Deny(e) \/ Grant(e)
      PROVE  TypeInv'
  BY <1>2, ReplaceKeyTypes, DisconnectTypes, DenyTypes, GrantTypes
<1>3. CASE ClaimSome
  BY <1>3, ClaimTypes DEF ClaimSome
<1>4. ASSUME NEW w \in Workers, Step(w)
      PROVE  TypeInv'
  BY <1>4, RepairTypes, RecoverTypes, CheckActorTypes, BeginTypes, ConfigureTypes, LockTypes,
     RelinquishTypes, FenceTypes, StartCallTypes, RespondTypes, CompleteTypes, ImportTypes,
     SettleTypes, MarkTypes, FailTypes, PersistTypes DEF Step
<1>5. ASSUME NEW w \in Workers, LockBusy(w) \/ Crash(w)
      PROVE  TypeInv'
  BY <1>5, LockBusyTypes, CrashTypes
<1>6. CASE LoseLane \/ Tick
  BY <1>6, LoseLaneTypes, TickTypes
<1>7. CASE UNCHANGED vars
  BY <1>7 DEF vars, rows, history, TypeInv, Tables, Others, Counted
<1> QED
  BY <1>1, <1>2, <1>3, <1>4, <1>5, <1>6, <1>7 DEF Next

LEMMA TypeInit ==
    ASSUME Init
    PROVE  TypeInv
<1>1. Tables
  BY ConstantTypes DEF Init, Tables, ReceiptTable, JobTable, WorkerTable, KeyTable, Keys
<1>2. Others
  BY DEF Init, Others
<1>3. Counted
  BY DEF Init, Counted, NoReceipt
<1> QED
  BY <1>1, <1>2, <1>3 DEF TypeInv

\* Rows, workers and counters keep their types, and a receipt in processing has
\* counted its attempt, so that giving it back cannot go below zero.
THEOREM Typed == Spec => []TypeInv
<1>1. Init => TypeInv
  BY TypeInit
<1>2. TypeInv /\ [Next]_vars => TypeInv'
  BY TypeStep
<1> QED
  BY <1>1, <1>2, PTL DEF Spec

\* Every row has the columns the schema gives it, and every attempt is within the
\* limit, whatever is claimed, returned, recovered or lost on the way.
THEOREM TypeCorrect == Spec => []TypeOK
<1>1. TypeInv => TypeOK
  BY DEF TypeInv, Tables, Others, TypeOK, ReceiptTable, JobTable, WorkerTable, KeyTable, Keys
<1> QED
  BY <1>1, Typed, PTL
-------------------------------------------------------------------------------
(* Who writes what *)

\* What only a few actions write.
FewWrite ==
    /\ \/ connection' = connection
       \/ \E e \in Employees : ReplaceKey(e) \/ Disconnect(e)
       \/ \E w \in Workers : Mark(w)
    /\ rejected' = rejected \/ \E w \in Workers : Respond(w)
    /\ imported' = imported \/ \E w \in Workers : Repair(w) \/ Import(w)
    /\ lost' = lost \/ \E w \in Workers : Crash(w) \/ Respond(w)
    /\ \/ (used' = used \/ Fault) /\ misread' = misread /\ entitled' = entitled
       \/ \E e \in Employees : Deny(e) \/ Grant(e)
       \/ \E w \in Workers : Fail(w)

LEMMA CommandWrites ==
    ASSUME \/ \E s \in Searches : Search(s) \/ Revoke(s)
           \/ \E e \in Employees : ReplaceKey(e) \/ Disconnect(e) \/ Deny(e) \/ Grant(e)
    PROVE  FewWrite
<1>1. CASE \E s \in Searches : Search(s) \/ Revoke(s)
  BY <1>1 DEF Search, Revoke, FewWrite, history
<1>2. CASE \E e \in Employees : ReplaceKey(e) \/ Disconnect(e)
  BY <1>2 DEF ReplaceKey, Disconnect, FewWrite, history
<1>3. CASE \E e \in Employees : Deny(e) \/ Grant(e)
  BY <1>3 DEF Deny, Grant, FewWrite, history
<1> QED
  BY <1>1, <1>2, <1>3

LEMMA WorkerWrites ==
    ASSUME NEW w \in Workers, Step(w) \/ LockBusy(w) \/ Crash(w)
    PROVE  FewWrite
<1>1. CASE Repair(w)
  BY <1>1 DEF Repair, FewWrite, history
<1>2. CASE Recover(w) \/ CheckActor(w) \/ Begin(w)
  BY <1>2 DEF Recover, CheckActor, Begin, FewWrite, history
<1>3. CASE Configure(w) \/ Lock(w) \/ LockBusy(w)
  BY <1>3 DEF Configure, Lock, LockBusy, FewWrite, history
<1>4. CASE Relinquish(w) \/ Fence(w) \/ StartCall(w)
  BY <1>4 DEF Relinquish, Fence, StartCall, FewWrite, history
<1>5. CASE Respond(w) \/ Crash(w)
  BY <1>5 DEF Respond, Crash, FewWrite, history
<1>6. CASE Complete(w) \/ Import(w)
  BY <1>6 DEF Complete, Import, FewWrite, history
<1>7. CASE Settle(w) \/ Persist(w)
  BY <1>7 DEF Settle, Persist, FewWrite, history
<1>8. CASE Mark(w)
  BY <1>8 DEF Mark, FewWrite, history
<1>9. CASE Fail(w)
  BY <1>9 DEF Fail, FewWrite, history
<1> QED
  BY <1>1, <1>2, <1>3, <1>4, <1>5, <1>6, <1>7, <1>8, <1>9 DEF Step

LEMMA Writers ==
    ASSUME [Next]_vars
    PROVE  FewWrite
<1>1. CASE ClaimSome
  BY <1>1 DEF ClaimSome, Claim, FewWrite, history
<1>2. CASE LoseLane \/ Tick
  BY <1>2 DEF LoseLane, Tick, FewWrite, history
<1>3. CASE UNCHANGED vars
  BY <1>3 DEF FewWrite, vars, rows, history
<1> QED
  BY <1>1, <1>2, <1>3, CommandWrites, WorkerWrites DEF Next
=============================================================================
