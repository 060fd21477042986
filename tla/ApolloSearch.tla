---------------------------- MODULE ApolloSearch ----------------------------
(***************************************************************************)
(* The free Apollo people search: a request leaves a receipt and a         *)
(* scheduled job, and the workers (the cron and the Inngest function)      *)
(* claim one job at a time, authorise the call under a PostgreSQL advisory *)
(* lock (the lane), call Apollo and record the outcome.  Owners revoke     *)
(* searches, lose their role and replace or disconnect their API key at    *)
(* any time, and workers stall, die and lose the lane's database session.  *)
(*                                                                         *)
(* Deadlines are the time that is left of them and Tick counts them down,  *)
(* so that time is unbounded and the states are finitely many.             *)
(***************************************************************************)
EXTENDS Integers, FiniteSets

CONSTANTS
    Searches, Workers, Employees,
    Owner,           \* the employee who asked for a search
    NativeSearches,  \* those asked by the native assistant: nativeOs
    MaxAttempts,     \* APOLLO_PEOPLE_SEARCH_MAX_ATTEMPTS
    Lease,           \* APOLLO_PROVIDER_LEASE_MS
    LaneIdle,        \* idle_in_transaction_session_timeout of the lane
    CallLimit,       \* the time limit of the request to Apollo
    BusyRetry,       \* APOLLO_PROVIDER_BUSY_RETRY_MS
    RetryAfter,      \* what a failed call asks to wait
    NumTokens,       \* attempt tokens, used again once nothing holds them
    MaxCredentials,  \* bound: keys an employee enters
    MaxDenials,      \* bound: times an employee loses the role or the feature
    MaxFaults,       \* bound: crashes, lost sessions, busy locks
    MaxMisreads      \* bound: failed reads of the receipt in the failure path

\* A call authorised under a lease ends before the lease: the lane's session
\* bounds the time from the authorisation to the call, the limit the call's.
ASSUME ApolloAssumption ==
    /\ IsFiniteSet(Workers) /\ Searches # {}
    /\ Owner \in [Searches -> Employees]
    /\ NativeSearches \subseteq Searches
    /\ {MaxAttempts, Lease, NumTokens} \subseteq Nat \ {0}
    /\ {LaneIdle, CallLimit, BusyRetry, RetryAfter} \subseteq Nat
    /\ {MaxCredentials, MaxDenials, MaxFaults, MaxMisreads} \subseteq Nat
    /\ LaneIdle + CallLimit < Lease

VARIABLES
    receipt,     \* integration_inbox rows
    job,         \* scheduled_job rows
    worker,      \* the workers' progress through runApolloPeopleSearchQueuedJob
    lane,        \* the worker that holds the advisory lock, if any
    laneIdle,    \* what is left of the lane session's idle timeout
    connection,  \* connection_account rows of the toolkit apollo, and their key
    entitled,    \* employees who are active, in a Sales role and have the CRM
    imported,    \* searches whose candidates are in the CRM
    rejected,    \* keys Apollo refused
    lost,        \* searches a call of which ended without an HTTP status
    misread,     \* searches a failure of which was handled without the receipt
    rushed,      \* searches an attempt of which began before its wait was over,
                 \* by a worker that had lost the job
    notBefore,   \* what is left of the wait the last failed call asked for
    used         \* how often each bounded event happened

rows == <<receipt, job, worker, lane, laneIdle, connection, entitled, imported>>
history == <<rejected, lost, misread, rushed, notBefore>>
vars == <<rows, history, used>>

-------------------------------------------------------------------------------
(* Rows *)

Tokens == 1 .. NumTokens
NoToken == 0

TerminalStates == {"completed", "dead_letter", "revoked"}
ReceiptStates == {"none", "retry_scheduled", "processing"} \cup TerminalStates

NoReceipt == [state |-> "none", attempts |-> 0, token |-> NoToken, lease |-> 0, next |-> 0,
              authorized |-> FALSE, ambiguous |-> FALSE, account |-> 0]

NoJob == [status |-> "none", token |-> NoToken, lease |-> 0, wait |-> 0]

\* doubt is the ambiguity of the receipt as the worker read it, was the attempt
\* it found there, result and wait what the worker will write to the job.
IdleWorker == [pc |-> "idle", search |-> CHOOSE s \in Searches : TRUE, token |-> NoToken,
               was |-> NoToken, lease |-> 0, doubt |-> FALSE, last |-> FALSE, cred |-> 0,
               timer |-> 0, answer |-> "none", result |-> "none", wait |-> 0]

Answers == {"ok", "http_retry", "http_final", "auth", "transport", "body_lost"}

Settled(s) == receipt[s].state \in TerminalStates

\* The receipt is at the attempt that token t began, and the job at the claim t.
AtAttempt(s, t) == receipt[s].state = "processing" /\ receipt[s].token = t
HoldsJob(s, t) == job[s].status = "running" /\ job[s].token = t

TokensInUse ==
    {job[s].token : s \in Searches} \cup {receipt[s].token : s \in Searches}
    \cup {worker[w].token : w \in Workers} \cup {worker[w].was : w \in Workers}

FreshToken == CHOOSE t \in Tokens : t \notin TokensInUse

Key(s) == connection[Owner[s]]

\* resolveOwnedIntegrationApiKey, and the fence's check of the same row
Connected(s) == Key(s).status = "connected" /\ Key(s).account = receipt[s].account

\* unsettledApolloProviderDispatchQuery
Unsettled == \E s \in Searches :
    job[s].status = "running" /\ (receipt[s].authorized \/ receipt[s].ambiguous)

\* Mutant: the result that replaces the old one lacks the time of the next attempt.
UndatedTransition(s, state, ambiguous, next) ==
    receipt' = [receipt EXCEPT ![s] =
                 [@ EXCEPT !.state = state, !.token = NoToken, !.lease = 0, !.next = 0,
                           !.authorized = FALSE, !.ambiguous = ambiguous]]

\* transitionIntegrationReceiptProgress: the token and the lease go, and the
\* result is replaced.
Transition(s, state, ambiguous, next) ==
    receipt' = [receipt EXCEPT ![s] =
                 [@ EXCEPT !.state = state, !.token = NoToken, !.lease = 0, !.next = next,
                           !.authorized = FALSE, !.ambiguous = ambiguous]]

Free(w) == worker' = [worker EXCEPT ![w] = IdleWorker]

Goto(w, pc) == worker' = [worker EXCEPT ![w].pc = pc]

\* The worker returns what it read of the receipt, to be written to the job.
Report(w, read) ==
    worker' = [worker EXCEPT ![w] =
                [IdleWorker EXCEPT !.pc = "persist", !.search = worker[w].search,
                                   !.token = worker[w].token,
                                   !.result = read.state, !.wait = read.next]]

Release(w) ==
    /\ lane' = lane \ {w}
    /\ laneIdle' = IF w \in lane THEN 0 ELSE laneIdle

\* The end of the dispatch commits the lane's transaction.  When its session
\* was lost the commit fails and the worker stops with an error nobody handles.
ReturnFromLane(w, read) ==
    /\ Release(w)
    /\ IF w \in lane THEN Report(w, read) ELSE Free(w)

Fault == used.faults < MaxFaults /\ used' = [used EXCEPT !.faults = @ + 1]

-------------------------------------------------------------------------------
(* Commands *)

\* searchApolloPeopleFree: the receipt and its job appear together.
Search(s) ==
    /\ receipt[s].state = "none"
    /\ Key(s).status = "connected"
    /\ receipt' = [receipt EXCEPT ![s] =
                    [NoReceipt EXCEPT !.state = "retry_scheduled", !.account = Key(s).account]]
    /\ job' = [job EXCEPT ![s] = [NoJob EXCEPT !.status = "pending"]]
    /\ UNCHANGED <<worker, lane, laneIdle, connection, entitled, imported, history, used>>

\* Mutant: a revocation also ends the running job.
RevokeEndsJob(s) ==
    /\ receipt[s].state \in {"retry_scheduled", "processing"}
    /\ Transition(s, "revoked", receipt[s].authorized \/ receipt[s].ambiguous, 0)
    /\ job' = [job EXCEPT ![s] = [NoJob EXCEPT !.status = "failed"]]
    /\ UNCHANGED <<worker, lane, laneIdle, connection, entitled, imported, history, used>>

\* revokeApolloPeopleSearch: a running job keeps the slot until its worker ends.
Revoke(s) ==
    /\ receipt[s].state \in {"retry_scheduled", "processing"}
    /\ Transition(s, "revoked", receipt[s].authorized \/ receipt[s].ambiguous, 0)
    /\ job' = IF job[s].status = "pending"
              THEN [job EXCEPT ![s] = [NoJob EXCEPT !.status = "failed"]]
              ELSE job
    /\ UNCHANGED <<worker, lane, laneIdle, connection, entitled, imported, history, used>>

\* persistGovernedApiKeyConnection
ReplaceKey(e) ==
    /\ lane = {}
    /\ ~Unsettled
    /\ connection[e].version < MaxCredentials
    /\ connection' = [connection EXCEPT ![e] =
                        [@ EXCEPT !.version = connection[e].version + 1,
                                  !.status = "connected",
                                  !.account = IF connection[e].account = 0
                                              THEN connection[e].version + 1
                                              ELSE connection[e].account]]
    /\ UNCHANGED <<receipt, job, worker, lane, laneIdle, entitled, imported, history, used>>

\* disconnectGovernedApiKeyConnection: the row goes, a later key gets another.
Disconnect(e) ==
    /\ lane = {}
    /\ ~Unsettled
    /\ connection[e].account # 0
    /\ connection' = [connection EXCEPT ![e] = [@ EXCEPT !.status = "none", !.account = 0]]
    /\ UNCHANGED <<receipt, job, worker, lane, laneIdle, entitled, imported, history, used>>

Deny(e) ==
    /\ e \in entitled
    /\ used.denials < MaxDenials
    /\ entitled' = entitled \ {e}
    /\ used' = [used EXCEPT !.denials = @ + 1]
    /\ UNCHANGED <<receipt, job, worker, lane, laneIdle, connection, imported, history>>

Grant(e) ==
    /\ e \notin entitled
    /\ entitled' = entitled \cup {e}
    /\ UNCHANGED <<receipt, job, worker, lane, laneIdle, connection, imported, history, used>>

-------------------------------------------------------------------------------
(* Claiming a job *)

SlotTaken(s) == \E r \in Searches \ {s} : job[r].status = "running"

\* Mutant: the claim does not look at the slot.
UnslottedClaimable(s) ==
    /\ lane = {}
    /\ job[s].wait = 0
    /\ \/ job[s].status = "pending"
       \/ /\ job[s].status = "running"
          /\ job[s].lease = 0
          /\ receipt[s].state = "processing" => receipt[s].lease = 0

\* Mutant: a running job is never claimed again.
UnrecoverableClaimable(s) ==
    /\ lane = {}
    /\ job[s].wait = 0
    /\ job[s].status = "pending"
    /\ ~SlotTaken(s)

\* A due job, or a running one whose leases, its own and its attempt's, have
\* lapsed, while nobody holds the lane and no other job the slot.
Claimable(s) ==
    /\ lane = {}
    /\ job[s].wait = 0
    /\ \/ job[s].status = "pending"
       \/ /\ job[s].status = "running"
          /\ job[s].lease = 0
          /\ receipt[s].state = "processing" => receipt[s].lease = 0
    /\ ~SlotTaken(s)

\* Mutant: a completed search is reported without a look at its import.
UnrepairedFirstStep(s) ==
    IF receipt[s].state = "processing" /\ receipt[s].lease = 0 THEN "recover"
    ELSE IF receipt[s].state = "retry_scheduled" /\ receipt[s].next = 0 THEN "check"
    ELSE "persist"

\* What runScheduledApolloPeopleSearch does first with the receipt it reads.
FirstStep(s) ==
    IF receipt[s].state = "completed" /\ s \in NativeSearches THEN "repair"
    ELSE IF receipt[s].state = "processing" /\ receipt[s].lease = 0 THEN "recover"
    ELSE IF receipt[s].state = "retry_scheduled" /\ receipt[s].next = 0 THEN "check"
    ELSE "persist"

\* The claim's transaction and the first read of the receipt, which is compared
\* with the claim's clock.
Claim(w, s) ==
    /\ worker[w].pc = "idle"
    /\ Claimable(s)
    /\ ~(Tokens \subseteq TokensInUse)
    /\ job' = [job EXCEPT ![s] = [@ EXCEPT !.status = "running", !.token = FreshToken,
                                           !.lease = Lease]]
    /\ worker' = [worker EXCEPT ![w] =
                    [IdleWorker EXCEPT
                       !.pc = FirstStep(s), !.search = s, !.token = FreshToken, !.lease = Lease,
                       !.was = IF FirstStep(s) = "recover" THEN receipt[s].token ELSE NoToken,
                       !.doubt = receipt[s].ambiguous \/ receipt[s].authorized,
                       !.result = IF FirstStep(s) = "check" THEN "none" ELSE receipt[s].state,
                       !.wait = IF FirstStep(s) = "check" THEN 0 ELSE receipt[s].next]]
    /\ UNCHANGED <<receipt, lane, laneIdle, connection, entitled, imported, history, used>>

\* A completed native search is imported again, in case its worker died before.
\* Without the owner's entitlement the import throws and the job keeps running.
Repair(w) ==
    LET s == worker[w].search IN
    /\ worker[w].pc = "repair"
    /\ IF Owner[s] \in entitled
       THEN imported' = imported \cup {s} /\ Goto(w, "persist")
       ELSE Free(w) /\ UNCHANGED imported
    /\ UNCHANGED <<receipt, job, lane, laneIdle, connection, entitled, history, used>>

\* Mutant: the recovery forgets that the lost attempt was authorised.
ForgetfulRecover(w) ==
    LET s == worker[w].search IN
    /\ worker[w].pc = "recover"
    /\ IF AtAttempt(s, worker[w].was)
       THEN Transition(s, "retry_scheduled", receipt[s].ambiguous, 0) /\ Goto(w, "check")
       ELSE Goto(w, "persist") /\ UNCHANGED receipt
    /\ UNCHANGED <<job, lane, laneIdle, connection, entitled, imported, history, used>>

\* An attempt whose lease lapsed is over; what an authorised call did is unknown.
Recover(w) ==
    LET s == worker[w].search IN
    /\ worker[w].pc = "recover"
    /\ IF AtAttempt(s, worker[w].was)
       THEN /\ Transition(s, "retry_scheduled", worker[w].doubt, 0)
            /\ worker' = [worker EXCEPT ![w] = [@ EXCEPT !.pc = "check", !.was = NoToken,
                                                         !.result = "none", !.wait = 0]]
       ELSE Goto(w, "persist") /\ UNCHANGED receipt
    /\ UNCHANGED <<job, lane, laneIdle, connection, entitled, imported, history, used>>

\* assertQueuedActorAuthorized.  The refusal writes what the receipt said when it
\* was read, to whatever waits for its next attempt now.  Any other error of the
\* check ends the worker with its lease left to lapse, as a crash does.
CheckActor(w) ==
    LET s == worker[w].search IN
    /\ worker[w].pc = "check"
    /\ IF Owner[s] \in entitled
       THEN Goto(w, "begin") /\ UNCHANGED receipt
       ELSE /\ IF receipt[s].state = "retry_scheduled"
               THEN Transition(s, "revoked", worker[w].doubt, 0)
               ELSE UNCHANGED receipt
            /\ Report(w, receipt'[s])
    /\ UNCHANGED <<job, lane, laneIdle, connection, entitled, imported, history, used>>

\* Mutant: the limit is off by one.
OneAttemptMore(s) == receipt[s].attempts <= MaxAttempts

AttemptLeft(s) == receipt[s].attempts < MaxAttempts

\* beginIntegrationReceiptAttempt, and its refusal.
Begin(w) ==
    LET s == worker[w].search IN
    /\ worker[w].pc = "begin"
    /\ \/ /\ receipt[s].state = "retry_scheduled"
          /\ AttemptLeft(s)
          /\ receipt' = [receipt EXCEPT ![s] =
                           [@ EXCEPT !.state = "processing", !.token = worker[w].token,
                                     !.lease = worker[w].lease,
                                     !.attempts = receipt[s].attempts + 1]]
          /\ worker' = [worker EXCEPT ![w] =
                          [@ EXCEPT !.pc = "configure", !.lease = 0,
                                    !.last = receipt'[s].attempts >= MaxAttempts]]
          /\ rushed' = IF notBefore[s] > 0 /\ ~HoldsJob(s, worker[w].token)
                       THEN rushed \cup {s}
                       ELSE rushed
       \/ /\ receipt[s].state = "retry_scheduled"
          /\ ~AttemptLeft(s)
          /\ Transition(s, "dead_letter", receipt[s].ambiguous, 0)
          /\ Report(w, receipt'[s])
          /\ UNCHANGED rushed
       \/ /\ receipt[s].state # "retry_scheduled"
          /\ Report(w, receipt[s])
          /\ UNCHANGED <<receipt, rushed>>
    /\ UNCHANGED <<job, lane, laneIdle, connection, entitled, imported, rejected, lost, misread,
                   notBefore, used>>

-------------------------------------------------------------------------------
(* The dispatch *)

\* configuredSource: the key of the account the search was asked under.
Configure(w) ==
    LET s == worker[w].search IN
    /\ worker[w].pc = "configure"
    /\ worker' = IF Connected(s)
                 THEN [worker EXCEPT ![w] = [@ EXCEPT !.pc = "lock", !.cred = Key(s).version]]
                 ELSE [worker EXCEPT ![w] = [@ EXCEPT !.pc = "fail", !.answer = "no_key"]]
    /\ UNCHANGED <<receipt, job, lane, laneIdle, connection, entitled, imported, history, used>>

Lock(w) ==
    /\ worker[w].pc = "lock"
    /\ lane = {}
    /\ lane' = {w}
    /\ laneIdle' = LaneIdle
    /\ Goto(w, "fence")
    /\ UNCHANGED <<receipt, job, connection, entitled, imported, history, used>>

\* The lock is taken: by another dispatch, or for the moment of a claim or of a
\* change of a key, which are single steps here.
LockBusy(w) ==
    /\ worker[w].pc = "lock"
    /\ IF lane = {} THEN Fault ELSE UNCHANGED used
    /\ Goto(w, "relinquish")
    /\ UNCHANGED <<receipt, job, lane, laneIdle, connection, entitled, imported, history>>

\* relinquishBusyProviderAttempt: the attempt is given back.
Relinquish(w) ==
    LET s == worker[w].search IN
    /\ worker[w].pc = "relinquish"
    /\ IF AtAttempt(s, worker[w].token) /\ HoldsJob(s, worker[w].token)
       THEN /\ receipt' = [receipt EXCEPT ![s] =
                             [@ EXCEPT !.state = "retry_scheduled", !.token = NoToken,
                                       !.lease = 0, !.next = BusyRetry,
                                       !.attempts = receipt[s].attempts - 1]]
            /\ job' = [job EXCEPT ![s] = [NoJob EXCEPT !.status = "pending", !.wait = BusyRetry]]
       ELSE UNCHANGED <<receipt, job>>
    /\ Free(w)
    /\ UNCHANGED <<lane, laneIdle, connection, entitled, imported, history, used>>

\* Whether the fence lets the worker call with the key it read.
Authorized(w) ==
    LET s == worker[w].search IN
    /\ Owner[s] \in entitled
    /\ Connected(s)
    /\ Key(s).version = worker[w].cred

\* Mutant: the fence does not look at the job.
JoblessFence(w) ==
    LET s == worker[w].search IN
    /\ worker[w].pc = "fence"
    /\ AtAttempt(s, worker[w].token)
    /\ Authorized(w)
    /\ receipt' = [receipt EXCEPT ![s] = [@ EXCEPT !.lease = Lease, !.authorized = TRUE]]
    /\ job' = [job EXCEPT ![s].lease = Lease]
    /\ Goto(w, "start")
    /\ UNCHANGED <<lane, laneIdle, connection, entitled, imported, history, used>>

\* authorizeClaimedProviderDispatch, which runs on a session of its own.
Fence(w) ==
    LET s == worker[w].search
        t == worker[w].token IN
    /\ worker[w].pc = "fence"
    /\ \/ /\ AtAttempt(s, t) /\ HoldsJob(s, t) /\ Authorized(w)
          /\ receipt' = [receipt EXCEPT ![s] = [@ EXCEPT !.lease = Lease, !.authorized = TRUE]]
          /\ job' = [job EXCEPT ![s].lease = Lease]
          /\ Goto(w, "start")
          /\ UNCHANGED <<lane, laneIdle>>
       \/ /\ AtAttempt(s, t) /\ HoldsJob(s, t) /\ ~Authorized(w)
          /\ Transition(s, "revoked", receipt[s].ambiguous, 0)
          /\ ReturnFromLane(w, receipt'[s])
          /\ UNCHANGED job
       \/ /\ ~(AtAttempt(s, t) /\ HoldsJob(s, t))
          /\ ReturnFromLane(w, receipt[s])
          /\ UNCHANGED <<receipt, job>>
    /\ UNCHANGED <<connection, entitled, imported, history, used>>

\* assertLockActive, and the request is sent at once: a pause of the host between
\* the two, in which the lane's session could be ended, is not modelled.
StartCall(w) ==
    /\ worker[w].pc = "start"
    /\ IF w \in lane
       THEN /\ worker' = [worker EXCEPT ![w] = [@ EXCEPT !.pc = "call", !.timer = CallLimit]]
            /\ laneIdle' = LaneIdle
       ELSE Free(w) /\ UNCHANGED laneIdle
    /\ UNCHANGED <<receipt, job, lane, connection, entitled, imported, history, used>>

\* Apollo answers, or the request fails: before a status came (transport), or
\* while the body was read, an error the adapter does not normalise.
Respond(w) ==
    LET s == worker[w].search IN
    /\ worker[w].pc = "call"
    /\ \E answer \in Answers :
         /\ worker' = [worker EXCEPT ![w] =
                         [@ EXCEPT !.pc = IF answer = "ok" THEN "complete" ELSE "settle",
                                   !.timer = 0, !.answer = answer]]
         /\ lost' = IF answer = "transport" THEN lost \cup {s} ELSE lost
         /\ rejected' = IF answer = "auth"
                        THEN rejected \cup {<<Owner[s], worker[w].cred>>}
                        ELSE rejected
    /\ UNCHANGED <<receipt, job, lane, laneIdle, connection, entitled, imported, misread,
                   rushed, notBefore, used>>

-------------------------------------------------------------------------------
(* What the answer leaves behind *)

\* Mutant: the completion does not ask whether the attempt is still open.
UnfencedComplete(w) ==
    LET s == worker[w].search IN
    /\ worker[w].pc = "complete"
    /\ Transition(s, "completed", worker[w].doubt, 0)
    /\ IF s \in NativeSearches
       THEN Goto(w, "import") /\ UNCHANGED <<lane, laneIdle>>
       ELSE ReturnFromLane(w, receipt'[s])
    /\ UNCHANGED <<job, connection, entitled, imported, history, used>>

\* completeIntegrationReceiptIfProcessing
Complete(w) ==
    LET s == worker[w].search IN
    /\ worker[w].pc = "complete"
    /\ IF AtAttempt(s, worker[w].token)
       THEN Transition(s, "completed", worker[w].doubt, 0)
       ELSE UNCHANGED receipt
    /\ IF AtAttempt(s, worker[w].token) /\ s \in NativeSearches
       THEN Goto(w, "import") /\ UNCHANGED <<lane, laneIdle>>
       ELSE ReturnFromLane(w, receipt'[s])
    /\ UNCHANGED <<job, connection, entitled, imported, history, used>>

\* persistCompletedApolloFreeSearchToCrm, one transaction, still in the lane.
Import(w) ==
    LET s == worker[w].search IN
    /\ worker[w].pc = "import"
    /\ IF Owner[s] \in entitled
       THEN imported' = imported \cup {s} /\ ReturnFromLane(w, receipt[s])
       ELSE Free(w) /\ Release(w) /\ UNCHANGED imported
    /\ UNCHANGED <<receipt, job, connection, entitled, history, used>>

\* Where the error of the dispatch is handled; one is passed on and stops the worker.
AfterFailure(answer) ==
    CASE answer = "auth" -> "mark"
      [] answer = "body_lost" -> "idle"
      [] OTHER -> "fail"

\* recordProviderDispatchSettlement
Settle(w) ==
    LET s == worker[w].search
        next == AfterFailure(worker[w].answer) IN
    /\ worker[w].pc = "settle"
    /\ receipt' = IF AtAttempt(s, worker[w].token)
                  THEN [receipt EXCEPT ![s] =
                         [@ EXCEPT !.authorized = FALSE,
                                   !.ambiguous = receipt[s].ambiguous
                                                   \/ worker[w].answer = "transport"]]
                  ELSE receipt
    /\ Release(w)
    /\ IF w \in lane /\ next # "idle" THEN Goto(w, next) ELSE Free(w)
    /\ UNCHANGED <<job, connection, entitled, imported, history, used>>

\* Mutant: the refusal is charged to whatever key the account has now.
VersionlessMark(w) ==
    LET s == worker[w].search IN
    /\ worker[w].pc = "mark"
    /\ connection' = IF Connected(s)
                     THEN [connection EXCEPT ![Owner[s]].status = "error"]
                     ELSE connection
    /\ Goto(w, "fail")
    /\ UNCHANGED <<receipt, job, lane, laneIdle, entitled, imported, history, used>>

\* markOwnedIntegrationConnectionAuthError.  The code compares the row's xmin and the
\* secret's version: any write to the row in between, not just a new key, refuses.
Mark(w) ==
    LET s == worker[w].search IN
    /\ worker[w].pc = "mark"
    /\ connection' = IF Connected(s) /\ Key(s).version = worker[w].cred
                     THEN [connection EXCEPT ![Owner[s]].status = "error"]
                     ELSE connection
    /\ Goto(w, "fail")
    /\ UNCHANGED <<receipt, job, lane, laneIdle, entitled, imported, history, used>>

FailureState(w) ==
    IF worker[w].answer \in {"auth", "no_key"} THEN "revoked"
    ELSE IF worker[w].answer = "http_final" \/ worker[w].last THEN "dead_letter"
    ELSE "retry_scheduled"

\* The failure path.  It reads the receipt for its ambiguity and goes on without
\* when that read fails.
Fail(w) ==
    LET s == worker[w].search
        open == AtAttempt(s, worker[w].token)
        state == FailureState(w)
        wait == IF state = "retry_scheduled" THEN RetryAfter ELSE 0 IN
    /\ worker[w].pc = "fail"
    /\ \E read \in BOOLEAN :
         /\ IF read
            THEN UNCHANGED <<misread, used>>
            ELSE /\ used.misreads < MaxMisreads
                 /\ used' = [used EXCEPT !.misreads = @ + 1]
                 /\ misread' = misread \cup {s}
         /\ IF open
            THEN Transition(s, state,
                            (read /\ receipt[s].ambiguous) \/ worker[w].answer = "transport", wait)
            ELSE UNCHANGED receipt
         /\ IF read /\ receipt[s].state = "completed" /\ s \in NativeSearches
            THEN Free(w)
            ELSE Report(w, receipt'[s])
    /\ notBefore' = IF open THEN [notBefore EXCEPT ![s] = wait] ELSE notBefore
    /\ UNCHANGED <<job, lane, laneIdle, connection, entitled, imported, rejected, lost, rushed>>

\* persistResult: the job gets the state the worker read last.
Persist(w) ==
    LET s == worker[w].search
        state == worker[w].result IN
    /\ worker[w].pc = "persist"
    /\ job' = IF HoldsJob(s, worker[w].token)
              THEN [job EXCEPT ![s] =
                     [NoJob EXCEPT !.status = CASE state = "completed" -> "completed"
                                                [] state \in {"dead_letter", "revoked"} -> "failed"
                                                [] OTHER -> "pending",
                                   !.wait = worker[w].wait]]
              ELSE job
    /\ Free(w)
    /\ UNCHANGED <<receipt, lane, laneIdle, connection, entitled, imported, history, used>>

-------------------------------------------------------------------------------
(* Faults and time *)

Crash(w) ==
    /\ worker[w].pc # "idle"
    /\ Fault
    /\ Free(w)
    /\ Release(w)
    /\ lost' = IF worker[w].pc \in {"call", "complete", "settle"}
               THEN lost \cup {worker[w].search}
               ELSE lost
    /\ UNCHANGED <<receipt, job, connection, entitled, imported, rejected, misread, rushed,
                   notBefore>>

\* The database session of the lane ends: its transaction rolls back.
LoseLane ==
    /\ lane # {}
    /\ Fault
    /\ lane' = {}
    /\ laneIdle' = 0
    /\ UNCHANGED <<receipt, job, worker, connection, entitled, imported, history>>

Less(t) == IF t = 0 THEN 0 ELSE t - 1

\* A call does not outlast its limit.  A lane that idled too long is closed.
Tick ==
    /\ \A w \in Workers : worker[w].pc = "call" => worker[w].timer > 0
    /\ receipt' = [s \in Searches |-> [receipt[s] EXCEPT !.lease = Less(@), !.next = Less(@)]]
    /\ job' = [s \in Searches |-> [job[s] EXCEPT !.lease = Less(@), !.wait = Less(@)]]
    /\ worker' = [w \in Workers |-> [worker[w] EXCEPT !.lease = Less(@), !.timer = Less(@),
                                                      !.wait = Less(@)]]
    /\ lane' = IF laneIdle = 0 THEN {} ELSE lane
    /\ laneIdle' = Less(laneIdle)
    /\ notBefore' = [s \in Searches |-> Less(notBefore[s])]
    /\ UNCHANGED <<connection, entitled, imported, rejected, lost, misread, rushed, used>>

-------------------------------------------------------------------------------
(* Specification *)

Init ==
    /\ receipt = [s \in Searches |-> NoReceipt]
    /\ job = [s \in Searches |-> NoJob]
    /\ worker = [w \in Workers |-> IdleWorker]
    /\ lane = {}
    /\ laneIdle = 0
    /\ connection = [e \in Employees |-> [status |-> "connected", account |-> 1, version |-> 1]]
    /\ entitled = Employees
    /\ imported = {}
    /\ rejected = {}
    /\ lost = {}
    /\ misread = {}
    /\ rushed = {}
    /\ notBefore = [s \in Searches |-> 0]
    /\ used = [faults |-> 0, denials |-> 0, misreads |-> 0]

Step(w) ==
    \/ Repair(w) \/ Recover(w) \/ CheckActor(w) \/ Begin(w) \/ Configure(w)
    \/ Lock(w) \/ Relinquish(w) \/ Fence(w) \/ StartCall(w) \/ Respond(w)
    \/ Complete(w) \/ Import(w) \/ Settle(w) \/ Mark(w) \/ Fail(w) \/ Persist(w)

ClaimSome == \E w \in Workers, s \in Searches : Claim(w, s)

Next ==
    \/ \E s \in Searches : Search(s) \/ Revoke(s)
    \/ \E e \in Employees : ReplaceKey(e) \/ Disconnect(e) \/ Deny(e) \/ Grant(e)
    \/ ClaimSome
    \/ \E w \in Workers : Step(w) \/ LockBusy(w) \/ Crash(w)
    \/ LoseLane
    \/ Tick

Spec == Init /\ [][Next]_vars

\* The cron runs every few minutes, a worker that did not die goes on (a lock
\* that stays busy is taken by a worker that goes on), and time passes.
FairSpec ==
    /\ Spec
    /\ WF_vars(Tick)
    /\ WF_vars(ClaimSome)
    /\ \A w \in Workers : WF_vars(Step(w))

-------------------------------------------------------------------------------
(* Properties *)

WorkerSteps == {"idle", "repair", "recover", "check", "begin", "configure", "lock",
                "relinquish", "fence", "start", "call", "complete", "import", "settle",
                "mark", "fail", "persist"}

Receipts == [state : ReceiptStates, attempts : 0 .. MaxAttempts, token : Tokens \cup {NoToken},
             lease : 0 .. Lease, next : Nat, authorized : BOOLEAN, ambiguous : BOOLEAN,
             account : Nat]

Jobs == [status : {"none", "pending", "running", "completed", "failed"},
         token : Tokens \cup {NoToken}, lease : 0 .. Lease, wait : Nat]

WorkerStates == [pc : WorkerSteps, search : Searches, token : Tokens \cup {NoToken},
                 was : Tokens \cup {NoToken}, lease : 0 .. Lease, doubt : BOOLEAN,
                 last : BOOLEAN, cred : Nat, timer : 0 .. CallLimit,
                 answer : Answers \cup {"none", "no_key"}, result : ReceiptStates, wait : Nat]

\* Every row has the columns the schema gives it; an attempt is counted within
\* the limit, and a relinquished one never below zero.
TypeOK ==
    /\ receipt \in [Searches -> Receipts]
    /\ job \in [Searches -> Jobs]
    /\ worker \in [Workers -> WorkerStates]
    /\ lane \subseteq Workers
    /\ laneIdle \in 0 .. LaneIdle
    /\ connection \in [Employees -> [status : {"connected", "error", "none"},
                                     account : Nat, version : Nat]]
    /\ entitled \subseteq Employees
    /\ imported \subseteq Searches
    /\ rejected \subseteq Employees \X Nat
    /\ lost \subseteq Searches
    /\ misread \subseteq Searches
    /\ rushed \subseteq Searches
    /\ notBefore \in [Searches -> Nat]
    /\ used \in [faults : Nat, denials : Nat, misreads : Nat]

\* At most one request to Apollo is under way, across every worker and every
\* employee: also when a worker outlived its lease, when the session that holds
\* the lane was lost under a call, and when the search was revoked under one.
OneCall == \A w, v \in Workers : worker[w].pc = "call" /\ worker[v].pc = "call" => w = v

\* One job holds the provider's slot.
OneSlot == \A r, s \in Searches :
    job[r].status = "running" /\ job[s].status = "running" => r = s

\* The key a request was sent with is the owner's key for as long as the request
\* is under way: neither a replacement nor a disconnection crosses a call, with
\* the lane lost or not.
KeyFixedDuringCall == \A w \in Workers :
    worker[w].pc = "call" =>
        LET key == Key(worker[w].search) IN key.account # 0 /\ key.version = worker[w].cred

\* A connection is in error only if Apollo refused the key it has now: an answer
\* that comes late does not disable the key that replaced the refused one.
KeyErrorIsCurrent == \A e \in Employees :
    connection[e].status = "error" => <<e, connection[e].version>> \in rejected

\* The job of a native search is not completed before its candidates are in the
\* CRM, whenever the worker that completed the search died.
CompletedJobsAreImported == \A s \in NativeSearches :
    job[s].status = "completed" => s \in imported

\* A job ends only when the search has: no search is left without a job to run.
EndedJobsAreSettled == \A s \in Searches :
    /\ job[s].status = "completed" => receipt[s].state = "completed"
    /\ job[s].status = "failed" => receipt[s].state \in {"dead_letter", "revoked"}

\* The outcome of a search is final: a late completion does not undo a
\* revocation, nor a revocation or a failure a completion.
OutcomeIsFinal == [][\A s \in Searches : Settled(s) => receipt'[s].state = receipt[s].state]_vars

\* The wait a failed call asked for passes before the next call of the search,
\* whichever worker recovers it, unless one that had lost the job began an attempt
\* before: nothing compares the wait there, and the recovery forgets it.
RetryAfterHonoured ==
    [][\A w \in Workers : worker[w].pc # "call" /\ worker'[w].pc = "call" =>
         notBefore[worker[w].search] = 0 \/ worker[w].search \in rushed]_vars

\* A search a call of which ended without an answer says so once it is settled,
\* whatever settled it: unless a role was lost, or a failure was handled without
\* the receipt.
LostCallsAreAmbiguous == \A s \in Searches :
    s \in lost /\ Settled(s) /\ used.denials = 0 /\ s \notin misread => receipt[s].ambiguous

\* A retry, a success, the attempt limit and the loss of a role keep the warning
\* that an earlier call may have had an effect.
AmbiguityIsNeverErased ==
    [][\A s \in Searches : receipt[s].ambiguous => receipt'[s].ambiguous]_vars

JobEnded(s) == job[s].status \in {"completed", "failed"}

\* A lease lapses under a worker that is alive.
Overrun == \E w \in Workers :
    /\ worker[w].pc # "idle"
    /\ HoldsJob(worker[w].search, worker[w].token)
    /\ job[worker[w].search].lease > 0
    /\ job'[worker[w].search].lease = 0

\* From some time on, workers that are alive keep within their leases: the
\* platform ends them long before.
InTime == <>[][~Overrun]_vars

\* Every search that is asked for ends, and its job with it, so that the slot is
\* free for the others, if its owner is entitled from some time on.
SearchesEnd ==
    InTime /\ <>[](entitled = Employees) =>
        \A s \in Searches : [](receipt[s].state # "none" => <>JobEnded(s))

\* A job does not keep the slot: its worker ends, or it is recovered after its
\* lease and then ends, whatever its owner may do by then.
SlotIsReleased ==
    InTime => \A s \in Searches : job[s].status = "running" ~> job[s].status # "running"
=============================================================================
