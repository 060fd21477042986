------------------------ MODULE ApolloDispatchProofs ------------------------
(***************************************************************************)
(* One request to Apollo at a time, with the key the owner has, and what   *)
(* follows for outcomes, imports and waits: for every number of searches,  *)
(* workers, employees, attempts, leases and faults.                        *)
(***************************************************************************)
EXTENDS ApolloSearchProofs

USE ApolloAssumption

-------------------------------------------------------------------------------
(* To whom a token belongs *)

\* A token has one worker, and is of the job it claimed and of the attempt it
\* began; the attempt a recovery replaces lost its job for good.
TokenInv ==
    /\ \A w \in Workers : worker[w].pc = "idle" <=> worker[w].token = NoToken
    /\ \A w, v \in Workers :
         worker[w].token # NoToken /\ worker[w].token = worker[v].token => w = v
    /\ \A s \in Searches : job[s].token = NoToken <=> job[s].status # "running"
    /\ \A s \in Searches : receipt[s].token = NoToken <=> receipt[s].state # "processing"
    /\ \A s \in Searches, w \in Workers :
         worker[w].token # NoToken /\ job[s].token = worker[w].token => s = worker[w].search
    /\ \A s, r \in Searches :
         receipt[s].token # NoToken /\ receipt[s].token = job[r].token => r = s
    /\ \A s \in Searches, w \in Workers :
         worker[w].was # NoToken => job[s].token # worker[w].was

\* A step that gives nobody a token.
WorkerTokensFade == \A w \in Workers :
    /\ \/ /\ worker'[w].search = worker[w].search /\ worker'[w].token = worker[w].token
          /\ worker'[w].pc = "idle" <=> worker[w].pc = "idle"
       \/ worker'[w].token = NoToken /\ worker'[w].pc = "idle"
    /\ worker'[w].was = worker[w].was \/ worker'[w].was = NoToken

JobTokensFade == \A s \in Searches :
    \/ /\ job'[s].token = job[s].token
       /\ job'[s].status # "running" <=> job[s].status # "running"
    \/ job'[s].token = NoToken /\ job'[s].status # "running"

ReceiptTokensFade == \A s \in Searches :
    \/ /\ receipt'[s].token = receipt[s].token
       /\ receipt'[s].state # "processing" <=> receipt[s].state # "processing"
    \/ receipt'[s].token = NoToken /\ receipt'[s].state # "processing"

TokensFade == WorkerTokensFade /\ JobTokensFade /\ ReceiptTokensFade

LEMMA FadingKeepsTokens ==
    ASSUME TokenInv, TokensFade
    PROVE  TokenInv'
<1>1. \A w \in Workers : worker'[w].pc = "idle" <=> worker'[w].token = NoToken
  BY DEF TokenInv, TokensFade, WorkerTokensFade
<1>2. \A w, v \in Workers :
        worker'[w].token # NoToken /\ worker'[w].token = worker'[v].token => w = v
  BY DEF TokenInv, TokensFade, WorkerTokensFade
<1>3. \A s \in Searches : job'[s].token = NoToken <=> job'[s].status # "running"
  BY DEF TokenInv, TokensFade, JobTokensFade
<1>7. \A s \in Searches : receipt'[s].token = NoToken <=> receipt'[s].state # "processing"
  BY DEF TokenInv, TokensFade, ReceiptTokensFade
<1>4. \A s \in Searches, w \in Workers :
        worker'[w].token # NoToken /\ job'[s].token = worker'[w].token => s = worker'[w].search
  BY DEF TokenInv, TokensFade, WorkerTokensFade, JobTokensFade
<1>5. \A s, r \in Searches :
        receipt'[s].token # NoToken /\ receipt'[s].token = job'[r].token => r = s
  BY DEF TokenInv, TokensFade, JobTokensFade, ReceiptTokensFade
<1>6. \A s \in Searches, w \in Workers :
        worker'[w].was # NoToken => job'[s].token # worker'[w].was
  BY DEF TokenInv, TokensFade, WorkerTokensFade, JobTokensFade
<1> QED
  BY <1>1, <1>2, <1>3, <1>4, <1>5, <1>6, <1>7 DEF TokenInv

LEMMA SearchFades ==
    ASSUME TypeInv, NEW s \in Searches, Search(s)
    PROVE  TokensFade
<1>1. WorkerTokensFade
  BY Rows, IsAskedFor DEF Search, WorkerTokensFade, Alone, GoesOn, Idles, Persists
<1>2. JobTokensFade
  BY Rows, IsAskedFor DEF Search, JobTokensFade, OnlyJob, JobEnd
<1>3. ReceiptTokensFade
  BY Rows, IsAskedFor DEF Search, ReceiptTokensFade, OnlyReceipt, Turns
<1> QED
  BY <1>1, <1>2, <1>3 DEF TokensFade

LEMMA RevokeFades ==
    ASSUME TypeInv, NEW s \in Searches, Revoke(s)
    PROVE  TokensFade
<1>1. WorkerTokensFade
  BY Rows, RevokeDoes DEF Revoke, WorkerTokensFade, Alone, GoesOn, Idles, Persists
<1>2. JobTokensFade
  BY Rows, RevokeDoes DEF Revoke, JobTokensFade, OnlyJob, JobEnd
<1>3. ReceiptTokensFade
  BY Rows, RevokeDoes DEF Revoke, ReceiptTokensFade, OnlyReceipt, Turns
<1> QED
  BY <1>1, <1>2, <1>3 DEF TokensFade

LEMMA ReplaceKeyFades ==
    ASSUME TypeInv, NEW e \in Employees, ReplaceKey(e)
    PROVE  TokensFade
<1>1. WorkerTokensFade
  BY Rows DEF ReplaceKey, WorkerTokensFade, Alone, GoesOn, Idles, Persists
<1>2. JobTokensFade
  BY Rows DEF ReplaceKey, JobTokensFade, OnlyJob, JobEnd
<1>3. ReceiptTokensFade
  BY Rows DEF ReplaceKey, ReceiptTokensFade, OnlyReceipt, Turns
<1> QED
  BY <1>1, <1>2, <1>3 DEF TokensFade

LEMMA DisconnectFades ==
    ASSUME TypeInv, NEW e \in Employees, Disconnect(e)
    PROVE  TokensFade
<1>1. WorkerTokensFade
  BY Rows DEF Disconnect, WorkerTokensFade, Alone, GoesOn, Idles, Persists
<1>2. JobTokensFade
  BY Rows DEF Disconnect, JobTokensFade, OnlyJob, JobEnd
<1>3. ReceiptTokensFade
  BY Rows DEF Disconnect, ReceiptTokensFade, OnlyReceipt, Turns
<1> QED
  BY <1>1, <1>2, <1>3 DEF TokensFade

LEMMA DenyFades ==
    ASSUME TypeInv, NEW e \in Employees, Deny(e)
    PROVE  TokensFade
<1>1. WorkerTokensFade
  BY Rows DEF Deny, WorkerTokensFade, Alone, GoesOn, Idles, Persists
<1>2. JobTokensFade
  BY Rows DEF Deny, JobTokensFade, OnlyJob, JobEnd
<1>3. ReceiptTokensFade
  BY Rows DEF Deny, ReceiptTokensFade, OnlyReceipt, Turns
<1> QED
  BY <1>1, <1>2, <1>3 DEF TokensFade

LEMMA GrantFades ==
    ASSUME TypeInv, NEW e \in Employees, Grant(e)
    PROVE  TokensFade
<1>1. WorkerTokensFade
  BY Rows DEF Grant, WorkerTokensFade, Alone, GoesOn, Idles, Persists
<1>2. JobTokensFade
  BY Rows DEF Grant, JobTokensFade, OnlyJob, JobEnd
<1>3. ReceiptTokensFade
  BY Rows DEF Grant, ReceiptTokensFade, OnlyReceipt, Turns
<1> QED
  BY <1>1, <1>2, <1>3 DEF TokensFade

LEMMA RepairFades ==
    ASSUME TypeInv, NEW w \in Workers, Repair(w)
    PROVE  TokensFade
<1>1. WorkerTokensFade
  BY Rows, RepairDoes DEF Repair, WorkerTokensFade, Alone, GoesOn, Idles, Persists
<1>2. JobTokensFade
  BY Rows, RepairDoes DEF Repair, JobTokensFade, OnlyJob, JobEnd
<1>3. ReceiptTokensFade
  BY Rows, RepairDoes DEF Repair, ReceiptTokensFade, OnlyReceipt, Turns
<1> QED
  BY <1>1, <1>2, <1>3 DEF TokensFade

LEMMA RecoverFades ==
    ASSUME TypeInv, NEW w \in Workers, Recover(w)
    PROVE  TokensFade
<1>1. WorkerTokensFade
  BY Rows, RecoverDoes DEF Recover, WorkerTokensFade, Alone, GoesOn, Idles, Persists
<1>2. JobTokensFade
  BY Rows, RecoverDoes DEF Recover, JobTokensFade, OnlyJob, JobEnd
<1>3. ReceiptTokensFade
  BY Rows, RecoverDoes DEF Recover, ReceiptTokensFade, OnlyReceipt, Turns
<1> QED
  BY <1>1, <1>2, <1>3 DEF TokensFade

LEMMA CheckActorFades ==
    ASSUME TypeInv, NEW w \in Workers, CheckActor(w)
    PROVE  TokensFade
<1>1. WorkerTokensFade
  BY Rows, CheckActorDoes DEF CheckActor, WorkerTokensFade, Alone, GoesOn, Idles, Persists
<1>2. JobTokensFade
  BY Rows, CheckActorDoes DEF CheckActor, JobTokensFade, OnlyJob, JobEnd
<1>3. ReceiptTokensFade
  BY Rows, CheckActorDoes DEF CheckActor, ReceiptTokensFade, OnlyReceipt, Turns
<1> QED
  BY <1>1, <1>2, <1>3 DEF TokensFade

LEMMA ConfigureFades ==
    ASSUME TypeInv, NEW w \in Workers, Configure(w)
    PROVE  TokensFade
<1>1. WorkerTokensFade
  <2>1. worker[w].pc = "configure"
    BY DEF Configure
  <2>2. /\ worker'[w].search = worker[w].search /\ worker'[w].token = worker[w].token
        /\ worker'[w].was = worker[w].was /\ worker'[w].pc # "idle"
        /\ \A v \in Workers : v # w => worker'[v] = worker[v]
    BY Rows, Configures
  <2> QED
    BY <2>1, <2>2 DEF WorkerTokensFade
<1>2. JobTokensFade
  BY Rows, Configures DEF Configure, JobTokensFade, OnlyJob, JobEnd
<1>3. ReceiptTokensFade
  BY Rows, Configures DEF Configure, ReceiptTokensFade, OnlyReceipt, Turns
<1> QED
  BY <1>1, <1>2, <1>3 DEF TokensFade

LEMMA LockFades ==
    ASSUME TypeInv, NEW w \in Workers, Lock(w)
    PROVE  TokensFade
<1>1. WorkerTokensFade
  BY Rows, LockDoes DEF Lock, WorkerTokensFade, Alone, GoesOn, Idles, Persists
<1>2. JobTokensFade
  BY Rows, LockDoes DEF Lock, JobTokensFade, OnlyJob, JobEnd
<1>3. ReceiptTokensFade
  BY Rows, LockDoes DEF Lock, ReceiptTokensFade, OnlyReceipt, Turns
<1> QED
  BY <1>1, <1>2, <1>3 DEF TokensFade

LEMMA LockBusyFades ==
    ASSUME TypeInv, NEW w \in Workers, LockBusy(w)
    PROVE  TokensFade
<1>1. WorkerTokensFade
  BY Rows, LockBusyDoes DEF LockBusy, WorkerTokensFade, Alone, GoesOn, Idles, Persists
<1>2. JobTokensFade
  BY Rows, LockBusyDoes DEF LockBusy, JobTokensFade, OnlyJob, JobEnd
<1>3. ReceiptTokensFade
  BY Rows, LockBusyDoes DEF LockBusy, ReceiptTokensFade, OnlyReceipt, Turns
<1> QED
  BY <1>1, <1>2, <1>3 DEF TokensFade

LEMMA RelinquishFades ==
    ASSUME TypeInv, NEW w \in Workers, Relinquish(w)
    PROVE  TokensFade
<1>1. WorkerTokensFade
  BY Rows, RelinquishDoes DEF Relinquish, WorkerTokensFade, Alone, GoesOn, Idles, Persists
<1>2. JobTokensFade
  BY Rows, RelinquishDoes DEF Relinquish, JobTokensFade, OnlyJob, JobEnd
<1>3. ReceiptTokensFade
  BY Rows, RelinquishDoes DEF Relinquish, ReceiptTokensFade, OnlyReceipt, Turns
<1> QED
  BY <1>1, <1>2, <1>3 DEF TokensFade

LEMMA FenceFades ==
    ASSUME TypeInv, NEW w \in Workers, Fence(w)
    PROVE  TokensFade
<1>1. WorkerTokensFade
  BY Rows, FenceDoes DEF Fence, WorkerTokensFade, Alone, GoesOn, Idles, Persists
<1>2. JobTokensFade
  BY Rows, FenceDoes DEF Fence, JobTokensFade, OnlyJob, JobEnd
<1>3. ReceiptTokensFade
  BY Rows, FenceDoes DEF Fence, ReceiptTokensFade, OnlyReceipt, Turns
<1> QED
  BY <1>1, <1>2, <1>3 DEF TokensFade

LEMMA StartCallFades ==
    ASSUME TypeInv, NEW w \in Workers, StartCall(w)
    PROVE  TokensFade
<1>1. WorkerTokensFade
  BY Rows, StartCallDoes DEF StartCall, WorkerTokensFade, Alone, GoesOn, Idles, Persists
<1>2. JobTokensFade
  BY Rows, StartCallDoes DEF StartCall, JobTokensFade, OnlyJob, JobEnd
<1>3. ReceiptTokensFade
  BY Rows, StartCallDoes DEF StartCall, ReceiptTokensFade, OnlyReceipt, Turns
<1> QED
  BY <1>1, <1>2, <1>3 DEF TokensFade

LEMMA RespondFades ==
    ASSUME TypeInv, NEW w \in Workers, Respond(w)
    PROVE  TokensFade
<1>1. WorkerTokensFade
  BY Rows, RespondDoes DEF WorkerTokensFade, Alone, GoesOn, Idles, Persists
<1>2. JobTokensFade
  BY Rows, RespondDoes DEF Respond, JobTokensFade, OnlyJob, JobEnd
<1>3. ReceiptTokensFade
  BY Rows, RespondDoes DEF Respond, ReceiptTokensFade, OnlyReceipt, Turns
<1> QED
  BY <1>1, <1>2, <1>3 DEF TokensFade

LEMMA CompleteFades ==
    ASSUME TypeInv, NEW w \in Workers, Complete(w)
    PROVE  TokensFade
<1>1. WorkerTokensFade
  BY Rows, CompleteDoes DEF Complete, WorkerTokensFade, Alone, GoesOn, Idles, Persists
<1>2. JobTokensFade
  BY Rows, CompleteDoes DEF Complete, JobTokensFade, OnlyJob, JobEnd
<1>3. ReceiptTokensFade
  BY Rows, CompleteDoes DEF Complete, ReceiptTokensFade, OnlyReceipt, Turns
<1> QED
  BY <1>1, <1>2, <1>3 DEF TokensFade

LEMMA ImportFades ==
    ASSUME TypeInv, NEW w \in Workers, Import(w)
    PROVE  TokensFade
<1>1. WorkerTokensFade
  BY Rows, ImportDoes DEF Import, WorkerTokensFade, Alone, GoesOn, Idles, Persists
<1>2. JobTokensFade
  BY Rows, ImportDoes DEF Import, JobTokensFade, OnlyJob, JobEnd
<1>3. ReceiptTokensFade
  BY Rows, ImportDoes DEF Import, ReceiptTokensFade, OnlyReceipt, Turns
<1> QED
  BY <1>1, <1>2, <1>3 DEF TokensFade

LEMMA SettleFades ==
    ASSUME TypeInv, NEW w \in Workers, Settle(w)
    PROVE  TokensFade
<1>1. WorkerTokensFade
  BY Rows, SettleDoes DEF Settle, WorkerTokensFade, Alone, GoesOn, Idles, Persists
<1>2. JobTokensFade
  BY Rows, SettleDoes DEF Settle, JobTokensFade, OnlyJob, JobEnd
<1>3. ReceiptTokensFade
  BY Rows, SettleDoes DEF Settle, ReceiptTokensFade, OnlyReceipt, Turns
<1> QED
  BY <1>1, <1>2, <1>3 DEF TokensFade

LEMMA MarkFades ==
    ASSUME TypeInv, NEW w \in Workers, Mark(w)
    PROVE  TokensFade
<1>1. WorkerTokensFade
  BY Rows, MarkDoes DEF Mark, WorkerTokensFade, Alone, GoesOn, Idles, Persists
<1>2. JobTokensFade
  BY Rows, MarkDoes DEF Mark, JobTokensFade, OnlyJob, JobEnd
<1>3. ReceiptTokensFade
  BY Rows, MarkDoes DEF Mark, ReceiptTokensFade, OnlyReceipt, Turns
<1> QED
  BY <1>1, <1>2, <1>3 DEF TokensFade

LEMMA FailFades ==
    ASSUME TypeInv, NEW w \in Workers, Fail(w)
    PROVE  TokensFade
<1>1. WorkerTokensFade
  BY Rows, FailDoes DEF Fail, WorkerTokensFade, Alone, GoesOn, Idles, Persists
<1>2. JobTokensFade
  BY Rows, FailDoes DEF Fail, JobTokensFade, OnlyJob, JobEnd
<1>3. ReceiptTokensFade
  <2>1. FailureState(w) # "processing"
    BY DEF FailureState
  <2> QED
    BY <2>1, Rows, FailDoes DEF ReceiptTokensFade, OnlyReceipt, Turns
<1> QED
  BY <1>1, <1>2, <1>3 DEF TokensFade

LEMMA PersistFades ==
    ASSUME TypeInv, NEW w \in Workers, Persist(w)
    PROVE  TokensFade
<1>1. WorkerTokensFade
  BY Rows, PersistDoes DEF Persist, WorkerTokensFade, Alone, GoesOn, Idles, Persists
<1>2. JobTokensFade
  <2>1. JobEnd(worker[w].result) # "running"
    BY DEF JobEnd
  <2> QED
    BY <2>1, Rows, PersistDoes DEF JobTokensFade, OnlyJob
<1>3. ReceiptTokensFade
  BY Rows, PersistDoes DEF Persist, ReceiptTokensFade, OnlyReceipt, Turns
<1> QED
  BY <1>1, <1>2, <1>3 DEF TokensFade

LEMMA CrashFades ==
    ASSUME TypeInv, NEW w \in Workers, Crash(w)
    PROVE  TokensFade
<1>1. WorkerTokensFade
  BY Rows, CrashDoes DEF Crash, WorkerTokensFade, Alone, GoesOn, Idles, Persists
<1>2. JobTokensFade
  BY Rows, CrashDoes DEF Crash, JobTokensFade, OnlyJob, JobEnd
<1>3. ReceiptTokensFade
  BY Rows, CrashDoes DEF Crash, ReceiptTokensFade, OnlyReceipt, Turns
<1> QED
  BY <1>1, <1>2, <1>3 DEF TokensFade

LEMMA LoseLaneFades ==
    ASSUME TypeInv, LoseLane
    PROVE  TokensFade
BY DEF LoseLane, TokensFade, WorkerTokensFade, JobTokensFade, ReceiptTokensFade

LEMMA TickFades ==
    ASSUME TypeInv, Tick
    PROVE  TokensFade
BY Rows, Ticks DEF TokensFade, WorkerTokensFade, JobTokensFade, ReceiptTokensFade

\* An attempt begins with the token of its worker, or the worker ends.
LEMMA BeginKeepsTokens ==
    ASSUME TypeInv, TokenInv, NEW w \in Workers, Begin(w)
    PROVE  TokenInv'
<1> DEFINE s == worker[w].search
<1>1. JobTokensFade /\ s \in Searches
  BY Rows DEF Begin, JobTokensFade
<1>2. WorkerTokensFade
  BY Rows, BeginDoes DEF WorkerTokensFade, Alone, GoesOn, Idles, Persists
<1>3. CASE receipt[s].state = "retry_scheduled" /\ receipt'[s].state = "processing"
  <2>0. worker[w].token # NoToken
    <3>1. worker[w].pc # "idle"
      BY BeginDoes
    <3> QED
      BY <3>1 DEF TokenInv
  <2>1. /\ receipt'[s].token = worker[w].token
        /\ \A r \in Searches : r # s => receipt'[r] = receipt[r]
    BY <1>3, BeginDoes DEF Turns, OnlyReceipt
  <2>2. \A r \in Searches :
          receipt'[r].token = NoToken <=> receipt'[r].state # "processing"
    BY <1>3, <2>0, <2>1 DEF TokenInv
  <2>3. \A q, r \in Searches :
          receipt'[q].token # NoToken /\ receipt'[q].token = job[r].token => r = q
    BY <2>1 DEF TokenInv
  <2>4. job' = job /\ \A r \in Searches : job[r].token = NoToken <=> job[r].status # "running"
    BY DEF Begin, TokenInv
  <2>5. \A v \in Workers : worker'[v].pc = "idle" <=> worker'[v].token = NoToken
    BY <1>2 DEF TokenInv, WorkerTokensFade
  <2>6. \A u, v \in Workers :
          worker'[u].token # NoToken /\ worker'[u].token = worker'[v].token => u = v
    BY <1>2 DEF TokenInv, WorkerTokensFade
  <2>7. \A r \in Searches, v \in Workers :
          worker'[v].token # NoToken /\ job[r].token = worker'[v].token => r = worker'[v].search
    BY <1>2 DEF TokenInv, WorkerTokensFade
  <2>8. \A r \in Searches, v \in Workers :
          worker'[v].was # NoToken => job[r].token # worker'[v].was
    BY <1>2 DEF TokenInv, WorkerTokensFade
  <2> QED
    BY <2>2, <2>3, <2>4, <2>5, <2>6, <2>7, <2>8 DEF TokenInv
<1>4. CASE ~(receipt[s].state = "retry_scheduled" /\ receipt'[s].state = "processing")
  <2>1. ReceiptTokensFade
    BY <1>1, <1>4, BeginDoes DEF ReceiptTokensFade, Turns, OnlyReceipt
  <2> QED
    BY <1>1, <1>2, <2>1, FadingKeepsTokens DEF TokensFade
<1> QED
  BY <1>3, <1>4

\* A claim draws a token that nobody has.
LEMMA ClaimKeepsTokens ==
    ASSUME TypeInv, TokenInv, NEW w \in Workers, NEW s \in Searches, Claim(w, s)
    PROVE  TokenInv'
<1> DEFINE t == FreshToken
<1>1. /\ t # NoToken
      /\ \A r \in Searches : job[r].token # t /\ receipt[r].token # t
      /\ \A v \in Workers : worker[v].token # t /\ worker[v].was # t
  BY Fresh DEF Claim
<1>2. /\ job'[s].status = "running" /\ job'[s].token = t
      /\ \A r \in Searches : r # s => job'[r] = job[r]
      /\ worker'[w].pc # "idle" /\ worker'[w].search = s /\ worker'[w].token = t
      /\ worker'[w].was = NoToken \/ worker'[w].was = receipt[s].token
      /\ \A v \in Workers : v # w => worker'[v] = worker[v]
  BY Rows, Claims DEF FirstStep
<1>3. receipt' = receipt
  BY DEF Claim
<1> HIDE DEF t
<1>4. \A v \in Workers : worker'[v].pc = "idle" <=> worker'[v].token = NoToken
  BY <1>1, <1>2 DEF TokenInv
<1>5. \A u, v \in Workers :
        worker'[u].token # NoToken /\ worker'[u].token = worker'[v].token => u = v
  BY <1>1, <1>2 DEF TokenInv
<1>6. \A r \in Searches : job'[r].token = NoToken <=> job'[r].status # "running"
  BY <1>1, <1>2 DEF TokenInv
<1>7. \A r \in Searches, v \in Workers :
        worker'[v].token # NoToken /\ job'[r].token = worker'[v].token => r = worker'[v].search
  BY <1>1, <1>2 DEF TokenInv
<1>8. \A q, r \in Searches :
        receipt[q].token # NoToken /\ receipt[q].token = job'[r].token => r = q
  BY <1>1, <1>2 DEF TokenInv
<1>9. \A r \in Searches, v \in Workers :
        worker'[v].was # NoToken => job'[r].token # worker'[v].was
  BY <1>1, <1>2 DEF TokenInv
<1>10. \A r \in Searches : receipt[r].token = NoToken <=> receipt[r].state # "processing"
  BY DEF TokenInv
<1> QED
  BY <1>3, <1>4, <1>5, <1>6, <1>7, <1>8, <1>9, <1>10 DEF TokenInv

LEMMA TokenStep ==
    ASSUME TypeInv, TokenInv, [Next]_vars
    PROVE  TokenInv'
<1>1. ASSUME NEW s \in Searches, Search(s) \/ Revoke(s)
      PROVE  TokenInv'
  BY <1>1, SearchFades, RevokeFades, FadingKeepsTokens
<1>2. ASSUME NEW e \in Employees, ReplaceKey(e) \/ Disconnect(e) \/ Deny(e) \/ Grant(e)
      PROVE  TokenInv'
  BY <1>2, ReplaceKeyFades, DisconnectFades, DenyFades, GrantFades, FadingKeepsTokens
<1>3. CASE ClaimSome
  BY <1>3, ClaimKeepsTokens DEF ClaimSome
<1>4. ASSUME NEW w \in Workers, Step(w)
      PROVE  TokenInv'
  BY <1>4, RepairFades, RecoverFades, CheckActorFades, BeginKeepsTokens, ConfigureFades,
     LockFades, RelinquishFades, FenceFades, StartCallFades, RespondFades, CompleteFades,
     ImportFades, SettleFades, MarkFades, FailFades, PersistFades, FadingKeepsTokens DEF Step
<1>5. ASSUME NEW w \in Workers, LockBusy(w) \/ Crash(w)
      PROVE  TokenInv'
  BY <1>5, LockBusyFades, CrashFades, FadingKeepsTokens
<1>6. CASE LoseLane \/ Tick
  BY <1>6, LoseLaneFades, TickFades, FadingKeepsTokens
<1>7. CASE UNCHANGED vars
  BY <1>7 DEF vars, rows, TokenInv
<1> QED
  BY <1>1, <1>2, <1>3, <1>4, <1>5, <1>6, <1>7 DEF Next
-------------------------------------------------------------------------------
(* The slot, the lane and the outcomes *)

\* What a step may do to an outcome: nothing.
Final == \A s \in Searches :
    Settled(s) => receipt'[s].state = receipt[s].state
                  /\ receipt'[s].ambiguous = receipt[s].ambiguous
Asked == \A s \in Searches : receipt[s].state # "none" => receipt'[s].state # "none"

LEMMA SearchIsFinal ==
    ASSUME TypeInv, NEW s \in Searches, Search(s)
    PROVE  Final /\ Asked
BY Rows, IsAskedFor DEF Search, Final, Asked, Settled, TerminalStates, OnlyReceipt

LEMMA RevokeIsFinal ==
    ASSUME TypeInv, NEW s \in Searches, Revoke(s)
    PROVE  Final /\ Asked
BY Rows, RevokeDoes DEF Final, Asked, Settled, TerminalStates, AtAttempt, OnlyReceipt, Turns

LEMMA RecoverIsFinal ==
    ASSUME TypeInv, NEW w \in Workers, Recover(w)
    PROVE  Final /\ Asked
BY Rows, RecoverDoes DEF Final, Asked, Settled, TerminalStates, AtAttempt, OnlyReceipt, Turns

LEMMA CheckActorIsFinal ==
    ASSUME TypeInv, NEW w \in Workers, CheckActor(w)
    PROVE  Final /\ Asked
BY Rows, CheckActorDoes DEF Final, Asked, Settled, TerminalStates, AtAttempt, OnlyReceipt, Turns

LEMMA BeginIsFinal ==
    ASSUME TypeInv, NEW w \in Workers, Begin(w)
    PROVE  Final /\ Asked
BY Rows, BeginDoes DEF Final, Asked, Settled, TerminalStates, AtAttempt, OnlyReceipt, Turns

LEMMA RelinquishIsFinal ==
    ASSUME TypeInv, NEW w \in Workers, Relinquish(w)
    PROVE  Final /\ Asked
BY Rows, RelinquishDoes DEF Final, Asked, Settled, TerminalStates, AtAttempt, OnlyReceipt, Turns

LEMMA FenceIsFinal ==
    ASSUME TypeInv, NEW w \in Workers, Fence(w)
    PROVE  Final /\ Asked
BY Rows, FenceDoes DEF Final, Asked, Settled, TerminalStates, AtAttempt, OnlyReceipt, Turns

LEMMA CompleteIsFinal ==
    ASSUME TypeInv, NEW w \in Workers, Complete(w)
    PROVE  Final /\ Asked
BY Rows, CompleteDoes DEF Final, Asked, Settled, TerminalStates, AtAttempt, OnlyReceipt, Turns

LEMMA SettleIsFinal ==
    ASSUME TypeInv, NEW w \in Workers, Settle(w)
    PROVE  Final /\ Asked
BY Rows, SettleDoes DEF Final, Asked, Settled, TerminalStates, AtAttempt, OnlyReceipt, Turns

LEMMA FailIsFinal ==
    ASSUME TypeInv, NEW w \in Workers, Fail(w)
    PROVE  Final /\ Asked
BY Rows, FailDoes
   DEF Final, Asked, Settled, TerminalStates, AtAttempt, OnlyReceipt, Turns, FailureState

LEMMA SameIsFinal ==
    ASSUME receipt' = receipt
    PROVE  Final /\ Asked
BY DEF Final, Asked

LEMMA TickIsFinal ==
    ASSUME TypeInv, Tick
    PROVE  Final /\ Asked
BY Rows, Ticks DEF Final, Asked

LEMMA FinalStep ==
    ASSUME TypeInv, [Next]_vars
    PROVE  Final /\ Asked
<1>1. ASSUME NEW s \in Searches, Search(s) \/ Revoke(s)
      PROVE  Final /\ Asked
  BY <1>1, SearchIsFinal, RevokeIsFinal
<1>2. ASSUME NEW e \in Employees, ReplaceKey(e) \/ Disconnect(e) \/ Deny(e) \/ Grant(e)
      PROVE  Final /\ Asked
  BY <1>2, SameIsFinal DEF ReplaceKey, Disconnect, Deny, Grant
<1>3. CASE ClaimSome
  BY <1>3, SameIsFinal DEF ClaimSome, Claim
<1>4. ASSUME NEW w \in Workers, Step(w)
      PROVE  Final /\ Asked
  <2>1. CASE \/ Repair(w) \/ Configure(w) \/ Lock(w) \/ StartCall(w) \/ Respond(w)
             \/ Import(w) \/ Mark(w) \/ Persist(w)
    <3>1. receipt' = receipt
      BY <2>1 DEF Repair, Configure, Lock, StartCall, Respond, Import, Mark, Persist
    <3> QED
      BY <3>1, SameIsFinal
  <2> QED
    BY <1>4, <2>1, RecoverIsFinal, CheckActorIsFinal, BeginIsFinal, RelinquishIsFinal,
       FenceIsFinal, CompleteIsFinal, SettleIsFinal, FailIsFinal DEF Step
<1>5. ASSUME NEW w \in Workers, LockBusy(w) \/ Crash(w)
      PROVE  Final /\ Asked
  BY <1>5, SameIsFinal DEF LockBusy, Crash
<1>6. CASE LoseLane \/ Tick
  BY <1>6, SameIsFinal, TickIsFinal DEF LoseLane
<1>7. CASE UNCHANGED vars
  BY <1>7, SameIsFinal DEF vars, rows
<1> QED
  BY <1>1, <1>2, <1>3, <1>4, <1>5, <1>6, <1>7 DEF Next

\* The outcome of a search is final: whatever answers late finds its attempt over.
THEOREM OutcomesStay == Spec => OutcomeIsFinal
<1>1. TypeInv /\ [Next]_vars => [\A s \in Searches : Settled(s) => receipt'[s].state = receipt[s].state]_vars
  BY FinalStep DEF Final
<1> QED
  BY <1>1, Typed, PTL DEF Spec, OutcomeIsFinal

\* A job is of a search that was asked for.
JobsAreAsked == \A s \in Searches : receipt[s].state = "none" => job[s].status = "none"

LEMMA JobsAreAskedStep ==
    ASSUME TypeInv, JobsAreAsked, [Next]_vars
    PROVE  JobsAreAsked'
<1>0. Asked
  BY FinalStep
<1>1. CASE job' = job
  BY <1>0, <1>1 DEF JobsAreAsked, Asked
<1>2. ASSUME NEW s \in Searches, Search(s)
      PROVE  JobsAreAsked'
  BY <1>2, Rows, IsAskedFor DEF JobsAreAsked, OnlyReceipt, OnlyJob
<1>3. ASSUME NEW s \in Searches, Revoke(s)
      PROVE  JobsAreAsked'
  BY <1>0, <1>3, Rows, RevokeDoes DEF JobsAreAsked, OnlyReceipt, OnlyJob, Turns
<1>4. ASSUME NEW w \in Workers, NEW s \in Searches, Claim(w, s)
      PROVE  JobsAreAsked'
  <2>1. job[s].status # "none"
    BY <1>4 DEF Claim, Claimable
  <2>2. receipt' = receipt
    BY <1>4 DEF Claim
  <2>3. \A r \in Searches : r # s => job'[r] = job[r]
    BY <1>4, Rows, Claims
  <2> QED
    BY <2>1, <2>2, <2>3 DEF JobsAreAsked
<1>5. ASSUME NEW w \in Workers, Relinquish(w)
      PROVE  JobsAreAsked'
  BY <1>0, <1>5, Rows, RelinquishDoes DEF JobsAreAsked, Asked, OnlyReceipt, OnlyJob, AtAttempt
<1>6. ASSUME NEW w \in Workers, Fence(w)
      PROVE  JobsAreAsked'
  BY <1>0, <1>6, Rows, FenceDoes DEF JobsAreAsked, Asked, OnlyJob
<1>7. ASSUME NEW w \in Workers, Persist(w)
      PROVE  JobsAreAsked'
  <2>1. receipt' = receipt
    BY <1>7 DEF Persist
  <2> QED
    BY <1>7, <2>1, Rows, PersistDoes DEF JobsAreAsked, OnlyJob, HoldsJob
<1>8. CASE Tick
  BY <1>8, Rows, Ticks DEF JobsAreAsked
<1>9. ASSUME NEW w \in Workers, Step(w)
      PROVE  JobsAreAsked'
  <2>1. CASE Relinquish(w) \/ Fence(w) \/ Persist(w)
    BY <2>1, <1>5, <1>6, <1>7
  <2>2. CASE ~(Relinquish(w) \/ Fence(w) \/ Persist(w))
    <3>1. job' = job
      BY <1>9, <2>2 DEF Step, Repair, Recover, CheckActor, Begin, Configure, Lock, StartCall,
         Respond, Complete, Import, Settle, Mark, Fail
    <3> QED
      BY <1>1, <3>1
  <2> QED
    BY <2>1, <2>2
<1>10. ASSUME NEW e \in Employees, ReplaceKey(e) \/ Disconnect(e) \/ Deny(e) \/ Grant(e)
       PROVE  JobsAreAsked'
  BY <1>1, <1>10 DEF ReplaceKey, Disconnect, Deny, Grant
<1>11. ASSUME NEW w \in Workers, LockBusy(w) \/ Crash(w)
       PROVE  JobsAreAsked'
  BY <1>1, <1>11 DEF LockBusy, Crash
<1>12. CASE LoseLane \/ UNCHANGED vars
  BY <1>1, <1>12 DEF LoseLane, vars, rows
<1> QED
  BY <1>2, <1>3, <1>4, <1>8, <1>9, <1>10, <1>11, <1>12 DEF Next, ClaimSome

LEMMA OneSlotStep ==
    ASSUME TypeInv, OneSlot, [Next]_vars
    PROVE  OneSlot'
<1>1. CASE JobTokensFade
  BY <1>1 DEF OneSlot, JobTokensFade
<1>2. ASSUME NEW w \in Workers, NEW s \in Searches, Claim(w, s)
      PROVE  OneSlot'
  <2>1. \A r \in Searches : r # s => job[r].status # "running" /\ job'[r] = job[r]
    <3>1. ~SlotTaken(s)
      BY <1>2 DEF Claim, Claimable
    <3>2. \A r \in Searches : r # s => job'[r] = job[r]
      BY <1>2, Rows, Claims
    <3> QED
      BY <3>1, <3>2 DEF SlotTaken
  <2> QED
    BY <2>1 DEF OneSlot
<1>3. ASSUME NEW s \in Searches, Search(s) \/ Revoke(s)
      PROVE  JobTokensFade
  BY <1>3, SearchFades, RevokeFades DEF TokensFade
<1>4. ASSUME NEW e \in Employees, ReplaceKey(e) \/ Disconnect(e) \/ Deny(e) \/ Grant(e)
      PROVE  JobTokensFade
  BY <1>4, ReplaceKeyFades, DisconnectFades, DenyFades, GrantFades DEF TokensFade
<1>5. ASSUME NEW w \in Workers, Step(w)
      PROVE  JobTokensFade
  <2>1. CASE Begin(w)
    BY <2>1 DEF Begin, JobTokensFade
  <2> QED
    BY <1>5, <2>1, RepairFades, RecoverFades, CheckActorFades, ConfigureFades,
       LockFades, RelinquishFades, FenceFades, StartCallFades, RespondFades, CompleteFades,
       ImportFades, SettleFades, MarkFades, FailFades, PersistFades DEF Step, TokensFade
<1>6. ASSUME NEW w \in Workers, LockBusy(w) \/ Crash(w)
      PROVE  JobTokensFade
  BY <1>6, LockBusyFades, CrashFades DEF TokensFade
<1>7. CASE LoseLane \/ Tick
  BY <1>1, <1>7, LoseLaneFades, TickFades DEF TokensFade
<1>8. CASE UNCHANGED vars
  BY <1>8 DEF vars, rows, OneSlot
<1> QED
  BY <1>1, <1>2, <1>3, <1>4, <1>5, <1>6, <1>7, <1>8 DEF Next, ClaimSome

\* One worker has the lane.
OneLane == \A w, v \in lane : w = v

\* A connection has an account; one that is gone has none.
KeysHaveAccounts == \A e \in Employees :
    connection[e].status # "none" => connection[e].account # 0

LEMMA OneLaneStep ==
    ASSUME TypeInv, OneLane, [Next]_vars
    PROVE  OneLane'
<1>1. CASE lane' \subseteq lane
  BY <1>1 DEF OneLane
<1>2. ASSUME NEW w \in Workers, Step(w)
      PROVE  OneLane'
  <2>1. CASE Lock(w)
    BY <2>1 DEF Lock, OneLane
  <2>2. CASE Fence(w) \/ Complete(w)
    <3>1. lane' \subseteq lane
      BY <2>2, Rows, FenceDoes, CompleteDoes DEF Release
    <3> QED
      BY <1>1, <3>1
  <2>3. CASE ~Lock(w) /\ ~(Fence(w) \/ Complete(w))
    <3>1. lane' \subseteq lane
      BY <1>2, <2>3, ImportDoes, SettleDoes
         DEF Release, Step, Repair, Recover, CheckActor, Begin, Configure,
         Relinquish, StartCall, Respond, Mark, Fail, Persist
    <3> QED
      BY <1>1, <3>1
  <2> QED
    BY <2>1, <2>2, <2>3
<1>3. CASE ~\E w \in Workers : Step(w)
  <2>1. lane' \subseteq lane
    BY <1>3 DEF Next, ClaimSome, Claim, Search, Revoke, ReplaceKey, Disconnect, Deny, Grant,
       LockBusy, Crash, Release, LoseLane, Tick, vars, rows
  <2> QED
    BY <1>1, <2>1
<1> QED
  BY <1>2, <1>3

LEMMA KeysHaveAccountsStep ==
    ASSUME TypeInv, KeysHaveAccounts, [Next]_vars
    PROVE  KeysHaveAccounts'
<1>1. CASE connection' = connection
  BY <1>1 DEF KeysHaveAccounts
<1>2. ASSUME NEW e \in Employees, ReplaceKey(e)
      PROVE  KeysHaveAccounts'
  BY <1>2, Rows, KeyReplaced DEF KeysHaveAccounts
<1>3. ASSUME NEW e \in Employees, Disconnect(e)
      PROVE  KeysHaveAccounts'
  BY <1>3, Rows, KeyDisconnected DEF KeysHaveAccounts
<1>4. ASSUME NEW w \in Workers, Mark(w)
      PROVE  KeysHaveAccounts'
  <2>1. \A e \in Employees :
          /\ connection'[e].account = connection[e].account
          /\ connection'[e] = connection[e] \/ connection[e].status = "connected"
    BY <1>4, Rows, Marks
  <2> QED
    BY <2>1 DEF KeysHaveAccounts
<1>5. CASE /\ ~\E e \in Employees : ReplaceKey(e) \/ Disconnect(e)
           /\ ~\E w \in Workers : Mark(w)
  <2>1. connection' = connection
    BY <1>5, Writers DEF FewWrite
  <2> QED
    BY <1>1, <2>1
<1> QED
  BY <1>2, <1>3, <1>4, <1>5
-------------------------------------------------------------------------------
(* What a step does to the workers that do not take it *)

Begun(w) == AtAttempt(worker[w].search, worker[w].token)
Holds(w) == HoldsJob(worker[w].search, worker[w].token)

BaseInv == TypeInv /\ TokenInv /\ OneSlot /\ JobsAreAsked /\ OneLane /\ KeysHaveAccounts

\* An open attempt whose job its worker holds stays as it is or is revoked.
KeepsAttempt(w) ==
    LET s == worker[w].search IN
    Holds(w) /\ Begun(w) =>
        \/ /\ receipt'[s].state = "processing" /\ receipt'[s].token = worker[w].token
           /\ receipt'[s].authorized = receipt[s].authorized
           /\ receipt'[s].ambiguous = receipt[s].ambiguous
        \/ /\ receipt'[s].state = "revoked"
           /\ receipt'[s].ambiguous = (receipt[s].authorized \/ receipt[s].ambiguous)

\* A held job whose lease runs stays held.
KeepsJob(w) ==
    LET s == worker[w].search IN
    Holds(w) /\ job[s].lease > 0 =>
        /\ job'[s].status = "running" /\ job'[s].token = worker[w].token
        /\ job'[s].lease = job[s].lease

\* A worker gets a job only by a claim of its own, an attempt only by beginning it.
GetsNoJob(w) ==
    LET s == worker[w].search IN
    worker[w].token # NoToken =>
        (job'[s].status = "running" /\ job'[s].token = worker[w].token => Holds(w))
GetsNoAttempt(w) ==
    LET s == worker[w].search IN
    worker[w].token # NoToken =>
        (receipt'[s].state = "processing" /\ receipt'[s].token = worker[w].token => Begun(w))
GetsNothing(w) == GetsNoJob(w) /\ GetsNoAttempt(w)

Spares(w) == worker'[w] = worker[w] /\ KeepsAttempt(w) /\ KeepsJob(w) /\ GetsNothing(w)

LEMMA OneBeginner ==
    ASSUME BaseInv, NEW w \in Workers, NEW v \in Workers, w # v, Begun(w)
    PROVE  ~AtAttempt(worker[w].search, worker[v].token)
<1>1. worker[w].search \in Searches
  BY Rows DEF BaseInv
<1>2. worker[w].token # NoToken
  BY <1>1 DEF BaseInv, TokenInv, Begun, AtAttempt
<1>3. worker[v].token # worker[w].token
  BY <1>2 DEF BaseInv, TokenInv
<1> QED
  BY <1>3 DEF Begun, AtAttempt

LEMMA OneHolder ==
    ASSUME BaseInv, NEW w \in Workers, NEW v \in Workers, w # v, Holds(w)
    PROVE  ~Holds(v)
<1> SUFFICES ASSUME Holds(v) PROVE FALSE
  OBVIOUS
<1>1. worker[w].search \in Searches /\ worker[v].search \in Searches
  BY Rows DEF BaseInv
<1>2. worker[w].search = worker[v].search
  BY <1>1 DEF BaseInv, OneSlot, Holds, HoldsJob
<1>3. worker[w].token # NoToken /\ worker[w].token = worker[v].token
  BY <1>1, <1>2 DEF BaseInv, TokenInv, Holds, HoldsJob
<1> QED
  BY <1>3 DEF BaseInv, TokenInv

\* A recovery replaces an attempt whose worker has lost the job.
LEMMA NotRecovered ==
    ASSUME BaseInv, NEW w \in Workers, NEW v \in Workers, Holds(w), Begun(w)
    PROVE  ~AtAttempt(worker[w].search, worker[v].was)
<1>1. worker[w].search \in Searches
  BY Rows DEF BaseInv
<1>2. worker[w].token # NoToken /\ job[worker[w].search].token = worker[w].token
  BY <1>1 DEF BaseInv, TokenInv, Holds, HoldsJob
<1>3. worker[v].was # worker[w].token
  BY <1>1, <1>2 DEF BaseInv, TokenInv
<1> QED
  BY <1>3 DEF Begun, AtAttempt

LEMMA SearchSpares ==
    ASSUME BaseInv, NEW s \in Searches, Search(s)
    PROVE  \A w \in Workers : Spares(w)
<1> SUFFICES ASSUME NEW w \in Workers PROVE Spares(w)
  OBVIOUS
<1>1. worker'[w] = worker[w]
  BY Rows, IsAskedFor DEF BaseInv, Search, Alone
<1>2. KeepsAttempt(w)
  <2>1. receipt[s].state = "none" /\ \A r \in Searches : r # s => receipt'[r] = receipt[r]
    BY Rows, IsAskedFor DEF BaseInv, Search
  <2> QED
    BY <2>1, Rows DEF BaseInv, KeepsAttempt, Begun, AtAttempt
<1>3. KeepsJob(w)
  <2>1. job[s].status # "running"
    BY DEF BaseInv, JobsAreAsked, Search
  <2>2. \A r \in Searches : r # s => job'[r] = job[r]
    BY Rows, IsAskedFor DEF BaseInv
  <2> QED
    BY <2>1, <2>2, Rows DEF BaseInv, KeepsJob, Holds, HoldsJob
<1>4. GetsNoJob(w)
  BY Rows, IsAskedFor DEF BaseInv, TokenInv, GetsNoJob, Holds, HoldsJob, OnlyJob
<1>5. GetsNoAttempt(w)
  BY Rows, IsAskedFor
     DEF BaseInv, TokenInv, Search, GetsNoAttempt, Begun, AtAttempt, OnlyReceipt, Turns
<1> QED
  BY <1>1, <1>2, <1>3, <1>4, <1>5 DEF Spares, GetsNothing

LEMMA RevokeSpares ==
    ASSUME BaseInv, NEW s \in Searches, Revoke(s)
    PROVE  \A w \in Workers : Spares(w)
<1> SUFFICES ASSUME NEW w \in Workers PROVE Spares(w)
  OBVIOUS
<1>1. worker'[w] = worker[w]
  BY Rows, RevokeDoes DEF BaseInv, Revoke, Alone
<1>2. KeepsAttempt(w)
  BY Rows, RevokeDoes
     DEF BaseInv, TokenInv, KeepsAttempt, Holds, Begun, AtAttempt, HoldsJob, OnlyReceipt, Turns
<1>3. KeepsJob(w)
  BY Rows, RevokeDoes DEF BaseInv, TokenInv, Revoke, KeepsJob, Holds, HoldsJob, OnlyJob
<1>4. GetsNoJob(w)
  BY Rows, RevokeDoes DEF BaseInv, TokenInv, Revoke, GetsNoJob, Holds, HoldsJob, OnlyJob
<1>5. GetsNoAttempt(w)
  BY Rows, RevokeDoes
     DEF BaseInv, TokenInv, Revoke, GetsNoAttempt, Begun, AtAttempt, OnlyReceipt, Turns
<1> QED
  BY <1>1, <1>2, <1>3, <1>4, <1>5 DEF Spares, GetsNothing

LEMMA ReplaceKeySpares ==
    ASSUME BaseInv, NEW e \in Employees, ReplaceKey(e)
    PROVE  \A w \in Workers : Spares(w)
<1> SUFFICES ASSUME NEW w \in Workers PROVE Spares(w)
  OBVIOUS
<1>1. worker'[w] = worker[w]
  BY Rows, KeyReplaced DEF BaseInv, ReplaceKey, Alone
<1>2. KeepsAttempt(w)
  BY Rows, KeyReplaced
     DEF BaseInv, TokenInv, ReplaceKey, KeepsAttempt, Holds, Begun, AtAttempt, HoldsJob,
         OnlyReceipt, Turns
<1>3. KeepsJob(w)
  BY Rows, KeyReplaced DEF BaseInv, TokenInv, ReplaceKey, KeepsJob, Holds, HoldsJob, OnlyJob
<1>4. GetsNoJob(w)
  BY Rows, KeyReplaced DEF BaseInv, TokenInv, ReplaceKey, GetsNoJob, Holds, HoldsJob, OnlyJob
<1>5. GetsNoAttempt(w)
  BY Rows, KeyReplaced
     DEF BaseInv, TokenInv, ReplaceKey, GetsNoAttempt, Begun, AtAttempt, OnlyReceipt, Turns
<1> QED
  BY <1>1, <1>2, <1>3, <1>4, <1>5 DEF Spares, GetsNothing

LEMMA DisconnectSpares ==
    ASSUME BaseInv, NEW e \in Employees, Disconnect(e)
    PROVE  \A w \in Workers : Spares(w)
<1> SUFFICES ASSUME NEW w \in Workers PROVE Spares(w)
  OBVIOUS
<1>1. worker'[w] = worker[w]
  BY Rows, KeyDisconnected DEF BaseInv, Disconnect, Alone
<1>2. KeepsAttempt(w)
  BY Rows, KeyDisconnected
     DEF BaseInv, TokenInv, Disconnect, KeepsAttempt, Holds, Begun, AtAttempt, HoldsJob,
         OnlyReceipt, Turns
<1>3. KeepsJob(w)
  BY Rows, KeyDisconnected DEF BaseInv, TokenInv, Disconnect, KeepsJob, Holds, HoldsJob, OnlyJob
<1>4. GetsNoJob(w)
  BY Rows, KeyDisconnected DEF BaseInv, TokenInv, Disconnect, GetsNoJob, Holds, HoldsJob, OnlyJob
<1>5. GetsNoAttempt(w)
  BY Rows, KeyDisconnected
     DEF BaseInv, TokenInv, Disconnect, GetsNoAttempt, Begun, AtAttempt, OnlyReceipt, Turns
<1> QED
  BY <1>1, <1>2, <1>3, <1>4, <1>5 DEF Spares, GetsNothing

LEMMA DenySpares ==
    ASSUME BaseInv, NEW e \in Employees, Deny(e)
    PROVE  \A w \in Workers : Spares(w)
<1> SUFFICES ASSUME NEW w \in Workers PROVE Spares(w)
  OBVIOUS
<1>1. worker'[w] = worker[w]
  BY Rows DEF BaseInv, Deny, Alone
<1>2. KeepsAttempt(w)
  BY Rows
     DEF BaseInv, TokenInv, Deny, KeepsAttempt, Holds, Begun, AtAttempt, HoldsJob, OnlyReceipt,
         Turns
<1>3. KeepsJob(w)
  BY Rows DEF BaseInv, TokenInv, Deny, KeepsJob, Holds, HoldsJob, OnlyJob
<1>4. GetsNoJob(w)
  BY Rows DEF BaseInv, TokenInv, Deny, GetsNoJob, Holds, HoldsJob, OnlyJob
<1>5. GetsNoAttempt(w)
  BY Rows DEF BaseInv, TokenInv, Deny, GetsNoAttempt, Begun, AtAttempt, OnlyReceipt, Turns
<1> QED
  BY <1>1, <1>2, <1>3, <1>4, <1>5 DEF Spares, GetsNothing

LEMMA GrantSpares ==
    ASSUME BaseInv, NEW e \in Employees, Grant(e)
    PROVE  \A w \in Workers : Spares(w)
<1> SUFFICES ASSUME NEW w \in Workers PROVE Spares(w)
  OBVIOUS
<1>1. worker'[w] = worker[w]
  BY Rows DEF BaseInv, Grant, Alone
<1>2. KeepsAttempt(w)
  BY Rows
     DEF BaseInv, TokenInv, Grant, KeepsAttempt, Holds, Begun, AtAttempt, HoldsJob,
         OnlyReceipt, Turns
<1>3. KeepsJob(w)
  BY Rows DEF BaseInv, TokenInv, Grant, KeepsJob, Holds, HoldsJob, OnlyJob
<1>4. GetsNoJob(w)
  BY Rows DEF BaseInv, TokenInv, Grant, GetsNoJob, Holds, HoldsJob, OnlyJob
<1>5. GetsNoAttempt(w)
  BY Rows DEF BaseInv, TokenInv, Grant, GetsNoAttempt, Begun, AtAttempt, OnlyReceipt, Turns
<1> QED
  BY <1>1, <1>2, <1>3, <1>4, <1>5 DEF Spares, GetsNothing

LEMMA ClaimSpares ==
    ASSUME BaseInv, NEW v \in Workers, NEW s \in Searches, Claim(v, s)
    PROVE  \A w \in Workers : w # v => Spares(w)
<1> SUFFICES ASSUME NEW w \in Workers, w # v PROVE Spares(w)
  OBVIOUS
<1>0. /\ job'[s].token = FreshToken /\ \A r \in Searches : r # s => job'[r] = job[r]
      /\ \A u \in Workers : u # v => worker'[u] = worker[u]
  BY Rows, Claims DEF BaseInv
<1>1. worker'[w] = worker[w]
  BY <1>0
<1>2. KeepsAttempt(w)
  BY Rows, Claims
     DEF BaseInv, TokenInv, Claim, KeepsAttempt, Holds, Begun, AtAttempt, HoldsJob,
         OnlyReceipt, Turns
<1>3. KeepsJob(w)
  <2>1. job[s].status = "running" => job[s].lease = 0
    BY DEF Claim, Claimable
  <2> QED
    BY <1>0, <2>1, Rows DEF BaseInv, KeepsJob, Holds, HoldsJob
<1>4. GetsNothing(w)
  <2>1. worker[w].token # FreshToken /\ receipt' = receipt
    BY Fresh DEF Claim
  <2> QED
    BY <1>0, <2>1, Rows
       DEF BaseInv, GetsNothing, GetsNoJob, GetsNoAttempt, Holds, Begun, AtAttempt, HoldsJob
<1> QED
  BY <1>1, <1>2, <1>3, <1>4 DEF Spares

LEMMA RepairSpares ==
    ASSUME BaseInv, NEW v \in Workers, Repair(v)
    PROVE  \A w \in Workers : w # v => Spares(w)
<1> SUFFICES ASSUME NEW w \in Workers, w # v PROVE Spares(w)
  OBVIOUS
<1>1. worker'[w] = worker[w]
  BY Rows, RepairDoes DEF BaseInv, Repair, Alone
<1>2. KeepsAttempt(w)
  BY Rows, RepairDoes
     DEF BaseInv, TokenInv, Repair, KeepsAttempt, Holds, Begun, AtAttempt, HoldsJob,
         OnlyReceipt, Turns
<1>3. KeepsJob(w)
  BY Rows, RepairDoes DEF BaseInv, TokenInv, Repair, KeepsJob, Holds, HoldsJob, OnlyJob
<1>4. GetsNoJob(w)
  BY Rows, RepairDoes DEF BaseInv, TokenInv, Repair, GetsNoJob, Holds, HoldsJob, OnlyJob
<1>5. GetsNoAttempt(w)
  BY Rows, RepairDoes
     DEF BaseInv, TokenInv, Repair, GetsNoAttempt, Begun, AtAttempt, OnlyReceipt, Turns
<1> QED
  BY <1>1, <1>2, <1>3, <1>4, <1>5 DEF Spares, GetsNothing

LEMMA RecoverSpares ==
    ASSUME BaseInv, NEW v \in Workers, Recover(v)
    PROVE  \A w \in Workers : w # v => Spares(w)
<1> SUFFICES ASSUME NEW w \in Workers, w # v PROVE Spares(w)
  OBVIOUS
<1>1. worker'[w] = worker[w]
  BY Rows, RecoverDoes DEF BaseInv, Recover, Alone
<1>2. KeepsAttempt(w)
  <2>1. CASE worker[w].search = worker[v].search
    <3>1. Holds(w) /\ Begun(w) => receipt' = receipt
      BY <2>1, NotRecovered, RecoverDoes DEF BaseInv
    <3> QED
      BY <3>1 DEF KeepsAttempt, Begun, AtAttempt
  <2>2. CASE worker[w].search # worker[v].search
    <3>1. receipt'[worker[w].search] = receipt[worker[w].search]
      BY <2>2, Rows, RecoverDoes DEF BaseInv, OnlyReceipt
    <3> QED
      BY <3>1 DEF KeepsAttempt, Begun, AtAttempt
  <2> QED
    BY <2>1, <2>2
<1>3. KeepsJob(w)
  BY Rows, RecoverDoes DEF BaseInv, TokenInv, Recover, KeepsJob, Holds, HoldsJob, OnlyJob
<1>4. GetsNoJob(w)
  BY Rows, RecoverDoes DEF BaseInv, TokenInv, Recover, GetsNoJob, Holds, HoldsJob, OnlyJob
<1>5. GetsNoAttempt(w)
  BY Rows, RecoverDoes
     DEF BaseInv, TokenInv, Recover, GetsNoAttempt, Begun, AtAttempt, OnlyReceipt, Turns
<1> QED
  BY <1>1, <1>2, <1>3, <1>4, <1>5 DEF Spares, GetsNothing

LEMMA CheckActorSpares ==
    ASSUME BaseInv, NEW v \in Workers, CheckActor(v)
    PROVE  \A w \in Workers : w # v => Spares(w)
<1> SUFFICES ASSUME NEW w \in Workers, w # v PROVE Spares(w)
  OBVIOUS
<1>1. worker'[w] = worker[w]
  BY Rows, CheckActorDoes DEF BaseInv, CheckActor, Alone
<1>2. KeepsAttempt(w)
  BY Rows, CheckActorDoes
     DEF BaseInv, TokenInv, CheckActor, KeepsAttempt, Holds, Begun, AtAttempt, HoldsJob,
         OnlyReceipt, Turns
<1>3. KeepsJob(w)
  BY Rows, CheckActorDoes DEF BaseInv, TokenInv, CheckActor, KeepsJob, Holds, HoldsJob, OnlyJob
<1>4. GetsNoJob(w)
  BY Rows, CheckActorDoes DEF BaseInv, TokenInv, CheckActor, GetsNoJob, Holds, HoldsJob, OnlyJob
<1>5. GetsNoAttempt(w)
  BY Rows, CheckActorDoes
     DEF BaseInv, TokenInv, CheckActor, GetsNoAttempt, Begun, AtAttempt, OnlyReceipt, Turns
<1> QED
  BY <1>1, <1>2, <1>3, <1>4, <1>5 DEF Spares, GetsNothing

LEMMA BeginSpares ==
    ASSUME BaseInv, NEW v \in Workers, Begin(v)
    PROVE  \A w \in Workers : w # v => Spares(w)
<1> SUFFICES ASSUME NEW w \in Workers, w # v PROVE Spares(w)
  OBVIOUS
<1>1. worker'[w] = worker[w]
  BY Rows, BeginDoes DEF BaseInv, Begin, Alone
<1>2. KeepsAttempt(w)
  BY Rows, BeginDoes
     DEF BaseInv, TokenInv, Begin, KeepsAttempt, Holds, Begun, AtAttempt, HoldsJob,
         OnlyReceipt, Turns
<1>3. KeepsJob(w)
  BY Rows, BeginDoes DEF BaseInv, TokenInv, Begin, KeepsJob, Holds, HoldsJob, OnlyJob
<1>4. GetsNothing(w)
  <2> DEFINE s == worker[w].search
  <2>1. worker[w].token # NoToken => worker[v].token # worker[w].token
    BY DEF BaseInv, TokenInv
  <2>2. \/ receipt'[s] = receipt[s]
        \/ receipt'[s].token = worker[v].token
        \/ receipt'[s].state = "dead_letter"
    BY Rows, BeginDoes DEF BaseInv, OnlyReceipt, Turns
  <2>3. job' = job
    BY DEF Begin
  <2> QED
    BY <2>1, <2>2, <2>3 DEF GetsNothing, GetsNoJob, GetsNoAttempt, Holds, Begun, AtAttempt, HoldsJob
<1> QED
  BY <1>1, <1>2, <1>3, <1>4 DEF Spares

LEMMA ConfigureSpares ==
    ASSUME BaseInv, NEW v \in Workers, Configure(v)
    PROVE  \A w \in Workers : w # v => Spares(w)
<1> SUFFICES ASSUME NEW w \in Workers, w # v PROVE Spares(w)
  OBVIOUS
<1>1. worker'[w] = worker[w]
  BY Rows, Configures DEF BaseInv, Configure, Alone
<1>2. KeepsAttempt(w)
  BY Rows, Configures
     DEF BaseInv, TokenInv, Configure, KeepsAttempt, Holds, Begun, AtAttempt, HoldsJob,
         OnlyReceipt, Turns
<1>3. KeepsJob(w)
  BY Rows, Configures DEF BaseInv, TokenInv, Configure, KeepsJob, Holds, HoldsJob, OnlyJob
<1>4. GetsNoJob(w)
  BY Rows, Configures DEF BaseInv, TokenInv, Configure, GetsNoJob, Holds, HoldsJob, OnlyJob
<1>5. GetsNoAttempt(w)
  BY Rows, Configures
     DEF BaseInv, TokenInv, Configure, GetsNoAttempt, Begun, AtAttempt, OnlyReceipt, Turns
<1> QED
  BY <1>1, <1>2, <1>3, <1>4, <1>5 DEF Spares, GetsNothing

LEMMA LockSpares ==
    ASSUME BaseInv, NEW v \in Workers, Lock(v)
    PROVE  \A w \in Workers : w # v => Spares(w)
<1> SUFFICES ASSUME NEW w \in Workers, w # v PROVE Spares(w)
  OBVIOUS
<1>1. worker'[w] = worker[w]
  BY Rows, LockDoes DEF BaseInv, Lock, Alone
<1>2. KeepsAttempt(w)
  BY Rows, LockDoes
     DEF BaseInv, TokenInv, Lock, KeepsAttempt, Holds, Begun, AtAttempt, HoldsJob, OnlyReceipt,
         Turns
<1>3. KeepsJob(w)
  BY Rows, LockDoes DEF BaseInv, TokenInv, Lock, KeepsJob, Holds, HoldsJob, OnlyJob
<1>4. GetsNoJob(w)
  BY Rows, LockDoes DEF BaseInv, TokenInv, Lock, GetsNoJob, Holds, HoldsJob, OnlyJob
<1>5. GetsNoAttempt(w)
  BY Rows, LockDoes DEF BaseInv, TokenInv, Lock, GetsNoAttempt, Begun, AtAttempt, OnlyReceipt, Turns
<1> QED
  BY <1>1, <1>2, <1>3, <1>4, <1>5 DEF Spares, GetsNothing

LEMMA LockBusySpares ==
    ASSUME BaseInv, NEW v \in Workers, LockBusy(v)
    PROVE  \A w \in Workers : w # v => Spares(w)
<1> SUFFICES ASSUME NEW w \in Workers, w # v PROVE Spares(w)
  OBVIOUS
<1>1. worker'[w] = worker[w]
  BY Rows, LockBusyDoes DEF BaseInv, LockBusy, Alone
<1>2. KeepsAttempt(w)
  BY Rows, LockBusyDoes
     DEF BaseInv, TokenInv, LockBusy, KeepsAttempt, Holds, Begun, AtAttempt, HoldsJob,
         OnlyReceipt, Turns
<1>3. KeepsJob(w)
  BY Rows, LockBusyDoes DEF BaseInv, TokenInv, LockBusy, KeepsJob, Holds, HoldsJob, OnlyJob
<1>4. GetsNoJob(w)
  BY Rows, LockBusyDoes DEF BaseInv, TokenInv, LockBusy, GetsNoJob, Holds, HoldsJob, OnlyJob
<1>5. GetsNoAttempt(w)
  BY Rows, LockBusyDoes
     DEF BaseInv, TokenInv, LockBusy, GetsNoAttempt, Begun, AtAttempt, OnlyReceipt, Turns
<1> QED
  BY <1>1, <1>2, <1>3, <1>4, <1>5 DEF Spares, GetsNothing

LEMMA RelinquishSpares ==
    ASSUME BaseInv, NEW v \in Workers, Relinquish(v)
    PROVE  \A w \in Workers : w # v => Spares(w)
<1> SUFFICES ASSUME NEW w \in Workers, w # v PROVE Spares(w)
  OBVIOUS
<1>1. worker'[w] = worker[w]
  BY Rows, RelinquishDoes DEF BaseInv, Relinquish, Alone
<1>2. KeepsAttempt(w)
  <2>1. CASE worker[w].search = worker[v].search
    <3>1. Begun(w) => receipt' = receipt
      BY <2>1, OneBeginner, RelinquishDoes DEF BaseInv
    <3> QED
      BY <3>1 DEF KeepsAttempt, Begun, AtAttempt
  <2>2. CASE worker[w].search # worker[v].search
    <3>1. receipt'[worker[w].search] = receipt[worker[w].search]
      BY <2>2, Rows, RelinquishDoes DEF BaseInv, OnlyReceipt
    <3> QED
      BY <3>1 DEF KeepsAttempt, Begun, AtAttempt
  <2> QED
    BY <2>1, <2>2
<1>3. KeepsJob(w)
  <2>1. CASE worker[w].search = worker[v].search
    <3>1. Holds(w) => job' = job
      BY <2>1, OneHolder, RelinquishDoes DEF BaseInv, Holds
    <3> QED
      BY <3>1 DEF KeepsJob, Holds, HoldsJob
  <2>2. CASE worker[w].search # worker[v].search
    <3>1. job'[worker[w].search] = job[worker[w].search]
      BY <2>2, Rows, RelinquishDoes DEF BaseInv, OnlyJob
    <3> QED
      BY <3>1 DEF KeepsJob, Holds, HoldsJob
  <2> QED
    BY <2>1, <2>2
<1>4. GetsNoJob(w)
  BY Rows, RelinquishDoes DEF BaseInv, TokenInv, Relinquish, GetsNoJob, Holds, HoldsJob, OnlyJob
<1>5. GetsNoAttempt(w)
  <2>1. worker[w].search \in Searches
    BY Rows DEF BaseInv
  <2>2. \/ receipt'[worker[w].search] = receipt[worker[w].search]
        \/ receipt'[worker[w].search].state = "retry_scheduled"
    BY <2>1, RelinquishDoes DEF BaseInv, OnlyReceipt
  <2> QED
    BY <2>2 DEF GetsNoAttempt, Begun, AtAttempt
<1> QED
  BY <1>1, <1>2, <1>3, <1>4, <1>5 DEF Spares, GetsNothing

LEMMA FenceSpares ==
    ASSUME BaseInv, NEW v \in Workers, Fence(v)
    PROVE  \A w \in Workers : w # v => Spares(w)
<1> SUFFICES ASSUME NEW w \in Workers, w # v PROVE Spares(w)
  OBVIOUS
<1>1. worker'[w] = worker[w]
  BY Rows, FenceDoes DEF BaseInv, Fence, Alone
<1>2. KeepsAttempt(w)
  <2>1. CASE worker[w].search = worker[v].search
    <3>1. Begun(w) => receipt' = receipt
      BY <2>1, OneBeginner, FenceDoes DEF BaseInv
    <3> QED
      BY <3>1 DEF KeepsAttempt, Begun, AtAttempt
  <2>2. CASE worker[w].search # worker[v].search
    <3>1. receipt'[worker[w].search] = receipt[worker[w].search]
      BY <2>2, Rows, FenceDoes DEF BaseInv, OnlyReceipt
    <3> QED
      BY <3>1 DEF KeepsAttempt, Begun, AtAttempt
  <2> QED
    BY <2>1, <2>2
<1>3. KeepsJob(w)
  <2>1. CASE worker[w].search = worker[v].search
    <3>1. Holds(w) => job' = job
      BY <2>1, OneHolder, FenceDoes DEF BaseInv, Holds
    <3> QED
      BY <3>1 DEF KeepsJob, Holds, HoldsJob
  <2>2. CASE worker[w].search # worker[v].search
    <3>1. job'[worker[w].search] = job[worker[w].search]
      BY <2>2, Rows, FenceDoes DEF BaseInv, OnlyJob
    <3> QED
      BY <3>1 DEF KeepsJob, Holds, HoldsJob
  <2> QED
    BY <2>1, <2>2
<1>4. GetsNothing(w)
  <2> DEFINE s == worker[w].search
  <2>1. job'[s] = job[s] \/ (job'[s].status = job[s].status /\ job'[s].token = job[s].token)
    BY Rows, FenceDoes DEF BaseInv, OnlyJob
  <2>2. \/ receipt'[s] = receipt[s]
        \/ receipt'[s].state = receipt[s].state /\ receipt'[s].token = receipt[s].token
        \/ receipt'[s].state = "revoked"
    BY Rows, FenceDoes DEF BaseInv, OnlyReceipt, Turns
  <2> QED
    BY <2>1, <2>2 DEF GetsNothing, GetsNoJob, GetsNoAttempt, Holds, Begun, AtAttempt, HoldsJob
<1> QED
  BY <1>1, <1>2, <1>3, <1>4 DEF Spares

LEMMA StartCallSpares ==
    ASSUME BaseInv, NEW v \in Workers, StartCall(v)
    PROVE  \A w \in Workers : w # v => Spares(w)
<1> SUFFICES ASSUME NEW w \in Workers, w # v PROVE Spares(w)
  OBVIOUS
<1>1. worker'[w] = worker[w]
  BY Rows, StartCallDoes DEF BaseInv, StartCall, Alone
<1>2. KeepsAttempt(w)
  BY Rows, StartCallDoes
     DEF BaseInv, TokenInv, StartCall, KeepsAttempt, Holds, Begun, AtAttempt, HoldsJob,
         OnlyReceipt, Turns
<1>3. KeepsJob(w)
  BY Rows, StartCallDoes DEF BaseInv, TokenInv, StartCall, KeepsJob, Holds, HoldsJob, OnlyJob
<1>4. GetsNoJob(w)
  BY Rows, StartCallDoes DEF BaseInv, TokenInv, StartCall, GetsNoJob, Holds, HoldsJob, OnlyJob
<1>5. GetsNoAttempt(w)
  BY Rows, StartCallDoes
     DEF BaseInv, TokenInv, StartCall, GetsNoAttempt, Begun, AtAttempt, OnlyReceipt, Turns
<1> QED
  BY <1>1, <1>2, <1>3, <1>4, <1>5 DEF Spares, GetsNothing

LEMMA RespondSpares ==
    ASSUME BaseInv, NEW v \in Workers, Respond(v)
    PROVE  \A w \in Workers : w # v => Spares(w)
<1> SUFFICES ASSUME NEW w \in Workers, w # v PROVE Spares(w)
  OBVIOUS
<1>1. worker'[w] = worker[w]
  BY Rows, RespondDoes DEF BaseInv, Alone
<1>2. KeepsAttempt(w)
  BY Rows, RespondDoes
     DEF BaseInv, TokenInv, Respond, KeepsAttempt, Holds, Begun, AtAttempt, HoldsJob,
         OnlyReceipt, Turns
<1>3. KeepsJob(w)
  BY Rows, RespondDoes DEF BaseInv, TokenInv, Respond, KeepsJob, Holds, HoldsJob, OnlyJob
<1>4. GetsNoJob(w)
  BY Rows, RespondDoes DEF BaseInv, TokenInv, Respond, GetsNoJob, Holds, HoldsJob, OnlyJob
<1>5. GetsNoAttempt(w)
  BY Rows, RespondDoes
     DEF BaseInv, TokenInv, Respond, GetsNoAttempt, Begun, AtAttempt, OnlyReceipt, Turns
<1> QED
  BY <1>1, <1>2, <1>3, <1>4, <1>5 DEF Spares, GetsNothing

LEMMA CompleteSpares ==
    ASSUME BaseInv, NEW v \in Workers, Complete(v)
    PROVE  \A w \in Workers : w # v => Spares(w)
<1> SUFFICES ASSUME NEW w \in Workers, w # v PROVE Spares(w)
  OBVIOUS
<1>1. worker'[w] = worker[w]
  BY Rows, CompleteDoes DEF BaseInv, Complete, Alone
<1>2. KeepsAttempt(w)
  <2>1. CASE worker[w].search = worker[v].search
    <3>1. Begun(w) => receipt' = receipt
      BY <2>1, OneBeginner, CompleteDoes DEF BaseInv
    <3> QED
      BY <3>1 DEF KeepsAttempt, Begun, AtAttempt
  <2>2. CASE worker[w].search # worker[v].search
    <3>1. receipt'[worker[w].search] = receipt[worker[w].search]
      BY <2>2, Rows, CompleteDoes DEF BaseInv, OnlyReceipt
    <3> QED
      BY <3>1 DEF KeepsAttempt, Begun, AtAttempt
  <2> QED
    BY <2>1, <2>2
<1>3. KeepsJob(w)
  BY Rows, CompleteDoes DEF BaseInv, TokenInv, Complete, KeepsJob, Holds, HoldsJob, OnlyJob
<1>4. GetsNoJob(w)
  BY Rows, CompleteDoes DEF BaseInv, TokenInv, Complete, GetsNoJob, Holds, HoldsJob, OnlyJob
<1>5. GetsNoAttempt(w)
  BY Rows, CompleteDoes DEF BaseInv, TokenInv, GetsNoAttempt, Begun, AtAttempt, OnlyReceipt, Turns
<1> QED
  BY <1>1, <1>2, <1>3, <1>4, <1>5 DEF Spares, GetsNothing

LEMMA ImportSpares ==
    ASSUME BaseInv, NEW v \in Workers, Import(v)
    PROVE  \A w \in Workers : w # v => Spares(w)
<1> SUFFICES ASSUME NEW w \in Workers, w # v PROVE Spares(w)
  OBVIOUS
<1>1. worker'[w] = worker[w]
  BY Rows, ImportDoes DEF BaseInv, Import, Alone
<1>2. KeepsAttempt(w)
  BY Rows, ImportDoes
     DEF BaseInv, TokenInv, Import, KeepsAttempt, Holds, Begun, AtAttempt, HoldsJob,
         OnlyReceipt, Turns
<1>3. KeepsJob(w)
  BY Rows, ImportDoes DEF BaseInv, TokenInv, Import, KeepsJob, Holds, HoldsJob, OnlyJob
<1>4. GetsNoJob(w)
  BY Rows, ImportDoes DEF BaseInv, TokenInv, Import, GetsNoJob, Holds, HoldsJob, OnlyJob
<1>5. GetsNoAttempt(w)
  BY Rows, ImportDoes
     DEF BaseInv, TokenInv, Import, GetsNoAttempt, Begun, AtAttempt, OnlyReceipt, Turns
<1> QED
  BY <1>1, <1>2, <1>3, <1>4, <1>5 DEF Spares, GetsNothing

LEMMA SettleSpares ==
    ASSUME BaseInv, NEW v \in Workers, Settle(v)
    PROVE  \A w \in Workers : w # v => Spares(w)
<1> SUFFICES ASSUME NEW w \in Workers, w # v PROVE Spares(w)
  OBVIOUS
<1>1. worker'[w] = worker[w]
  BY Rows, SettleDoes DEF BaseInv, Settle, Alone
<1>2. KeepsAttempt(w)
  <2>1. CASE worker[w].search = worker[v].search
    <3>1. Begun(w) => receipt' = receipt
      BY <2>1, OneBeginner, SettleDoes DEF BaseInv
    <3> QED
      BY <3>1 DEF KeepsAttempt, Begun, AtAttempt
  <2>2. CASE worker[w].search # worker[v].search
    <3>1. receipt'[worker[w].search] = receipt[worker[w].search]
      BY <2>2, Rows, SettleDoes DEF BaseInv, OnlyReceipt
    <3> QED
      BY <3>1 DEF KeepsAttempt, Begun, AtAttempt
  <2> QED
    BY <2>1, <2>2
<1>3. KeepsJob(w)
  BY Rows, SettleDoes DEF BaseInv, TokenInv, Settle, KeepsJob, Holds, HoldsJob, OnlyJob
<1>4. GetsNoJob(w)
  BY Rows, SettleDoes DEF BaseInv, TokenInv, Settle, GetsNoJob, Holds, HoldsJob, OnlyJob
<1>5. GetsNoAttempt(w)
  <2>1. \A s \in Searches : /\ receipt'[s].state = receipt[s].state
                            /\ receipt'[s].token = receipt[s].token
    BY SettleDoes DEF BaseInv, OnlyReceipt
  <2> QED
    BY <2>1, Rows DEF BaseInv, GetsNoAttempt, Begun, AtAttempt
<1> QED
  BY <1>1, <1>2, <1>3, <1>4, <1>5 DEF Spares, GetsNothing

LEMMA MarkSpares ==
    ASSUME BaseInv, NEW v \in Workers, Mark(v)
    PROVE  \A w \in Workers : w # v => Spares(w)
<1> SUFFICES ASSUME NEW w \in Workers, w # v PROVE Spares(w)
  OBVIOUS
<1>1. worker'[w] = worker[w]
  BY Rows, MarkDoes, Marks DEF BaseInv, Mark, Alone
<1>2. KeepsAttempt(w)
  BY Rows, MarkDoes, Marks
     DEF BaseInv, TokenInv, Mark, KeepsAttempt, Holds, Begun, AtAttempt, HoldsJob, OnlyReceipt,
         Turns
<1>3. KeepsJob(w)
  BY Rows, MarkDoes, Marks DEF BaseInv, TokenInv, Mark, KeepsJob, Holds, HoldsJob, OnlyJob
<1>4. GetsNoJob(w)
  BY Rows, MarkDoes, Marks DEF BaseInv, TokenInv, Mark, GetsNoJob, Holds, HoldsJob, OnlyJob
<1>5. GetsNoAttempt(w)
  BY Rows, MarkDoes, Marks
     DEF BaseInv, TokenInv, Mark, GetsNoAttempt, Begun, AtAttempt, OnlyReceipt, Turns
<1> QED
  BY <1>1, <1>2, <1>3, <1>4, <1>5 DEF Spares, GetsNothing

LEMMA FailSpares ==
    ASSUME BaseInv, NEW v \in Workers, Fail(v)
    PROVE  \A w \in Workers : w # v => Spares(w)
<1> SUFFICES ASSUME NEW w \in Workers, w # v PROVE Spares(w)
  OBVIOUS
<1>1. worker'[w] = worker[w]
  BY Rows, FailDoes DEF BaseInv, Fail, Alone
<1>2. KeepsAttempt(w)
  <2>1. CASE worker[w].search = worker[v].search
    <3>1. Begun(w) => receipt' = receipt
      BY <2>1, OneBeginner, FailDoes DEF BaseInv
    <3> QED
      BY <3>1 DEF KeepsAttempt, Begun, AtAttempt
  <2>2. CASE worker[w].search # worker[v].search
    <3>1. receipt'[worker[w].search] = receipt[worker[w].search]
      BY <2>2, Rows, FailDoes DEF BaseInv, OnlyReceipt
    <3> QED
      BY <3>1 DEF KeepsAttempt, Begun, AtAttempt
  <2> QED
    BY <2>1, <2>2
<1>3. KeepsJob(w)
  BY Rows, FailDoes DEF BaseInv, TokenInv, Fail, KeepsJob, Holds, HoldsJob, OnlyJob
<1>4. GetsNoJob(w)
  BY Rows, FailDoes DEF BaseInv, TokenInv, Fail, GetsNoJob, Holds, HoldsJob, OnlyJob
<1>5. GetsNoAttempt(w)
  BY Rows, FailDoes DEF BaseInv, TokenInv, Fail, GetsNoAttempt, Begun, AtAttempt, OnlyReceipt, Turns
<1> QED
  BY <1>1, <1>2, <1>3, <1>4, <1>5 DEF Spares, GetsNothing

LEMMA PersistSpares ==
    ASSUME BaseInv, NEW v \in Workers, Persist(v)
    PROVE  \A w \in Workers : w # v => Spares(w)
<1> SUFFICES ASSUME NEW w \in Workers, w # v PROVE Spares(w)
  OBVIOUS
<1>1. worker'[w] = worker[w]
  BY Rows, PersistDoes DEF BaseInv, Persist, Alone
<1>2. KeepsAttempt(w)
  BY Rows, PersistDoes
     DEF BaseInv, TokenInv, Persist, KeepsAttempt, Holds, Begun, AtAttempt, HoldsJob,
         OnlyReceipt, Turns
<1>3. KeepsJob(w)
  <2>1. CASE worker[w].search = worker[v].search
    <3>1. Holds(w) => job' = job
      BY <2>1, OneHolder, PersistDoes DEF BaseInv, Holds
    <3> QED
      BY <3>1 DEF KeepsJob, Holds, HoldsJob
  <2>2. CASE worker[w].search # worker[v].search
    <3>1. job'[worker[w].search] = job[worker[w].search]
      BY <2>2, Rows, PersistDoes DEF BaseInv, OnlyJob
    <3> QED
      BY <3>1 DEF KeepsJob, Holds, HoldsJob
  <2> QED
    BY <2>1, <2>2
<1>4. GetsNoJob(w)
  BY Rows, PersistDoes DEF BaseInv, TokenInv, Persist, GetsNoJob, Holds, HoldsJob, OnlyJob
<1>5. GetsNoAttempt(w)
  BY Rows, PersistDoes
     DEF BaseInv, TokenInv, Persist, GetsNoAttempt, Begun, AtAttempt, OnlyReceipt, Turns
<1> QED
  BY <1>1, <1>2, <1>3, <1>4, <1>5 DEF Spares, GetsNothing

LEMMA CrashSpares ==
    ASSUME BaseInv, NEW v \in Workers, Crash(v)
    PROVE  \A w \in Workers : w # v => Spares(w)
<1> SUFFICES ASSUME NEW w \in Workers, w # v PROVE Spares(w)
  OBVIOUS
<1>1. worker'[w] = worker[w]
  BY Rows, CrashDoes DEF BaseInv, Crash, Alone
<1>2. KeepsAttempt(w)
  BY Rows, CrashDoes
     DEF BaseInv, TokenInv, Crash, KeepsAttempt, Holds, Begun, AtAttempt, HoldsJob,
         OnlyReceipt, Turns
<1>3. KeepsJob(w)
  BY Rows, CrashDoes DEF BaseInv, TokenInv, Crash, KeepsJob, Holds, HoldsJob, OnlyJob
<1>4. GetsNoJob(w)
  BY Rows, CrashDoes DEF BaseInv, TokenInv, Crash, GetsNoJob, Holds, HoldsJob, OnlyJob
<1>5. GetsNoAttempt(w)
  BY Rows, CrashDoes
     DEF BaseInv, TokenInv, Crash, GetsNoAttempt, Begun, AtAttempt, OnlyReceipt, Turns
<1> QED
  BY <1>1, <1>2, <1>3, <1>4, <1>5 DEF Spares, GetsNothing
-------------------------------------------------------------------------------
(* A worker that holds the job *)

PastBegin == {"configure", "lock", "relinquish", "fence", "start", "call", "complete", "settle",
              "mark", "fail"}

\* A worker that still holds the job has its attempt open, unless it was revoked.
HolderAt(w) == Holds(w) /\ worker[w].pc \in PastBegin =>
    Begun(w) \/ receipt[worker[w].search].state = "revoked"
HolderInv == \A w \in Workers : HolderAt(w)

LEMMA SparedHolder ==
    ASSUME BaseInv, NEW w \in Workers, HolderAt(w), Spares(w), Final
    PROVE  HolderAt(w)'
<1> DEFINE s == worker[w].search
<1> SUFFICES ASSUME Holds(w)', worker[w].pc \in PastBegin
             PROVE  (Begun(w) \/ receipt[s].state = "revoked")'
  BY DEF HolderAt, Spares
<1>1. worker'[w] = worker[w] /\ s \in Searches /\ worker[w].token # NoToken
  BY Rows DEF BaseInv, TokenInv, Spares, PastBegin
<1>2. Holds(w)
  BY <1>1 DEF Spares, GetsNothing, GetsNoJob, GetsNoAttempt, Holds, HoldsJob
<1>3. CASE Begun(w)
  BY <1>1, <1>2, <1>3 DEF Spares, KeepsAttempt, Begun, AtAttempt
<1>4. CASE receipt[s].state = "revoked"
  BY <1>1, <1>4 DEF Final, Settled, TerminalStates
<1> QED
  BY <1>2, <1>3, <1>4 DEF HolderAt

\* Own steps that keep the attempt open, or leave the part after Begin.
LEMMA OwnHolder ==
    ASSUME BaseInv, HolderInv, NEW w \in Workers, Step(w) \/ LockBusy(w) \/ Crash(w), Final
    PROVE  HolderAt(w)'
<1> DEFINE s == worker[w].search
<1>0. TypeInv /\ s \in Searches /\ HolderAt(w)
  BY Rows DEF BaseInv, HolderInv
<1>1. CASE Begin(w)
  BY <1>0, <1>1, BeginDoes DEF HolderAt, PastBegin, Begun, AtAttempt, GoesOn, Persists
<1>2. CASE Repair(w) \/ Recover(w) \/ CheckActor(w) \/ Relinquish(w) \/ Import(w) \/ Fail(w)
           \/ Persist(w) \/ Crash(w) \/ Complete(w)
  <2>1. worker'[w].pc \notin PastBegin
    <3>1. CASE Repair(w)
      BY <1>0, <3>1, RepairDoes DEF PastBegin, GoesOn, Idles, Persists
    <3>2. CASE Recover(w)
      BY <1>0, <3>2, RecoverDoes DEF PastBegin, GoesOn, Idles, Persists
    <3>3. CASE CheckActor(w)
      BY <1>0, <3>3, CheckActorDoes DEF PastBegin, GoesOn, Idles, Persists
    <3>4. CASE Relinquish(w)
      BY <1>0, <3>4, RelinquishDoes DEF PastBegin, GoesOn, Idles, Persists
    <3>5. CASE Import(w)
      BY <1>0, <3>5, ImportDoes DEF PastBegin, GoesOn, Idles, Persists
    <3>6. CASE Fail(w)
      BY <1>0, <3>6, FailDoes DEF PastBegin, GoesOn, Idles, Persists
    <3>7. CASE Persist(w)
      BY <1>0, <3>7, PersistDoes DEF PastBegin, GoesOn, Idles, Persists
    <3>8. CASE Crash(w)
      BY <1>0, <3>8, CrashDoes DEF PastBegin, GoesOn, Idles, Persists
    <3>9. CASE Complete(w)
      BY <1>0, <3>9, CompleteDoes DEF PastBegin, GoesOn, Idles, Persists
    <3> QED
      BY <1>2, <3>1, <3>2, <3>3, <3>4, <3>5, <3>6, <3>7, <3>8, <3>9
  <2> QED
    BY <2>1 DEF HolderAt
<1>3. CASE Lock(w) \/ LockBusy(w) \/ Mark(w)
  <2>1. /\ worker'[w].search = s /\ worker'[w].token = worker[w].token
        /\ worker[w].pc \in PastBegin /\ receipt' = receipt /\ job' = job
    BY <1>0, <1>3, LockDoes, LockBusyDoes, MarkDoes DEF Lock, LockBusy, Mark, GoesOn, PastBegin
  <2> QED
    BY <1>0, <2>1 DEF HolderAt, Holds, HoldsJob, Begun, AtAttempt
<1>4. CASE Configure(w)
  <2>1. /\ worker'[w].search = s /\ worker'[w].token = worker[w].token
        /\ worker[w].pc \in PastBegin /\ receipt' = receipt /\ job' = job
    BY <1>0, <1>4, Rows, Configures DEF Configure, PastBegin
  <2> QED
    BY <1>0, <2>1 DEF HolderAt, Holds, HoldsJob, Begun, AtAttempt
<1>5. CASE Fence(w)
  <2>1. worker[w].pc \in PastBegin
    BY <1>5 DEF Fence, PastBegin
  <2>2. \/ worker'[w].pc \notin PastBegin
        \/ /\ worker'[w].search = s /\ worker'[w].token = worker[w].token
           /\ receipt'[s].state = receipt[s].state /\ receipt'[s].token = receipt[s].token
           /\ job'[s].status = job[s].status /\ job'[s].token = job[s].token
    BY <1>0, <1>5, FenceDoes DEF PastBegin, GoesOn, Idles, Persists
  <2> QED
    BY <1>0, <2>1, <2>2 DEF HolderAt, Holds, HoldsJob, Begun, AtAttempt
<1>6. CASE StartCall(w)
  <2>1. receipt' = receipt /\ job' = job /\ worker[w].pc \in PastBegin
    BY <1>6 DEF StartCall, PastBegin
  <2>2. \/ worker'[w].search = s /\ worker'[w].token = worker[w].token
        \/ worker'[w].pc \notin PastBegin
    BY <1>0, <1>6, StartCallDoes DEF PastBegin, Idles
  <2> QED
    BY <1>0, <2>1, <2>2 DEF HolderAt, Holds, HoldsJob, Begun, AtAttempt
<1>7. CASE Respond(w)
  <2>1. receipt' = receipt /\ job' = job /\ worker[w].pc \in PastBegin
    BY <1>7 DEF Respond, PastBegin
  <2>2. worker'[w].search = s /\ worker'[w].token = worker[w].token
    BY <1>0, <1>7, RespondDoes
  <2> QED
    BY <1>0, <2>1, <2>2 DEF HolderAt, Holds, HoldsJob, Begun, AtAttempt
<1>8. CASE Settle(w)
  <2>1. job' = job /\ worker[w].pc \in PastBegin
    BY <1>8 DEF Settle, PastBegin
  <2>2. \/ worker'[w].search = s /\ worker'[w].token = worker[w].token
        \/ worker'[w].pc \notin PastBegin
    BY <1>0, <1>8, SettleDoes DEF PastBegin, Idles, GoesOn
  <2>3. receipt'[s].state = receipt[s].state /\ receipt'[s].token = receipt[s].token
    BY <1>0, <1>8, SettleDoes
  <2> QED
    BY <1>0, <2>1, <2>2, <2>3 DEF HolderAt, Holds, HoldsJob, Begun, AtAttempt
<1> QED
  BY <1>1, <1>2, <1>3, <1>4, <1>5, <1>6, <1>7, <1>8 DEF Step

LEMMA WorkerSpares ==
    ASSUME BaseInv, NEW v \in Workers, Step(v) \/ LockBusy(v) \/ Crash(v)
    PROVE  \A w \in Workers : w # v => Spares(w)
BY RepairSpares, RecoverSpares, CheckActorSpares, BeginSpares, ConfigureSpares, LockSpares,
   RelinquishSpares, FenceSpares, StartCallSpares, RespondSpares, CompleteSpares, ImportSpares,
   SettleSpares, MarkSpares, FailSpares, PersistSpares, LockBusySpares, CrashSpares DEF Step

LEMMA CommandSpares ==
    ASSUME BaseInv,
           \/ \E s \in Searches : Search(s) \/ Revoke(s)
           \/ \E e \in Employees : ReplaceKey(e) \/ Disconnect(e) \/ Deny(e) \/ Grant(e)
           \/ LoseLane \/ UNCHANGED vars
    PROVE  \A w \in Workers : Spares(w)
<1>1. ASSUME NEW s \in Searches, Search(s) \/ Revoke(s)
      PROVE  \A w \in Workers : Spares(w)
  BY <1>1, SearchSpares, RevokeSpares
<1>2. ASSUME NEW e \in Employees, ReplaceKey(e) \/ Disconnect(e) \/ Deny(e) \/ Grant(e)
      PROVE  \A w \in Workers : Spares(w)
  BY <1>2, ReplaceKeySpares, DisconnectSpares, DenySpares, GrantSpares
<1>3. CASE LoseLane \/ UNCHANGED vars
  <2>1. worker' = worker /\ job' = job /\ receipt' = receipt
    BY <1>3 DEF LoseLane, vars, rows
  <2> QED
    BY <2>1
       DEF Spares, KeepsAttempt, KeepsJob, GetsNothing, GetsNoJob, GetsNoAttempt, Holds,
           HoldsJob, Begun, AtAttempt
<1> QED
  BY <1>1, <1>2, <1>3

LEMMA HolderStep ==
    ASSUME BaseInv, HolderInv, [Next]_vars
    PROVE  HolderInv'
<1>0. Final /\ TypeInv
  BY FinalStep DEF BaseInv
<1>1. ASSUME NEW v \in Workers, Step(v) \/ LockBusy(v) \/ Crash(v)
      PROVE  HolderInv'
  <2>1. \A w \in Workers : w # v => HolderAt(w)'
    BY <1>0, <1>1, WorkerSpares, SparedHolder DEF HolderInv
  <2>2. HolderAt(v)'
    BY <1>0, <1>1, OwnHolder
  <2> QED
    BY <2>1, <2>2 DEF HolderInv
<1>2. ASSUME NEW v \in Workers, NEW s \in Searches, Claim(v, s)
      PROVE  HolderInv'
  <2>1. \A w \in Workers : w # v => HolderAt(w)'
    BY <1>0, <1>2, ClaimSpares, SparedHolder DEF HolderInv
  <2>2. worker'[v].pc \notin PastBegin
    BY <1>0, <1>2, Rows, Claims DEF FirstStep, PastBegin
  <2> QED
    BY <2>1, <2>2 DEF HolderInv, HolderAt
<1>3. CASE \/ \E s \in Searches : Search(s) \/ Revoke(s)
           \/ \E e \in Employees : ReplaceKey(e) \/ Disconnect(e) \/ Deny(e) \/ Grant(e)
           \/ LoseLane \/ UNCHANGED vars
  BY <1>0, <1>3, CommandSpares, SparedHolder DEF HolderInv
<1>4. CASE Tick
  BY <1>0, <1>4, Rows, Ticks DEF HolderInv, HolderAt, Holds, HoldsJob, Begun, AtAttempt
<1> QED
  BY <1>1, <1>2, <1>3, <1>4 DEF Next, ClaimSome
-------------------------------------------------------------------------------
(* The invariant *)

LEMMA BaseInit ==
    ASSUME Init
    PROVE  BaseInv /\ HolderInv
<1>1. /\ \A w \in Workers : worker[w].pc = "idle" /\ worker[w].token = NoToken
                            /\ worker[w].was = NoToken
      /\ \A s \in Searches : job[s].status = "none" /\ job[s].token = NoToken
                             /\ receipt[s].state = "none" /\ receipt[s].token = NoToken
  BY DEF Init, IdleWorker, NoJob, NoReceipt
<1>2. TypeInv
  BY TypeInit
<1>3. TokenInv
  BY <1>1 DEF TokenInv
<1>4. OneSlot /\ JobsAreAsked
  BY <1>1 DEF OneSlot, JobsAreAsked
<1>5. OneLane /\ KeysHaveAccounts
  BY DEF Init, OneLane, KeysHaveAccounts
<1>6. HolderInv
  BY <1>1 DEF HolderInv, HolderAt, PastBegin
<1> QED
  BY <1>2, <1>3, <1>4, <1>5, <1>6 DEF BaseInv

LEMMA BaseStep ==
    ASSUME BaseInv, [Next]_vars
    PROVE  BaseInv'
BY TypeStep, TokenStep, OneSlotStep, JobsAreAskedStep, OneLaneStep, KeysHaveAccountsStep DEF BaseInv

\* Whatever workers outlive, lose or recover: tokens, slot, lane and attempts have
\* one holder.
THEOREM BaseHolds == Spec => [](BaseInv /\ HolderInv)
<1>1. Init => BaseInv /\ HolderInv
  BY BaseInit
<1>2. BaseInv /\ HolderInv /\ [Next]_vars => (BaseInv /\ HolderInv)'
  BY BaseStep, HolderStep
<1> QED
  BY <1>1, <1>2, PTL DEF Spec

\* One job holds the provider's slot, also when a job is taken over after its
\* lease, given back or ended by a revocation.
THEOREM OneSlotForAll == Spec => []OneSlot
<1>1. BaseInv => OneSlot
  BY DEF BaseInv
<1> QED
  BY <1>1, BaseHolds, PTL
=============================================================================
