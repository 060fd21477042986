-------------------------- MODULE ApolloCallProofs --------------------------
(***************************************************************************)
(* A request to Apollo for every number of searches, workers, employees,   *)
(* keys, leases and faults: there is one, under the job's lease and with   *)
(* the owner's key; what its worker reports, imports and waits for; and    *)
(* what is said of a call that was lost.                                   *)
(***************************************************************************)
EXTENDS ApolloDispatchProofs

USE ApolloAssumption

-------------------------------------------------------------------------------
(* A call under way, or allowed *)

\* The worker calls Apollo, or will with the lane it has.
Hot(w) == worker[w].pc = "call" \/ (worker[w].pc = "start" /\ w \in lane)

\* The job's lease outlasts the call, whichever limit ends it.
LeaseOutlasts(w) ==
    LET s == worker[w].search IN
    /\ worker[w].pc = "call" => job[s].lease > worker[w].timer
    /\ worker[w].pc = "start" => job[s].lease > laneIdle + CallLimit

\* The dispatch is recorded: the attempt is authorised, or was revoked as one that was.
Recorded(w) ==
    LET s == worker[w].search IN
    \/ Begun(w) /\ receipt[s].authorized = TRUE
    \/ receipt[s].state = "revoked" /\ receipt[s].ambiguous = TRUE

HasKey(w) ==
    /\ Key(worker[w].search).account # 0
    /\ Key(worker[w].search).version = worker[w].cred

HotAt(w) == Hot(w) => Holds(w) /\ LeaseOutlasts(w) /\ Recorded(w) /\ HasKey(w)
HotInv == \A w \in Workers : HotAt(w)

\* Nobody else lengthens the lane's idle time or gives the worker the lane.
KeepsLane(w) == w \in lane' => w \in lane /\ laneIdle' <= laneIdle

\* No key changes but its status.
KeepsKeys == \A e \in Employees :
    connection'[e].account = connection[e].account
    /\ connection'[e].version = connection[e].version

LEMMA HotNumbers ==
    ASSUME TypeInv, NEW w \in Workers, NEW s \in Searches
    PROVE  /\ worker[w].timer \in Nat /\ laneIdle \in Nat /\ laneIdle <= LaneIdle
           /\ job[s].lease \in Nat
           /\ receipt[s].authorized \in BOOLEAN /\ receipt[s].ambiguous \in BOOLEAN
<1>1. worker[w] \in WorkerStates /\ job[s] \in Jobs /\ receipt[s] \in Receipts
  BY Rows
<1>2. laneIdle \in 0 .. LaneIdle
  BY DEF TypeInv, Others
<1> QED
  BY <1>1, <1>2 DEF WorkerStates, Jobs, Receipts

\* A dispatch that others leave alone stays covered.
LEMMA SparedHot ==
    ASSUME BaseInv, [Next]_vars, Final, NEW w \in Workers, HotAt(w), Spares(w), KeepsLane(w),
           Hot(w) => KeepsKeys
    PROVE  HotAt(w)'
<1> DEFINE s == worker[w].search
<1> SUFFICES ASSUME Hot(w)'
             PROVE  (Holds(w) /\ LeaseOutlasts(w) /\ Recorded(w) /\ HasKey(w))'
  BY DEF HotAt
<1>1. worker'[w] = worker[w] /\ s \in Searches /\ Owner[s] \in Employees
  BY Rows DEF BaseInv, Spares
<1>2. Hot(w)
  BY <1>1 DEF Hot, KeepsLane
<1>3. Holds(w) /\ LeaseOutlasts(w) /\ Recorded(w) /\ HasKey(w)
  BY <1>2 DEF HotAt
<1>4. /\ worker[w].timer \in Nat /\ laneIdle \in Nat /\ job[s].lease \in Nat
      /\ receipt[s].authorized \in BOOLEAN /\ receipt[s].ambiguous \in BOOLEAN
  BY <1>1, HotNumbers DEF BaseInv
<1>5. job[s].lease > 0
  BY <1>2, <1>3, <1>4 DEF Hot, LeaseOutlasts
<1>6. job'[s].status = "running" /\ job'[s].token = worker[w].token /\ job'[s].lease = job[s].lease
  BY <1>3, <1>5 DEF Spares, KeepsJob
<1>7. Holds(w)'
  BY <1>1, <1>6 DEF Holds, HoldsJob
<1>8. LeaseOutlasts(w)'
  <2>1. CASE worker[w].pc = "call"
    BY <1>1, <1>3, <1>6, <2>1 DEF LeaseOutlasts
  <2>2. CASE worker[w].pc = "start"
    <3>1. w \in lane'
      BY <1>1, <2>2 DEF Hot
    <3>2. laneIdle' <= laneIdle
      BY <3>1 DEF KeepsLane
    <3>3. laneIdle' \in Nat
      BY BaseStep DEF BaseInv, TypeInv, Others
    <3> QED
      BY <1>1, <1>3, <1>4, <1>6, <2>2, <3>2, <3>3 DEF LeaseOutlasts
  <2> QED
    BY <1>1, <1>2, <2>1, <2>2 DEF Hot
<1>9. Recorded(w)'
  <2>1. CASE Begun(w) /\ receipt[s].authorized = TRUE
    BY <1>1, <1>3, <2>1 DEF Spares, KeepsAttempt, Recorded, Begun, AtAttempt
  <2>2. CASE receipt[s].state = "revoked" /\ receipt[s].ambiguous = TRUE
    BY <1>1, <2>2 DEF Final, Settled, TerminalStates, Recorded
  <2> QED
    BY <1>3, <2>1, <2>2 DEF Recorded
<1>10. HasKey(w)'
  BY <1>1, <1>2, <1>3 DEF HasKey, KeepsKeys, Key
<1> QED
  BY <1>7, <1>8, <1>9, <1>10

\* What a worker does to the lane: it takes a free one, leaves it, or renews its own.
LEMMA WorkerKeepsLane ==
    ASSUME BaseInv, NEW v \in Workers, Step(v) \/ LockBusy(v) \/ Crash(v)
    PROVE  \A w \in Workers : w # v => KeepsLane(w)
<1>0. TypeInv /\ laneIdle \in Nat
  BY DEF BaseInv, TypeInv, Others
<1>1. CASE Release(v)
  BY <1>0, <1>1 DEF Release, KeepsLane
<1>2. CASE lane' = lane /\ laneIdle' = laneIdle
  BY <1>0, <1>2 DEF KeepsLane
<1>3. CASE Lock(v)
  BY <1>0, <1>3, LockDoes DEF KeepsLane
<1>4. CASE StartCall(v)
  <2>1. lane' = lane
    BY <1>4 DEF StartCall
  <2>2. CASE v \in lane
    <3>1. \A w \in Workers : w # v => w \notin lane
      BY <2>2 DEF BaseInv, OneLane
    <3> QED
      BY <2>1, <3>1 DEF KeepsLane
  <2>3. CASE v \notin lane
    BY <1>0, <1>4, <2>1, <2>3 DEF StartCall, KeepsLane
  <2> QED
    BY <2>2, <2>3
<1>5. CASE Fence(v) \/ Complete(v)
  BY <1>0, <1>1, <1>2, <1>5, FenceDoes, CompleteDoes
<1>6. CASE Import(v) \/ Settle(v) \/ Crash(v)
  BY <1>0, <1>1, <1>6, ImportDoes, SettleDoes, CrashDoes
<1>7. CASE Repair(v) \/ Recover(v) \/ CheckActor(v) \/ Begin(v) \/ Configure(v) \/ Relinquish(v)
           \/ Respond(v) \/ Mark(v) \/ Fail(v) \/ Persist(v) \/ LockBusy(v)
  <2>1. lane' = lane /\ laneIdle' = laneIdle
    BY <1>7 DEF Repair, Recover, CheckActor, Begin, Configure, Relinquish, Respond, Mark, Fail,
       Persist, LockBusy
  <2> QED
    BY <1>2, <2>1
<1> QED
  BY <1>3, <1>4, <1>5, <1>6, <1>7 DEF Step

LEMMA WorkerKeepsKeys ==
    ASSUME BaseInv, NEW v \in Workers, Step(v) \/ LockBusy(v) \/ Crash(v)
    PROVE  KeepsKeys
<1>1. CASE Mark(v)
  BY <1>1, Rows, Marks DEF BaseInv, KeepsKeys
<1>2. CASE ~Mark(v)
  <2>1. connection' = connection
    BY <1>2 DEF Step, Repair, Recover, CheckActor, Begin, Configure, Lock, Relinquish, Fence,
       StartCall, Respond, Complete, Import, Settle, Fail, Persist, LockBusy, Crash
  <2> QED
    BY <2>1 DEF KeepsKeys
<1> QED
  BY <1>1, <1>2

\* A key is neither replaced nor disconnected under a dispatch that is recorded.
LEMMA CommandKeepsKeys ==
    ASSUME BaseInv, NEW w \in Workers, HotAt(w), Hot(w),
           \/ \E s \in Searches : Search(s) \/ Revoke(s)
           \/ \E e \in Employees : ReplaceKey(e) \/ Disconnect(e) \/ Deny(e) \/ Grant(e)
           \/ LoseLane \/ UNCHANGED vars
    PROVE  KeepsKeys
<1> DEFINE s == worker[w].search
<1>1. s \in Searches
  BY Rows DEF BaseInv
<1>2. job[s].status = "running" /\ (receipt[s].authorized \/ receipt[s].ambiguous)
  BY <1>1 DEF HotAt, Holds, HoldsJob, Recorded
<1>3. Unsettled
  BY <1>1, <1>2 DEF Unsettled
<1>4. connection' = connection
  BY <1>3 DEF Search, Revoke, ReplaceKey, Disconnect, Deny, Grant, LoseLane, vars, rows
<1> QED
  BY <1>4 DEF KeepsKeys

LEMMA CommandKeepsLane ==
    ASSUME BaseInv,
           \/ \E s \in Searches : Search(s) \/ Revoke(s)
           \/ \E e \in Employees : ReplaceKey(e) \/ Disconnect(e) \/ Deny(e) \/ Grant(e)
           \/ LoseLane \/ UNCHANGED vars
    PROVE  \A w \in Workers : KeepsLane(w)
<1>1. laneIdle \in Nat
  BY DEF BaseInv, TypeInv, Others
<1>2. lane' = {} \/ (lane' = lane /\ laneIdle' = laneIdle)
  BY DEF Search, Revoke, ReplaceKey, Disconnect, Deny, Grant, LoseLane, vars, rows
<1> QED
  BY <1>1, <1>2 DEF KeepsLane

\* A worker comes to a call by the fence, which compares attempt, job and key, and
\* by the look at its lock.
LEMMA OwnHot ==
    ASSUME BaseInv, HotInv, NEW w \in Workers, Step(w) \/ LockBusy(w) \/ Crash(w)
    PROVE  HotAt(w)'
<1> DEFINE s == worker[w].search
<1>0. /\ TypeInv /\ s \in Searches /\ Owner[s] \in Employees /\ HotAt(w)
      /\ laneIdle \in Nat /\ laneIdle <= LaneIdle
  BY Rows, HotNumbers DEF BaseInv, HotInv
<1>1. CASE Fence(w)
  <2>1. CASE worker'[w].pc # "start"
    <3>1. worker'[w].pc # "call"
      BY <1>0, <1>1, FenceDoes DEF GoesOn, Idles, Persists
    <3> QED
      BY <2>1, <3>1 DEF HotAt, Hot
  <2>2. CASE worker'[w].pc = "start"
    <3>1. /\ AtAttempt(s, worker[w].token) /\ HoldsJob(s, worker[w].token) /\ Authorized(w)
          /\ receipt'[s].state = receipt[s].state /\ receipt'[s].token = receipt[s].token
          /\ receipt'[s].authorized = TRUE
          /\ job'[s].status = job[s].status /\ job'[s].token = job[s].token
          /\ job'[s].lease = Lease
          /\ GoesOn(w, "start") /\ laneIdle' = laneIdle
      BY <1>0, <1>1, <2>2, FenceDoes DEF Idles, Persists
    <3>2. connection' = connection
      BY <1>1 DEF Fence
    <3>3. Holds(w)'
      BY <3>1 DEF Holds, HoldsJob, GoesOn
    <3>4. LeaseOutlasts(w)'
      BY <1>0, <2>2, <3>1 DEF LeaseOutlasts, GoesOn
    <3>5. Recorded(w)'
      BY <3>1 DEF Recorded, Begun, AtAttempt, GoesOn
    <3>6. HasKey(w)'
      BY <1>0, <3>1, <3>2 DEF HasKey, Authorized, Connected, Key, BaseInv, KeysHaveAccounts, GoesOn
    <3> QED
      BY <3>3, <3>4, <3>5, <3>6 DEF HotAt
  <2> QED
    BY <2>1, <2>2
<1>2. CASE StartCall(w)
  <2>1. CASE w \notin lane
    BY <1>0, <1>2, <2>1, StartCallDoes DEF HotAt, Hot, Idles
  <2>2. CASE w \in lane
    <3>1. /\ worker'[w].pc = "call" /\ worker'[w].timer = CallLimit
          /\ worker'[w].search = s /\ worker'[w].token = worker[w].token
          /\ worker'[w].cred = worker[w].cred
          /\ receipt' = receipt /\ job' = job /\ connection' = connection
          /\ worker[w].pc = "start"
      BY <1>0, <1>2, <2>2, StartCallDoes DEF StartCall
    <3>2. Holds(w) /\ LeaseOutlasts(w) /\ Recorded(w) /\ HasKey(w)
      BY <1>0, <2>2, <3>1 DEF HotAt, Hot
    <3>3. job[s].lease > CallLimit
      <4>1. job[s].lease \in Nat
        BY <1>0, HotNumbers
      <4> QED
        BY <1>0, <3>1, <3>2, <4>1 DEF LeaseOutlasts
    <3>4. LeaseOutlasts(w)'
      BY <3>1, <3>3 DEF LeaseOutlasts
    <3>5. Holds(w)' /\ Recorded(w)' /\ HasKey(w)'
      BY <3>1, <3>2 DEF Holds, HoldsJob, Recorded, Begun, AtAttempt, HasKey, Key
    <3> QED
      BY <3>4, <3>5 DEF HotAt
  <2> QED
    BY <2>1, <2>2
<1>3. CASE ~Fence(w) /\ ~StartCall(w)
  <2>1. CASE Configure(w)
    BY <1>0, <2>1, Rows, Configures DEF HotAt, Hot
  <2>2. CASE Repair(w) \/ Recover(w) \/ CheckActor(w) \/ Begin(w) \/ Lock(w) \/ LockBusy(w)
             \/ Relinquish(w) \/ Respond(w)
    <3>1. worker'[w].pc \notin {"start", "call"}
      <4>1. CASE Repair(w)
        BY <1>0, <4>1, RepairDoes DEF GoesOn, Idles, Persists
      <4>2. CASE Recover(w)
        BY <1>0, <4>2, RecoverDoes DEF GoesOn, Idles, Persists
      <4>3. CASE CheckActor(w)
        BY <1>0, <4>3, CheckActorDoes DEF GoesOn, Idles, Persists
      <4>4. CASE Begin(w)
        BY <1>0, <4>4, BeginDoes DEF GoesOn, Idles, Persists
      <4>5. CASE Lock(w)
        BY <1>0, <4>5, LockDoes DEF GoesOn, Idles, Persists
      <4>6. CASE LockBusy(w)
        BY <1>0, <4>6, LockBusyDoes DEF GoesOn, Idles, Persists
      <4>7. CASE Relinquish(w)
        BY <1>0, <4>7, RelinquishDoes DEF GoesOn, Idles, Persists
      <4>8. CASE Respond(w)
        BY <1>0, <4>8, RespondDoes DEF GoesOn, Idles, Persists
      <4> QED
        BY <2>2, <4>1, <4>2, <4>3, <4>4, <4>5, <4>6, <4>7, <4>8
    <3> QED
      BY <3>1 DEF HotAt, Hot
  <2>3. CASE Complete(w) \/ Import(w) \/ Settle(w) \/ Mark(w) \/ Fail(w) \/ Persist(w) \/ Crash(w)
    <3>1. worker'[w].pc \notin {"start", "call"}
      <4>1. CASE Complete(w)
        BY <1>0, <4>1, CompleteDoes DEF GoesOn, Idles, Persists
      <4>2. CASE Import(w)
        BY <1>0, <4>2, ImportDoes DEF GoesOn, Idles, Persists
      <4>3. CASE Settle(w)
        BY <1>0, <4>3, SettleDoes DEF GoesOn, Idles, Persists
      <4>4. CASE Mark(w)
        BY <1>0, <4>4, MarkDoes DEF GoesOn, Idles, Persists
      <4>5. CASE Fail(w)
        BY <1>0, <4>5, FailDoes DEF GoesOn, Idles, Persists
      <4>6. CASE Persist(w)
        BY <1>0, <4>6, PersistDoes DEF GoesOn, Idles, Persists
      <4>7. CASE Crash(w)
        BY <1>0, <4>7, CrashDoes DEF GoesOn, Idles, Persists
      <4> QED
        BY <2>3, <4>1, <4>2, <4>3, <4>4, <4>5, <4>6, <4>7
    <3> QED
      BY <3>1 DEF HotAt, Hot
  <2> QED
    BY <1>3, <2>1, <2>2, <2>3 DEF Step
<1> QED
  BY <1>1, <1>2, <1>3

\* Time: a call that goes on has time left, and so has a lane that stays.
LEMMA TickHot ==
    ASSUME BaseInv, HotInv, Tick
    PROVE  HotInv'
<1> SUFFICES ASSUME NEW w \in Workers, Hot(w)'
             PROVE  (Holds(w) /\ LeaseOutlasts(w) /\ Recorded(w) /\ HasKey(w))'
  BY DEF HotInv, HotAt
<1> DEFINE s == worker[w].search
<1>1. /\ TypeInv /\ s \in Searches /\ worker[w].timer \in Nat /\ laneIdle \in Nat
      /\ job[s].lease \in Nat
  BY Rows, HotNumbers DEF BaseInv
<1>2. /\ receipt'[s].state = receipt[s].state /\ receipt'[s].token = receipt[s].token
      /\ receipt'[s].authorized = receipt[s].authorized
      /\ receipt'[s].ambiguous = receipt[s].ambiguous
      /\ job'[s].status = job[s].status /\ job'[s].token = job[s].token
      /\ job'[s].lease = Less(job[s].lease)
  BY <1>1, Rows, Ticks
<1>3. /\ worker'[w].pc = worker[w].pc /\ worker'[w].search = s
      /\ worker'[w].token = worker[w].token /\ worker'[w].cred = worker[w].cred
      /\ worker'[w].timer = Less(worker[w].timer)
  BY <1>1, Rows, Ticks
<1>4. /\ worker[w].pc = "call" => worker[w].timer > 0
      /\ w \in lane' => w \in lane /\ laneIdle # 0
      /\ laneIdle' = Less(laneIdle) /\ connection' = connection
  BY DEF Tick
<1>5. Holds(w) /\ LeaseOutlasts(w) /\ Recorded(w) /\ HasKey(w)
  BY <1>3, <1>4 DEF HotInv, HotAt, Hot
<1>6. Holds(w)' /\ Recorded(w)' /\ HasKey(w)'
  BY <1>2, <1>3, <1>4, <1>5 DEF Holds, HoldsJob, Recorded, Begun, AtAttempt, HasKey, Key
<1>7. LeaseOutlasts(w)'
  <2>1. CASE worker[w].pc = "call"
    BY <1>1, <1>2, <1>3, <1>4, <1>5, <2>1 DEF LeaseOutlasts, Less
  <2>2. CASE worker[w].pc = "start"
    <3>1. laneIdle # 0
      BY <1>3, <1>4, <2>2 DEF Hot
    <3> QED
      BY <1>1, <1>2, <1>3, <1>4, <1>5, <2>2, <3>1 DEF LeaseOutlasts, Less
  <2> QED
    BY <1>3, <2>1, <2>2 DEF Hot
<1> QED
  BY <1>6, <1>7

LEMMA HotStep ==
    ASSUME BaseInv, HotInv, [Next]_vars
    PROVE  HotInv'
<1>0. Final /\ TypeInv
  BY FinalStep DEF BaseInv
<1>1. ASSUME NEW v \in Workers, Step(v) \/ LockBusy(v) \/ Crash(v)
      PROVE  HotInv'
  <2>1. \A w \in Workers : w # v => HotAt(w)'
    BY <1>0, <1>1, WorkerSpares, WorkerKeepsLane, WorkerKeepsKeys, SparedHot DEF HotInv
  <2>2. HotAt(v)'
    BY <1>1, OwnHot
  <2> QED
    BY <2>1, <2>2 DEF HotInv
<1>2. ASSUME NEW v \in Workers, NEW s \in Searches, Claim(v, s)
      PROVE  HotInv'
  <2>1. KeepsKeys /\ \A w \in Workers : KeepsLane(w)
    BY <1>2 DEF Claim, KeepsKeys, KeepsLane, BaseInv, TypeInv, Others
  <2>2. \A w \in Workers : w # v => HotAt(w)'
    BY <1>0, <1>2, <2>1, ClaimSpares, SparedHot DEF HotInv
  <2>3. worker'[v].pc \notin {"start", "call"}
    BY <1>0, <1>2, Rows, Claims DEF FirstStep
  <2> QED
    BY <2>2, <2>3 DEF HotInv, HotAt, Hot
<1>3. CASE \/ \E s \in Searches : Search(s) \/ Revoke(s)
           \/ \E e \in Employees : ReplaceKey(e) \/ Disconnect(e) \/ Deny(e) \/ Grant(e)
           \/ LoseLane \/ UNCHANGED vars
  <2>1. ASSUME NEW w \in Workers
        PROVE  HotAt(w)'
    <3>1. HotAt(w) /\ Spares(w) /\ KeepsLane(w)
      BY <1>3, CommandSpares, CommandKeepsLane DEF HotInv
    <3>2. Hot(w) => KeepsKeys
      BY <1>3, <3>1, CommandKeepsKeys
    <3> QED
      BY <1>0, <3>1, <3>2, SparedHot
  <2> QED
    BY <2>1 DEF HotInv
<1>4. CASE Tick
  BY <1>4, TickHot
<1> QED
  BY <1>1, <1>2, <1>3, <1>4 DEF Next, ClaimSome

\* A worker that calls, or that is about to in a lane it still holds, has the job
\* under a lease longer than its call, its authorised attempt or the revocation of
\* it on record, and the key its owner has.
THEOREM HotHolds == Spec => [](BaseInv /\ HolderInv /\ HotInv)
<1>1. Init => HotInv
  BY DEF Init, IdleWorker, HotInv, HotAt, Hot
<1>2. BaseInv /\ HotInv /\ [Next]_vars => HotInv'
  BY HotStep
<1> QED
  BY <1>1, <1>2, BaseHolds, PTL DEF Spec

\* At most one request to Apollo is under way, also when a worker outlived its
\* lease, lost the lane's session under a call, or calls for a revoked search.
THEOREM OneCallForAll == Spec => []OneCall
<1>1. BaseInv /\ HotInv => OneCall
  <2> SUFFICES ASSUME BaseInv, HotInv, NEW w \in Workers, NEW v \in Workers,
                      worker[w].pc = "call", worker[v].pc = "call"
               PROVE  w = v
    BY DEF OneCall
  <2>1. Holds(w) /\ Holds(v)
    BY DEF HotInv, HotAt, Hot
  <2> QED
    BY <2>1, OneHolder
<1> QED
  BY <1>1, HotHolds, PTL

\* Neither a replacement nor a disconnection of the key crosses a call, with the
\* lane lost or not: the recorded dispatch stands in its way.
THEOREM KeyFixedForAll == Spec => []KeyFixedDuringCall
<1>1. HotInv => KeyFixedDuringCall
  BY DEF HotInv, HotAt, Hot, HasKey, KeyFixedDuringCall
<1> QED
  BY <1>1, HotHolds, PTL
-------------------------------------------------------------------------------
(* A worker with a new claim and an attempt that passed the fence *)

PastFence(v) ==
    \/ worker[v].pc \in {"start", "call", "complete", "settle", "mark"}
    \/ worker[v].pc = "fail" /\ worker[v].answer # "no_key"

\* Who has the job and is about to begin an attempt finds none that passed the fence.
FenceAt(w, v) ==
    /\ Holds(w) /\ worker[w].pc \in {"check", "begin"}
    /\ worker[v].search = worker[w].search /\ PastFence(v)
    => ~Begun(v)
FenceInv == \A w, v \in Workers : FenceAt(w, v)

\* What a worker that is spared has after a step, it had before.
LEMMA SparedHad ==
    ASSUME BaseInv, NEW w \in Workers, Spares(w), worker[w].pc # "idle"
    PROVE  /\ Holds(w)' => Holds(w)
           /\ Begun(w)' => Begun(w)
<1>1. worker[w].token # NoToken /\ worker'[w] = worker[w]
  BY DEF BaseInv, TokenInv, Spares
<1> QED
  BY <1>1 DEF Spares, GetsNothing, GetsNoJob, GetsNoAttempt, Holds, HoldsJob, Begun, AtAttempt

LEMMA SparedFence ==
    ASSUME BaseInv, NEW w \in Workers, NEW v \in Workers, Spares(w), Spares(v), FenceAt(w, v)
    PROVE  FenceAt(w, v)'
<1> SUFFICES ASSUME Holds(w)', worker'[w].pc \in {"check", "begin"},
                    worker'[v].search = worker'[w].search, PastFence(v)', Begun(v)'
             PROVE  FALSE
  BY DEF FenceAt
<1>1. worker'[w] = worker[w] /\ worker'[v] = worker[v]
  BY DEF Spares
<1>2. PastFence(v)
  BY <1>1 DEF PastFence
<1>3. worker[w].pc # "idle" /\ worker[v].pc # "idle"
  BY <1>1, <1>2 DEF PastFence
<1> QED
  BY <1>1, <1>2, <1>3, SparedHad DEF FenceAt

\* A worker that comes to its new attempt: by a recovery that ended the old one.
LEMMA BeginnerFence ==
    ASSUME BaseInv, NEW w \in Workers, NEW v \in Workers, w # v, FenceAt(w, v), Spares(v),
           Step(w) \/ LockBusy(w) \/ Crash(w)
    PROVE  FenceAt(w, v)'
<1> DEFINE s == worker[w].search
<1> SUFFICES ASSUME Holds(w)', worker'[w].pc \in {"check", "begin"},
                    worker'[v].search = worker'[w].search, PastFence(v)', Begun(v)'
             PROVE  FALSE
  BY DEF FenceAt
<1>0. TypeInv /\ s \in Searches
  BY Rows DEF BaseInv
<1>1. worker'[v] = worker[v] /\ PastFence(v) /\ worker[v].pc # "idle" /\ Begun(v)
  <2>1. worker'[v] = worker[v]
    BY DEF Spares
  <2>2. PastFence(v)
    BY <2>1 DEF PastFence
  <2> QED
    BY <2>1, <2>2, SparedHad DEF PastFence
<1>2. CASE Recover(w)
  <2>1. worker'[w].pc = "check"
    BY <1>0, <1>2, RecoverDoes DEF GoesOn
  <2>2. worker'[w].search = s /\ receipt'[s].state = "retry_scheduled"
    BY <1>0, <1>2, <2>1, RecoverDoes DEF GoesOn, Turns
  <2> QED
    BY <1>1, <2>2 DEF Begun, AtAttempt
<1>3. CASE CheckActor(w)
  <2>1. worker'[w].search = s /\ worker'[w].token = worker[w].token /\ worker[w].pc = "check"
    BY <1>0, <1>3, CheckActorDoes DEF GoesOn, Persists
  <2>2. job' = job
    BY <1>3 DEF CheckActor
  <2>3. Holds(w)
    BY <2>1, <2>2 DEF Holds, HoldsJob
  <2> QED
    BY <1>1, <2>1, <2>3 DEF FenceAt
<1>4. CASE Configure(w)
  BY <1>0, <1>4, Rows, Configures
<1>5. CASE Repair(w) \/ Begin(w) \/ Lock(w) \/ LockBusy(w) \/ Relinquish(w) \/ Fence(w)
           \/ StartCall(w) \/ Respond(w)
  <2>1. CASE Repair(w)
    BY <1>0, <2>1, RepairDoes DEF GoesOn, Idles, Persists
  <2>2. CASE Begin(w)
    BY <1>0, <2>2, BeginDoes DEF GoesOn, Idles, Persists
  <2>3. CASE Lock(w)
    BY <1>0, <2>3, LockDoes DEF GoesOn, Idles, Persists
  <2>4. CASE LockBusy(w)
    BY <1>0, <2>4, LockBusyDoes DEF GoesOn, Idles, Persists
  <2>5. CASE Relinquish(w)
    BY <1>0, <2>5, RelinquishDoes DEF GoesOn, Idles, Persists
  <2>6. CASE Fence(w)
    BY <1>0, <2>6, FenceDoes DEF GoesOn, Idles, Persists
  <2>7. CASE StartCall(w)
    BY <1>0, <2>7, StartCallDoes DEF GoesOn, Idles, Persists
  <2>8. CASE Respond(w)
    BY <1>0, <2>8, RespondDoes DEF GoesOn, Idles, Persists
  <2> QED
    BY <1>5, <2>1, <2>2, <2>3, <2>4, <2>5, <2>6, <2>7, <2>8
<1>6. CASE Complete(w) \/ Import(w) \/ Settle(w) \/ Mark(w) \/ Fail(w) \/ Persist(w) \/ Crash(w)
  <2>1. CASE Complete(w)
    BY <1>0, <2>1, CompleteDoes DEF GoesOn, Idles, Persists
  <2>2. CASE Import(w)
    BY <1>0, <2>2, ImportDoes DEF GoesOn, Idles, Persists
  <2>3. CASE Settle(w)
    BY <1>0, <2>3, SettleDoes DEF GoesOn, Idles, Persists
  <2>4. CASE Mark(w)
    BY <1>0, <2>4, MarkDoes DEF GoesOn, Idles, Persists
  <2>5. CASE Fail(w)
    BY <1>0, <2>5, FailDoes DEF GoesOn, Idles, Persists
  <2>6. CASE Persist(w)
    BY <1>0, <2>6, PersistDoes DEF GoesOn, Idles, Persists
  <2>7. CASE Crash(w)
    BY <1>0, <2>7, CrashDoes DEF GoesOn, Idles, Persists
  <2> QED
    BY <1>6, <2>1, <2>2, <2>3, <2>4, <2>5, <2>6, <2>7
<1> QED
  BY <1>2, <1>3, <1>4, <1>5, <1>6 DEF Step

\* A worker that passes the fence holds the job: nobody else does.
LEMMA PasserFence ==
    ASSUME BaseInv, NEW w \in Workers, NEW v \in Workers, w # v, FenceAt(w, v), Spares(w),
           Step(v) \/ LockBusy(v) \/ Crash(v)
    PROVE  FenceAt(w, v)'
<1> DEFINE s == worker[v].search
<1> SUFFICES ASSUME Holds(w)', worker'[w].pc \in {"check", "begin"},
                    worker'[v].search = worker'[w].search, PastFence(v)', Begun(v)'
             PROVE  FALSE
  BY DEF FenceAt
<1>0. TypeInv /\ s \in Searches
  BY Rows DEF BaseInv
<1>1. worker'[w] = worker[w] /\ Holds(w)
  <2>1. worker'[w] = worker[w]
    BY DEF Spares
  <2> QED
    BY <2>1, SparedHad
<1>2. CASE StartCall(v) \/ Respond(v) \/ Mark(v)
  <2>1. PastFence(v) /\ receipt' = receipt
    BY <1>2 DEF PastFence, StartCall, Respond, Mark
  <2>2. worker'[v].pc # "idle"
    BY DEF PastFence
  <2>3. worker'[v].search = s /\ worker'[v].token = worker[v].token
    BY <1>0, <1>2, <2>2, StartCallDoes, RespondDoes, MarkDoes DEF Idles, GoesOn
  <2> QED
    BY <1>1, <2>1, <2>3 DEF FenceAt, Begun, AtAttempt
<1>3. CASE Settle(v)
  <2>1. PastFence(v)
    BY <1>3 DEF PastFence, Settle
  <2>2. worker'[v].search = s /\ worker'[v].token = worker[v].token
    BY <1>0, <1>3, SettleDoes DEF PastFence, Idles, GoesOn
  <2>3. receipt'[s].state = receipt[s].state /\ receipt'[s].token = receipt[s].token
    BY <1>0, <1>3, SettleDoes
  <2> QED
    BY <1>1, <2>1, <2>2, <2>3 DEF FenceAt, Begun, AtAttempt
<1>4. CASE Fence(v)
  <2>1. Holds(v)
    BY <1>0, <1>4, FenceDoes DEF PastFence, Idles, Persists, Holds
  <2> QED
    BY <1>1, <2>1, OneHolder
<1>5. CASE Configure(v)
  BY <1>0, <1>5, Rows, Configures DEF PastFence
<1>6. CASE Repair(v) \/ Recover(v) \/ CheckActor(v) \/ Begin(v) \/ Lock(v) \/ LockBusy(v)
           \/ Relinquish(v)
  <2>1. CASE Repair(v)
    BY <1>0, <2>1, RepairDoes DEF GoesOn, Idles, Persists, PastFence
  <2>2. CASE Recover(v)
    BY <1>0, <2>2, RecoverDoes DEF GoesOn, Idles, Persists, PastFence
  <2>3. CASE CheckActor(v)
    BY <1>0, <2>3, CheckActorDoes DEF GoesOn, Idles, Persists, PastFence
  <2>4. CASE Begin(v)
    BY <1>0, <2>4, BeginDoes DEF GoesOn, Idles, Persists, PastFence
  <2>5. CASE Lock(v)
    BY <1>0, <2>5, LockDoes DEF GoesOn, Idles, Persists, PastFence
  <2>6. CASE LockBusy(v)
    BY <1>0, <2>6, LockBusyDoes DEF GoesOn, Idles, Persists, PastFence
  <2>7. CASE Relinquish(v)
    BY <1>0, <2>7, RelinquishDoes DEF GoesOn, Idles, Persists, PastFence
  <2> QED
    BY <1>6, <2>1, <2>2, <2>3, <2>4, <2>5, <2>6, <2>7
<1>7. CASE Complete(v) \/ Import(v) \/ Fail(v) \/ Persist(v) \/ Crash(v)
  <2>1. CASE Complete(v)
    BY <1>0, <2>1, CompleteDoes DEF GoesOn, Idles, Persists, PastFence
  <2>2. CASE Import(v)
    BY <1>0, <2>2, ImportDoes DEF GoesOn, Idles, Persists, PastFence
  <2>3. CASE Fail(v)
    BY <1>0, <2>3, FailDoes DEF GoesOn, Idles, Persists, PastFence
  <2>4. CASE Persist(v)
    BY <1>0, <2>4, PersistDoes DEF GoesOn, Idles, Persists, PastFence
  <2>5. CASE Crash(v)
    BY <1>0, <2>5, CrashDoes DEF GoesOn, Idles, Persists, PastFence
  <2> QED
    BY <1>7, <2>1, <2>2, <2>3, <2>4, <2>5
<1> QED
  BY <1>2, <1>3, <1>4, <1>5, <1>6, <1>7 DEF Step

LEMMA FenceStep ==
    ASSUME BaseInv, FenceInv, [Next]_vars
    PROVE  FenceInv'
<1>0. TypeInv
  BY DEF BaseInv
<1>1. \A w \in Workers : FenceAt(w, w)'
  BY DEF FenceAt, PastFence
<1>2. ASSUME NEW u \in Workers, Step(u) \/ LockBusy(u) \/ Crash(u)
      PROVE  FenceInv'
  <2> SUFFICES ASSUME NEW w \in Workers, NEW v \in Workers, w # v
               PROVE  FenceAt(w, v)'
    BY <1>1 DEF FenceInv
  <2>1. FenceAt(w, v)
    BY DEF FenceInv
  <2>2. \A x \in Workers : x # u => Spares(x)
    BY <1>2, WorkerSpares
  <2>3. CASE u = w
    BY <1>2, <2>1, <2>2, <2>3, BeginnerFence
  <2>4. CASE u = v
    BY <1>2, <2>1, <2>2, <2>4, PasserFence
  <2>5. CASE u # w /\ u # v
    BY <2>1, <2>2, <2>5, SparedFence
  <2> QED
    BY <2>3, <2>4, <2>5
<1>3. ASSUME NEW u \in Workers, NEW s \in Searches, Claim(u, s)
      PROVE  FenceInv'
  <2> SUFFICES ASSUME NEW w \in Workers, NEW v \in Workers, w # v
               PROVE  FenceAt(w, v)'
    BY <1>1 DEF FenceInv
  <2>1. FenceAt(w, v)
    BY DEF FenceInv
  <2>2. \A x \in Workers : x # u => Spares(x)
    BY <1>3, ClaimSpares
  <2>3. CASE u = w
    <3>1. worker'[w].pc = FirstStep(s) /\ worker'[w].search = s
      BY <1>0, <1>3, <2>3, Rows, Claims
    <3>2. receipt' = receipt
      BY <1>3 DEF Claim
    <3>3. FirstStep(s) \in {"check", "begin"} => receipt[s].state = "retry_scheduled"
      BY DEF FirstStep
    <3> QED
      BY <3>1, <3>2, <3>3 DEF FenceAt, Begun, AtAttempt
  <2>4. CASE u = v
    BY <1>0, <1>3, <2>4, Rows, Claims DEF FenceAt, PastFence, FirstStep
  <2>5. CASE u # w /\ u # v
    BY <2>1, <2>2, <2>5, SparedFence
  <2> QED
    BY <2>3, <2>4, <2>5
<1>4. CASE \/ \E s \in Searches : Search(s) \/ Revoke(s)
           \/ \E e \in Employees : ReplaceKey(e) \/ Disconnect(e) \/ Deny(e) \/ Grant(e)
           \/ LoseLane \/ UNCHANGED vars
  BY <1>4, CommandSpares, SparedFence DEF FenceInv
<1>5. CASE Tick
  <2> SUFFICES ASSUME NEW w \in Workers, NEW v \in Workers
               PROVE  FenceAt(w, v)'
    BY DEF FenceInv
  <2>1. FenceAt(w, v) /\ worker[w].search \in Searches /\ worker[v].search \in Searches
    BY <1>0, Rows DEF FenceInv
  <2> QED
    BY <1>0, <1>5, <2>1, Rows, Ticks DEF FenceAt, PastFence, Holds, HoldsJob, Begun, AtAttempt
<1> QED
  BY <1>2, <1>3, <1>4, <1>5 DEF Next, ClaimSome
-------------------------------------------------------------------------------
(* The wait a failed call asked for *)

\* The wait is over, or was forgotten by an attempt begun without the job.
Eased(s) == notBefore[s] = 0 \/ s \in rushed

\* An attempt begins after the wait, and a receipt names the time of the next one.
WaitAt(s) ==
    /\ receipt[s].state \in {"none", "processing"} => Eased(s)
    /\ receipt[s].state = "retry_scheduled" => Eased(s) \/ notBefore[s] <= receipt[s].next

\* Who has the job and is about to begin an attempt, or to call, has waited.
BeginnerWaits(w) ==
    Holds(w) /\ worker[w].pc \in {"check", "begin"} => Eased(worker[w].search)
CallerWaits(w) == Hot(w) => Eased(worker[w].search)

WaitInv ==
    /\ \A s \in Searches : WaitAt(s)
    /\ \A w \in Workers : BeginnerWaits(w) /\ CallerWaits(w)

KeepsWaits == notBefore' = notBefore /\ rushed \subseteq rushed'

LEMMA WorkerKeepsWaits ==
    ASSUME TypeInv, NEW v \in Workers, Step(v) \/ LockBusy(v) \/ Crash(v), ~Fail(v)
    PROVE  KeepsWaits
<1>1. CASE Begin(v)
  <2>1. notBefore' = notBefore
    BY <1>1 DEF Begin
  <2> QED
    BY <1>1, <2>1, BeginDoes DEF KeepsWaits
<1>2. CASE ~Begin(v)
  BY <1>2 DEF KeepsWaits, history, Step, Repair, Recover, CheckActor, Configure, Lock, Relinquish,
     Fence, StartCall, Respond, Complete, Import, Settle, Mark, Persist, LockBusy, Crash
<1> QED
  BY <1>1, <1>2

\* A failure sets the wait of the receipt it closes, and none without a retry.
LEMMA FailSets ==
    ASSUME TypeInv, NEW v \in Workers, Fail(v)
    PROVE  LET s == worker[v].search IN
           /\ rushed' = rushed
           /\ \A r \in Searches : r # s => notBefore'[r] = notBefore[r]
           /\ \/ notBefore' = notBefore /\ receipt' = receipt
              \/ /\ Begun(v) /\ receipt'[s].state \in {"revoked", "dead_letter", "retry_scheduled"}
                 /\ receipt'[s].next = notBefore'[s]
                 /\ worker[v].answer = "no_key" => notBefore'[s] = 0
<1> DEFINE s == worker[v].search
           state == FailureState(v)
           wait == IF state = "retry_scheduled" THEN RetryAfter ELSE 0
<1>1. s \in Searches /\ notBefore \in [Searches -> Nat]
  BY Rows DEF TypeInv, Others
<1>2. rushed' = rushed
  BY DEF Fail
<1>3. state \in {"revoked", "dead_letter", "retry_scheduled"}
  BY DEF FailureState
<1>4. worker[v].answer = "no_key" => wait = 0
  BY DEF FailureState
<1> HIDE DEF state
<1>5. \/ notBefore' = notBefore /\ receipt' = receipt
      \/ /\ Begun(v) /\ notBefore' = [notBefore EXCEPT ![s] = wait]
         /\ receipt'[s].state = state /\ receipt'[s].next = wait
  BY FailDoes DEF state, Turns, Begun
<1> HIDE DEF wait, s
<1> QED
  BY <1>1, <1>2, <1>3, <1>4, <1>5 DEF s

LEMMA SameWait ==
    ASSUME NEW s \in Searches, WaitAt(s), KeepsWaits,
           \/ receipt'[s] = receipt[s]
           \/ receipt'[s].state = receipt[s].state /\ receipt'[s].next = receipt[s].next
           \/ receipt'[s].state \in TerminalStates
           \/ /\ receipt[s].state \in {"none", "processing"}
              /\ receipt'[s].state = "retry_scheduled"
    PROVE  WaitAt(s)'
BY DEF WaitAt, KeepsWaits, Eased, TerminalStates

\* What a worker does to the wait of its search.
LEMMA WorkerWait ==
    ASSUME BaseInv, WaitInv, NEW v \in Workers, Step(v) \/ LockBusy(v) \/ Crash(v)
    PROVE  \A s \in Searches : WaitAt(s)'
<1>a. PICK r \in Searches : r = worker[v].search
  BY Rows DEF BaseInv
<1>0. /\ TypeInv /\ r = worker[v].search /\ \A s \in Searches : WaitAt(s)
  BY <1>a DEF BaseInv, WaitInv
<1>1. CASE Fail(v)
  <2>1. \A s \in Searches : s # r => WaitAt(s)'
    <3>1. OnlyReceipt(r) /\ rushed' = rushed
          /\ \A s \in Searches : s # r => notBefore'[s] = notBefore[s]
      BY <1>0, <1>1, FailDoes, FailSets
    <3> QED
      BY <1>0, <3>1 DEF OnlyReceipt, WaitAt, Eased
  <2>2. WaitAt(r)'
    <3>1. CASE notBefore' = notBefore /\ receipt' = receipt
      <4>1. rushed' = rushed
        BY <1>0, <1>1, FailSets
      <4> QED
        BY <1>0, <3>1, <4>1 DEF WaitAt, Eased
    <3>2. CASE ~(notBefore' = notBefore /\ receipt' = receipt)
      <4>1. /\ receipt'[r].state \in {"revoked", "dead_letter", "retry_scheduled"}
            /\ receipt'[r].next = notBefore'[r]
        BY <1>0, <1>1, <3>2, FailSets
      <4>2. notBefore'[r] \in Nat
        BY <1>0, <1>1, FailTypes DEF TypeInv, Others
      <4> QED
        BY <4>1, <4>2 DEF WaitAt
    <3> QED
      BY <3>1, <3>2
  <2> QED
    BY <2>1, <2>2
<1>2. CASE Begin(v)
  <2>1. KeepsWaits /\ OnlyReceipt(r)
    <3>1. ~Fail(v)
      BY <1>2 DEF Begin, Fail
    <3> QED
      BY <1>0, <1>2, <3>1, WorkerKeepsWaits, BeginDoes
  <2>2. \A s \in Searches : s # r => WaitAt(s)'
    BY <1>0, <2>1, SameWait DEF OnlyReceipt
  <2>3. CASE receipt[r].state # "retry_scheduled" \/ receipt'[r].state = "dead_letter"
    <3>1. receipt' = receipt \/ receipt'[r].state = "dead_letter"
      BY <1>0, <1>2, <2>3, BeginDoes
    <3> QED
      BY <1>0, <2>1, <2>2, <3>1, SameWait DEF TerminalStates
  <2>4. CASE receipt[r].state = "retry_scheduled" /\ receipt'[r].state # "dead_letter"
    <3>1. /\ worker[v].pc = "begin"
          /\ receipt'[r].state = "processing"
          /\ rushed' = IF notBefore[r] > 0 /\ ~HoldsJob(r, worker[v].token)
                       THEN rushed \cup {r}
                       ELSE rushed
      BY <1>0, <1>2, <2>4, BeginDoes DEF Turns
    <3>2. notBefore' = notBefore /\ notBefore[r] \in Nat
      BY <1>0, <2>1 DEF KeepsWaits, TypeInv, Others
    <3>3. Holds(v) => Eased(r)
      BY <1>0, <3>1 DEF WaitInv, BeginnerWaits
    <3>4. Eased(r)'
      BY <1>0, <3>1, <3>2, <3>3 DEF Eased, Holds
    <3> QED
      BY <2>2, <3>1, <3>4 DEF WaitAt
  <2> QED
    BY <2>3, <2>4
<1>3. CASE Recover(v) \/ CheckActor(v) \/ Relinquish(v) \/ Fence(v) \/ Complete(v) \/ Settle(v)
  <2>1. KeepsWaits
    BY <1>0, <1>3, WorkerKeepsWaits DEF Step, Recover, CheckActor, Relinquish, Fence, Complete,
       Settle, Fail
  <2>2. OnlyReceipt(r)
    BY <1>0, <1>3, RecoverDoes, CheckActorDoes, RelinquishDoes, FenceDoes, CompleteDoes, SettleDoes
  <2>3. \/ receipt'[r] = receipt[r]
        \/ receipt'[r].state = receipt[r].state /\ receipt'[r].next = receipt[r].next
        \/ receipt'[r].state \in TerminalStates
        \/ receipt[r].state = "processing" /\ receipt'[r].state = "retry_scheduled"
    <3>1. CASE Recover(v) \/ CheckActor(v) \/ Relinquish(v)
      BY <1>0, <3>1, RecoverDoes, CheckActorDoes, RelinquishDoes
         DEF Turns, AtAttempt, TerminalStates
    <3>2. CASE Fence(v)
      BY <1>0, <3>2, FenceDoes DEF Turns, TerminalStates
    <3>3. CASE Complete(v) \/ Settle(v)
      BY <1>0, <3>3, CompleteDoes, SettleDoes DEF Turns, TerminalStates
    <3> QED
      BY <1>3, <3>1, <3>2, <3>3
  <2> QED
    BY <1>0, <2>1, <2>2, <2>3, SameWait DEF OnlyReceipt
<1>4. CASE Repair(v) \/ Configure(v) \/ Lock(v) \/ LockBusy(v) \/ StartCall(v) \/ Respond(v)
           \/ Import(v) \/ Mark(v) \/ Persist(v) \/ Crash(v)
  <2>1. KeepsWaits /\ receipt' = receipt
    BY <1>4
       DEF KeepsWaits, history, Repair, Configure, Lock, LockBusy, StartCall, Respond, Import, Mark,
       Persist, Crash
  <2> QED
    BY <1>0, <2>1, SameWait
<1> QED
  BY <1>1, <1>2, <1>3, <1>4 DEF Step

\* A failure of another worker does not take back a wait that is over.
LEMMA SparedEased ==
    ASSUME BaseInv, NEW v \in Workers, Step(v) \/ LockBusy(v) \/ Crash(v),
           NEW s \in Searches, Eased(s),
           ~AtAttempt(s, worker[v].token) \/ ~PastFence(v) \/ worker[v].search # s
    PROVE  Eased(s)'
<1>0. TypeInv
  BY DEF BaseInv
<1>1. CASE ~Fail(v)
  BY <1>0, <1>1, WorkerKeepsWaits DEF KeepsWaits, Eased
<1>2. CASE Fail(v)
  <2>1. worker[v].pc = "fail" /\ rushed' = rushed
    BY <1>2 DEF Fail
  <2>2. CASE notBefore'[s] = notBefore[s]
    BY <2>1, <2>2 DEF Eased
  <2>3. CASE notBefore'[s] # notBefore[s]
    <3>1. worker[v].search = s /\ Begun(v)
      BY <1>0, <1>2, <2>3, FailSets
    <3>2. worker[v].answer = "no_key"
      BY <2>1, <3>1 DEF PastFence, Begun
    <3> QED
      BY <1>0, <1>2, <2>3, <3>1, <3>2, FailSets DEF Eased
  <2> QED
    BY <2>2, <2>3
<1> QED
  BY <1>1, <1>2

LEMMA SparedWaits ==
    ASSUME BaseInv, HotInv, FenceInv, WaitInv, NEW w \in Workers, NEW v \in Workers, w # v,
           Spares(w), KeepsLane(w), Step(v) \/ LockBusy(v) \/ Crash(v)
    PROVE  BeginnerWaits(w)' /\ CallerWaits(w)'
<1>1. PICK s \in Searches : s = worker[w].search
  BY Rows DEF BaseInv
<1>2. worker'[w] = worker[w]
  BY DEF Spares
<1>3. ASSUME Holds(w)', worker'[w].pc \in {"check", "begin"}
      PROVE  Eased(s)'
  <2>1. Holds(w) /\ worker[w].pc \in {"check", "begin"}
    BY <1>2, <1>3, SparedHad
  <2>2. Eased(s)
    BY <1>1, <2>1 DEF WaitInv, BeginnerWaits
  <2>3. ~AtAttempt(s, worker[v].token) \/ ~PastFence(v) \/ worker[v].search # s
    BY <1>1, <2>1 DEF FenceInv, FenceAt, Begun
  <2> QED
    BY <2>2, <2>3, SparedEased
<1>4. ASSUME Hot(w)'
      PROVE  Eased(s)'
  <2>1. Hot(w)
    BY <1>2, <1>4 DEF Hot, KeepsLane
  <2>2. Eased(s)
    BY <1>1, <2>1 DEF WaitInv, CallerWaits
  <2>3. Recorded(w)
    BY <2>1 DEF HotInv, HotAt
  <2>4. ~AtAttempt(s, worker[v].token)
    BY <1>1, <2>3, OneBeginner DEF Recorded, AtAttempt
  <2> QED
    BY <2>2, <2>4, SparedEased
<1> QED
  BY <1>1, <1>2, <1>3, <1>4 DEF BeginnerWaits, CallerWaits

\* A worker comes to an attempt, and to a call, when the wait is over.
LEMMA OwnWaits ==
    ASSUME BaseInv, HotInv, WaitInv, NEW w \in Workers, Step(w) \/ LockBusy(w) \/ Crash(w)
    PROVE  BeginnerWaits(w)' /\ CallerWaits(w)'
<1>0. PICK s \in Searches : s = worker[w].search
  BY Rows DEF BaseInv
<1>1. TypeInv /\ WaitAt(s) /\ BeginnerWaits(w) /\ CallerWaits(w)
  BY DEF BaseInv, WaitInv
<1>2. CASE Recover(w)
  <2>1. KeepsWaits
    <3>1. ~Fail(w)
      BY <1>2 DEF Recover, Fail
    <3> QED
      BY <1>1, <1>2, <3>1, WorkerKeepsWaits
  <2>2. worker'[w].search = s
    BY <1>0, <1>1, <1>2, RecoverDoes DEF GoesOn
  <2>3. worker'[w].pc = "check" => Eased(s)
    BY <1>0, <1>1, <1>2, RecoverDoes DEF GoesOn, AtAttempt, WaitAt
  <2>4. worker'[w].pc \in {"check", "persist"}
    BY <1>1, <1>2, RecoverDoes DEF GoesOn
  <2> QED
    BY <2>1, <2>2, <2>3, <2>4 DEF BeginnerWaits, CallerWaits, Hot, KeepsWaits, Eased
<1>3. CASE CheckActor(w)
  <2>1. KeepsWaits /\ job' = job /\ worker[w].pc = "check"
    BY <1>3 DEF CheckActor, KeepsWaits, history
  <2>2. worker'[w].search = s /\ worker'[w].token = worker[w].token
        /\ worker'[w].pc \in {"begin", "persist"}
    BY <1>0, <1>1, <1>3, CheckActorDoes DEF GoesOn, Persists
  <2>3. Holds(w)' => Eased(s)
    BY <1>0, <1>1, <2>1, <2>2 DEF BeginnerWaits, Holds, HoldsJob
  <2> QED
    BY <2>1, <2>2, <2>3 DEF BeginnerWaits, CallerWaits, Hot, KeepsWaits, Eased
<1>4. CASE Fence(w)
  <2>1. KeepsWaits
    BY <1>4 DEF Fence, KeepsWaits, history
  <2>2. CASE worker'[w].pc = "start"
    <3>1. AtAttempt(s, worker[w].token) /\ worker'[w].search = s
      BY <1>0, <1>1, <1>4, <2>2, FenceDoes DEF Idles, Persists, GoesOn
    <3> QED
      BY <1>1, <2>1, <2>2, <3>1 DEF WaitAt, AtAttempt, BeginnerWaits, CallerWaits, KeepsWaits, Eased
  <2>3. CASE worker'[w].pc # "start"
    <3>1. worker'[w].pc \notin {"check", "begin", "start", "call"}
      BY <1>1, <1>4, <2>3, FenceDoes DEF Idles, Persists, GoesOn
    <3> QED
      BY <3>1 DEF BeginnerWaits, CallerWaits, Hot
  <2> QED
    BY <2>2, <2>3
<1>5. CASE StartCall(w)
  <2>1. KeepsWaits
    BY <1>5 DEF StartCall, KeepsWaits, history
  <2>2. CASE w \in lane
    <3>1. worker[w].pc = "start" /\ worker'[w].search = s /\ worker'[w].pc = "call"
      BY <1>0, <1>1, <1>5, <2>2, StartCallDoes
    <3>2. Eased(s)
      BY <1>0, <1>1, <2>2, <3>1 DEF CallerWaits, Hot
    <3> QED
      BY <2>1, <3>1, <3>2 DEF BeginnerWaits, CallerWaits, KeepsWaits, Eased
  <2>3. CASE w \notin lane
    BY <1>1, <1>5, <2>3, StartCallDoes DEF Idles, BeginnerWaits, CallerWaits, Hot
  <2> QED
    BY <2>2, <2>3
<1>6. CASE Configure(w)
  BY <1>1, <1>6, Rows, Configures DEF BeginnerWaits, CallerWaits, Hot
<1>7. CASE Repair(w) \/ Begin(w) \/ Lock(w) \/ LockBusy(w) \/ Relinquish(w) \/ Respond(w)
  <2>1. worker'[w].pc \notin {"check", "begin", "start", "call"}
    <3>1. CASE Repair(w)
      BY <1>1, <3>1, RepairDoes DEF GoesOn, Idles, Persists
    <3>2. CASE Begin(w)
      BY <1>1, <3>2, BeginDoes DEF GoesOn, Idles, Persists
    <3>3. CASE Lock(w)
      BY <1>1, <3>3, LockDoes DEF GoesOn, Idles, Persists
    <3>4. CASE LockBusy(w)
      BY <1>1, <3>4, LockBusyDoes DEF GoesOn, Idles, Persists
    <3>5. CASE Relinquish(w)
      BY <1>1, <3>5, RelinquishDoes DEF GoesOn, Idles, Persists
    <3>6. CASE Respond(w)
      BY <1>1, <3>6, RespondDoes DEF GoesOn, Idles, Persists
    <3> QED
      BY <1>7, <3>1, <3>2, <3>3, <3>4, <3>5, <3>6
  <2> QED
    BY <2>1 DEF BeginnerWaits, CallerWaits, Hot
<1>8. CASE Complete(w) \/ Import(w) \/ Settle(w) \/ Mark(w) \/ Fail(w) \/ Persist(w) \/ Crash(w)
  <2>1. worker'[w].pc \notin {"check", "begin", "start", "call"}
    <3>1. CASE Complete(w)
      BY <1>1, <3>1, CompleteDoes DEF GoesOn, Idles, Persists
    <3>2. CASE Import(w)
      BY <1>1, <3>2, ImportDoes DEF GoesOn, Idles, Persists
    <3>3. CASE Settle(w)
      BY <1>1, <3>3, SettleDoes DEF GoesOn, Idles, Persists
    <3>4. CASE Mark(w)
      BY <1>1, <3>4, MarkDoes DEF GoesOn, Idles, Persists
    <3>5. CASE Fail(w)
      BY <1>1, <3>5, FailDoes DEF GoesOn, Idles, Persists
    <3>6. CASE Persist(w)
      BY <1>1, <3>6, PersistDoes DEF GoesOn, Idles, Persists
    <3>7. CASE Crash(w)
      BY <1>1, <3>7, CrashDoes DEF GoesOn, Idles, Persists
    <3> QED
      BY <1>8, <3>1, <3>2, <3>3, <3>4, <3>5, <3>6, <3>7
  <2> QED
    BY <2>1 DEF BeginnerWaits, CallerWaits, Hot
<1> QED
  BY <1>2, <1>3, <1>4, <1>5, <1>6, <1>7, <1>8 DEF Step

\* Commands leave the waits alone; a search that is asked for has none.
LEMMA CommandWaits ==
    ASSUME BaseInv, WaitInv,
           \/ \E s \in Searches : Search(s) \/ Revoke(s)
           \/ \E e \in Employees : ReplaceKey(e) \/ Disconnect(e) \/ Deny(e) \/ Grant(e)
           \/ LoseLane \/ UNCHANGED vars
    PROVE  WaitInv'
<1>0. TypeInv
  BY DEF BaseInv
<1>1. KeepsWaits
  BY DEF KeepsWaits, history, Search, Revoke, ReplaceKey, Disconnect, Deny, Grant, LoseLane, vars
<1>2. ASSUME NEW s \in Searches
      PROVE  WaitAt(s)'
  <2>1. ASSUME NEW r \in Searches, Search(r)
        PROVE  WaitAt(s)'
    <3>1. \/ receipt'[s] = receipt[s]
          \/ receipt[s].state = "none" /\ receipt'[s].state = "retry_scheduled"
      <4>1. receipt[r].state = "none"
        BY <2>1 DEF Search
      <4> QED
        BY <1>0, <2>1, <4>1, Rows, IsAskedFor
    <3> QED
      BY <1>1, <3>1, SameWait DEF WaitInv
  <2>2. ASSUME NEW r \in Searches, Revoke(r)
        PROVE  WaitAt(s)'
    <3>1. receipt'[s] = receipt[s] \/ receipt'[s].state \in TerminalStates
      BY <1>0, <2>2, RevokeDoes DEF OnlyReceipt, Turns, TerminalStates
    <3> QED
      BY <1>1, <3>1, SameWait DEF WaitInv
  <2>3. CASE receipt' = receipt
    BY <1>1, <2>3, SameWait DEF WaitInv
  <2> QED
    BY <2>1, <2>2, <2>3 DEF ReplaceKey, Disconnect, Deny, Grant, LoseLane, vars, rows
<1>3. ASSUME NEW w \in Workers
      PROVE  BeginnerWaits(w)' /\ CallerWaits(w)'
  <2>1. Spares(w) /\ KeepsLane(w)
    BY CommandSpares, CommandKeepsLane
  <2>2. worker'[w] = worker[w]
    BY <2>1 DEF Spares
  <2>3. BeginnerWaits(w)'
    <3>1. worker[w].pc \in {"check", "begin"} /\ Holds(w)' => Holds(w)
      BY <2>1, SparedHad
    <3> QED
      BY <1>1, <2>2, <3>1 DEF WaitInv, BeginnerWaits, KeepsWaits, Eased
  <2>4. CallerWaits(w)'
    BY <1>1, <2>1, <2>2 DEF WaitInv, CallerWaits, Hot, KeepsLane, KeepsWaits, Eased
  <2> QED
    BY <2>3, <2>4
<1> QED
  BY <1>2, <1>3 DEF WaitInv

LEMMA TickWaits ==
    ASSUME BaseInv, WaitInv, Tick
    PROVE  WaitInv'
<1>0. TypeInv /\ notBefore \in [Searches -> Nat]
  BY DEF BaseInv, TypeInv, Others
<1>1. ASSUME NEW s \in Searches
      PROVE  /\ WaitAt(s)' /\ (Eased(s) => Eased(s)')
             /\ receipt'[s].next = Less(receipt[s].next)
  <2>1. /\ notBefore'[s] = Less(notBefore[s]) /\ rushed' = rushed
        /\ notBefore[s] \in Nat
    BY <1>0 DEF Tick
  <2>2. /\ receipt'[s].state = receipt[s].state /\ receipt'[s].next = Less(receipt[s].next)
        /\ receipt[s].next \in Nat
    BY <1>0, Rows, Ticks DEF Receipts
  <2>3. WaitAt(s)
    BY DEF WaitInv
  <2> QED
    BY <2>1, <2>2, <2>3 DEF WaitAt, Eased, Less
<1>2. ASSUME NEW w \in Workers
      PROVE  BeginnerWaits(w)' /\ CallerWaits(w)'
  <2>0. PICK s \in Searches : s = worker[w].search
    BY <1>0, Rows
  <2>1. /\ worker'[w].pc = worker[w].pc /\ worker'[w].search = s
        /\ worker'[w].token = worker[w].token
        /\ job'[s].status = job[s].status /\ job'[s].token = job[s].token
    BY <1>0, <2>0, Rows, Ticks
  <2>2. w \in lane' => w \in lane
    BY DEF Tick
  <2>3. Eased(s) => Eased(s)'
    BY <1>1
  <2> QED
    BY <2>0, <2>1, <2>2, <2>3 DEF WaitInv, BeginnerWaits, CallerWaits, Holds, HoldsJob, Hot, Eased
<1> QED
  BY <1>1, <1>2 DEF WaitInv

LEMMA WaitStep ==
    ASSUME BaseInv, HotInv, FenceInv, WaitInv, [Next]_vars
    PROVE  WaitInv'
<1>0. TypeInv
  BY DEF BaseInv
<1>1. ASSUME NEW v \in Workers, Step(v) \/ LockBusy(v) \/ Crash(v)
      PROVE  WaitInv'
  <2>1. \A w \in Workers : w # v => BeginnerWaits(w)' /\ CallerWaits(w)'
    BY <1>1, WorkerSpares, WorkerKeepsLane, SparedWaits
  <2>2. BeginnerWaits(v)' /\ CallerWaits(v)'
    BY <1>1, OwnWaits
  <2>3. \A s \in Searches : WaitAt(s)'
    BY <1>1, WorkerWait
  <2> QED
    BY <2>1, <2>2, <2>3 DEF WaitInv
<1>2. ASSUME NEW v \in Workers, NEW r \in Searches, Claim(v, r)
      PROVE  WaitInv'
  <2>1. KeepsWaits /\ receipt' = receipt /\ lane' = lane
    BY <1>2 DEF Claim, KeepsWaits, history
  <2>2. \A s \in Searches : WaitAt(s)'
    BY <2>1, SameWait DEF WaitInv
  <2>3. ASSUME NEW w \in Workers, w # v
        PROVE  BeginnerWaits(w)' /\ CallerWaits(w)'
    <3>1. Spares(w) /\ worker'[w] = worker[w]
      BY <1>2, <2>3, ClaimSpares DEF Spares
    <3>2. worker[w].pc \in {"check", "begin"} /\ Holds(w)' => Holds(w)
      BY <3>1, SparedHad
    <3> QED
      BY <2>1, <3>1, <3>2 DEF WaitInv, BeginnerWaits, CallerWaits, Hot, KeepsWaits, Eased
  <2>4. BeginnerWaits(v)' /\ CallerWaits(v)'
    <3>1. worker'[v].pc = FirstStep(r) /\ worker'[v].search = r
      BY <1>0, <1>2, Rows, Claims
    <3>2. FirstStep(r) \notin {"begin", "start", "call"}
      BY DEF FirstStep
    <3>3. ASSUME FirstStep(r) = "check"
          PROVE  Eased(r)
      <4>1. receipt[r].state = "retry_scheduled" /\ receipt[r].next = 0
        BY <3>3 DEF FirstStep
      <4>2. notBefore[r] \in Nat
        BY <1>0 DEF TypeInv, Others
      <4> QED
        BY <4>1, <4>2 DEF WaitInv, WaitAt, Eased
    <3> QED
      BY <2>1, <3>1, <3>2, <3>3 DEF BeginnerWaits, CallerWaits, Hot, KeepsWaits, Eased
  <2> QED
    BY <2>2, <2>3, <2>4 DEF WaitInv
<1>3. CASE \/ \E s \in Searches : Search(s) \/ Revoke(s)
           \/ \E e \in Employees : ReplaceKey(e) \/ Disconnect(e) \/ Deny(e) \/ Grant(e)
           \/ LoseLane \/ UNCHANGED vars
  BY <1>3, CommandWaits
<1>4. CASE Tick
  BY <1>4, TickWaits
<1> QED
  BY <1>1, <1>2, <1>3, <1>4 DEF Next, ClaimSome

CallInv == BaseInv /\ HolderInv /\ HotInv /\ FenceInv /\ WaitInv

\* Together with it: a worker that took the job over does not meet the attempt of
\* the one before it, and no attempt is open before the wait of its search is over.
THEOREM CallsHold == Spec => []CallInv
<1>1. Init => FenceInv /\ WaitInv
  <2> SUFFICES ASSUME Init PROVE FenceInv /\ WaitInv
    OBVIOUS
  <2>1. \A w \in Workers : worker[w].pc = "idle"
    BY DEF Init, IdleWorker
  <2>2. \A s \in Searches : notBefore[s] = 0
    BY DEF Init
  <2> QED
    BY <2>1, <2>2 DEF FenceInv, FenceAt, WaitInv, WaitAt, BeginnerWaits, CallerWaits, Hot, Eased
<1>2. BaseInv /\ HolderInv /\ HotInv /\ FenceInv /\ WaitInv /\ [Next]_vars
        => (FenceInv /\ WaitInv)'
  BY FenceStep, WaitStep
<1> QED
  BY <1>1, <1>2, HotHolds, PTL DEF Spec, CallInv

\* The wait a failed call asked for passes before the next call of the search,
\* whichever worker takes the job, returns it or recovers it, unless an attempt
\* began before by a worker that had lost the job.
THEOREM WaitsAreHonoured == Spec => RetryAfterHonoured
<1>1. CallInv /\ [Next]_vars =>
        [\A w \in Workers : worker[w].pc # "call" /\ worker'[w].pc = "call" =>
           notBefore[worker[w].search] = 0 \/ worker[w].search \in rushed]_vars
  <2> SUFFICES ASSUME CallInv, [Next]_vars, NEW w \in Workers,
                      worker[w].pc # "call", worker'[w].pc = "call"
               PROVE  Eased(worker[w].search)
    BY DEF Eased
  <2>0. TypeInv /\ HotInv /\ CallerWaits(w)
    BY DEF CallInv, BaseInv, WaitInv
  <2>1. CASE StartCall(w)
    <3>1. worker[w].pc = "start" /\ w \in lane
      BY <2>0, <2>1, StartCallDoes DEF Idles
    <3> QED
      BY <2>0, <3>1 DEF CallerWaits, Hot
  <2>2. CASE ~StartCall(w)
    <3> SUFFICES worker'[w].pc # "call"
      OBVIOUS
    <3>1. ASSUME NEW v \in Workers, w # v, Step(v) \/ LockBusy(v) \/ Crash(v)
          PROVE  worker'[w] = worker[w]
      BY <3>1, WorkerSpares DEF CallInv, Spares
    <3>2. CASE Configure(w)
      BY <2>0, <3>2, Rows, Configures
    <3>3. CASE Repair(w) \/ Recover(w) \/ CheckActor(w) \/ Begin(w) \/ Lock(w) \/ LockBusy(w)
               \/ Relinquish(w) \/ Fence(w) \/ Respond(w)
      <4>1. CASE Repair(w)
        BY <2>0, <4>1, RepairDoes DEF GoesOn, Idles, Persists
      <4>2. CASE Recover(w)
        BY <2>0, <4>2, RecoverDoes DEF GoesOn, Idles, Persists
      <4>3. CASE CheckActor(w)
        BY <2>0, <4>3, CheckActorDoes DEF GoesOn, Idles, Persists
      <4>4. CASE Begin(w)
        BY <2>0, <4>4, BeginDoes DEF GoesOn, Idles, Persists
      <4>5. CASE Lock(w)
        BY <2>0, <4>5, LockDoes DEF GoesOn, Idles, Persists
      <4>6. CASE LockBusy(w)
        BY <2>0, <4>6, LockBusyDoes DEF GoesOn, Idles, Persists
      <4>7. CASE Relinquish(w)
        BY <2>0, <4>7, RelinquishDoes DEF GoesOn, Idles, Persists
      <4>8. CASE Fence(w)
        BY <2>0, <4>8, FenceDoes DEF GoesOn, Idles, Persists
      <4>9. CASE Respond(w)
        BY <2>0, <4>9, RespondDoes DEF GoesOn, Idles, Persists
      <4> QED
        BY <3>3, <4>1, <4>2, <4>3, <4>4, <4>5, <4>6, <4>7, <4>8, <4>9
    <3>4. CASE Complete(w) \/ Import(w) \/ Settle(w) \/ Mark(w) \/ Fail(w) \/ Persist(w) \/ Crash(w)
      <4>1. CASE Complete(w)
        BY <2>0, <4>1, CompleteDoes DEF GoesOn, Idles, Persists
      <4>2. CASE Import(w)
        BY <2>0, <4>2, ImportDoes DEF GoesOn, Idles, Persists
      <4>3. CASE Settle(w)
        BY <2>0, <4>3, SettleDoes DEF GoesOn, Idles, Persists
      <4>4. CASE Mark(w)
        BY <2>0, <4>4, MarkDoes DEF GoesOn, Idles, Persists
      <4>5. CASE Fail(w)
        BY <2>0, <4>5, FailDoes DEF GoesOn, Idles, Persists
      <4>6. CASE Persist(w)
        BY <2>0, <4>6, PersistDoes DEF GoesOn, Idles, Persists
      <4>7. CASE Crash(w)
        BY <2>0, <4>7, CrashDoes DEF GoesOn, Idles, Persists
      <4> QED
        BY <3>4, <4>1, <4>2, <4>3, <4>4, <4>5, <4>6, <4>7
    <3>5. ASSUME NEW v \in Workers, NEW s \in Searches, Claim(v, s)
          PROVE  worker'[w].pc # "call"
      BY <2>0, <3>5, Rows, Claims DEF FirstStep
    <3>6. CASE \/ \E s \in Searches : Search(s) \/ Revoke(s)
               \/ \E e \in Employees : ReplaceKey(e) \/ Disconnect(e) \/ Deny(e) \/ Grant(e)
               \/ LoseLane \/ UNCHANGED vars
      BY <3>6, CommandSpares DEF CallInv, Spares
    <3>7. CASE Tick
      BY <2>0, <3>7, Rows, Ticks
    <3> QED
      BY <2>2, <3>1, <3>2, <3>3, <3>4, <3>5, <3>6, <3>7 DEF Next, ClaimSome, Step
  <2> QED
    BY <2>1, <2>2
<1> QED
  BY <1>1, CallsHold, PTL DEF Spec, RetryAfterHonoured
-------------------------------------------------------------------------------
(* A key in error *)

\* A worker that is to mark a key holds Apollo's refusal of it.
RefusedAt(w) ==
    worker[w].pc = "mark" \/ (worker[w].pc = "settle" /\ worker[w].answer = "auth")
    => <<Owner[worker[w].search], worker[w].cred>> \in rejected
RefusalInv == KeyErrorIsCurrent /\ \A w \in Workers : RefusedAt(w)

LEMMA RefusalsStay ==
    ASSUME TypeInv, [Next]_vars
    PROVE  rejected \subseteq rejected'
<1>1. ASSUME NEW w \in Workers, Respond(w)
      PROVE  rejected \subseteq rejected'
  BY <1>1, RespondDoes
<1> QED
  BY <1>1, Writers DEF FewWrite

LEMMA OwnRefusal ==
    ASSUME TypeInv, NEW w \in Workers, RefusedAt(w), rejected \subseteq rejected',
           Step(w) \/ LockBusy(w) \/ Crash(w)
    PROVE  RefusedAt(w)'
<1>1. CASE Respond(w)
  <2>1. /\ worker'[w].pc \in {"complete", "settle"}
        /\ worker'[w].search = worker[w].search /\ worker'[w].cred = worker[w].cred
        /\ worker'[w].answer = "auth" => <<Owner[worker[w].search], worker[w].cred>> \in rejected'
    BY <1>1, RespondDoes
  <2> QED
    BY <2>1 DEF RefusedAt
<1>2. CASE Settle(w)
  <2>1. \/ worker'[w].pc \in {"idle", "fail"}
        \/ worker[w].answer = "auth" /\ GoesOn(w, "mark")
    BY <1>2, SettleDoes DEF Idles, GoesOn
  <2>2. worker[w].pc = "settle"
    BY <1>2 DEF Settle
  <2> QED
    BY <2>1, <2>2 DEF RefusedAt, GoesOn
<1>3. CASE Configure(w)
  BY <1>3, Rows, Configures DEF RefusedAt
<1>4. CASE Repair(w) \/ Recover(w) \/ CheckActor(w) \/ Begin(w) \/ Lock(w) \/ LockBusy(w)
           \/ Relinquish(w) \/ Fence(w)
  <2>1. worker'[w].pc \notin {"mark", "settle"}
    <3>1. CASE Repair(w)
      BY <3>1, RepairDoes DEF GoesOn, Idles, Persists
    <3>2. CASE Recover(w)
      BY <3>2, RecoverDoes DEF GoesOn, Idles, Persists
    <3>3. CASE CheckActor(w)
      BY <3>3, CheckActorDoes DEF GoesOn, Idles, Persists
    <3>4. CASE Begin(w)
      BY <3>4, BeginDoes DEF GoesOn, Idles, Persists
    <3>5. CASE Lock(w)
      BY <3>5, LockDoes DEF GoesOn, Idles, Persists
    <3>6. CASE LockBusy(w)
      BY <3>6, LockBusyDoes DEF GoesOn, Idles, Persists
    <3>7. CASE Relinquish(w)
      BY <3>7, RelinquishDoes DEF GoesOn, Idles, Persists
    <3>8. CASE Fence(w)
      BY <3>8, FenceDoes DEF GoesOn, Idles, Persists
    <3> QED
      BY <1>4, <3>1, <3>2, <3>3, <3>4, <3>5, <3>6, <3>7, <3>8
  <2> QED
    BY <2>1 DEF RefusedAt
<1>5. CASE StartCall(w) \/ Complete(w) \/ Import(w) \/ Mark(w) \/ Fail(w) \/ Persist(w) \/ Crash(w)
  <2>1. worker'[w].pc \notin {"mark", "settle"}
    <3>1. CASE StartCall(w)
      BY <3>1, StartCallDoes DEF GoesOn, Idles, Persists
    <3>2. CASE Complete(w)
      BY <3>2, CompleteDoes DEF GoesOn, Idles, Persists
    <3>3. CASE Import(w)
      BY <3>3, ImportDoes DEF GoesOn, Idles, Persists
    <3>4. CASE Mark(w)
      BY <3>4, MarkDoes DEF GoesOn, Idles, Persists
    <3>5. CASE Fail(w)
      BY <3>5, FailDoes DEF GoesOn, Idles, Persists
    <3>6. CASE Persist(w)
      BY <3>6, PersistDoes DEF GoesOn, Idles, Persists
    <3>7. CASE Crash(w)
      BY <3>7, CrashDoes DEF GoesOn, Idles, Persists
    <3> QED
      BY <1>5, <3>1, <3>2, <3>3, <3>4, <3>5, <3>6, <3>7
  <2> QED
    BY <2>1 DEF RefusedAt
<1> QED
  BY <1>1, <1>2, <1>3, <1>4, <1>5 DEF Step

\* What a step does to the workers: it moves one, or none, or is a tick.
LEMMA OneMoves ==
    ASSUME BaseInv, [Next]_vars
    PROVE  \/ \A w \in Workers : worker'[w] = worker[w] /\ Spares(w)
           \/ \E v \in Workers :
                /\ \A w \in Workers : w # v => worker'[w] = worker[w] /\ Spares(w)
                /\ \/ Step(v) \/ LockBusy(v) \/ Crash(v)
                   \/ \E s \in Searches : Claim(v, s)
           \/ Tick
<1>1. ASSUME NEW v \in Workers, Step(v) \/ LockBusy(v) \/ Crash(v)
      PROVE  \A w \in Workers : w # v => worker'[w] = worker[w] /\ Spares(w)
  BY <1>1, WorkerSpares DEF Spares
<1>2. ASSUME NEW v \in Workers, NEW s \in Searches, Claim(v, s)
      PROVE  \A w \in Workers : w # v => worker'[w] = worker[w] /\ Spares(w)
  BY <1>2, ClaimSpares DEF Spares
<1>3. CASE \/ \E s \in Searches : Search(s) \/ Revoke(s)
           \/ \E e \in Employees : ReplaceKey(e) \/ Disconnect(e) \/ Deny(e) \/ Grant(e)
           \/ LoseLane \/ UNCHANGED vars
  BY <1>3, CommandSpares DEF Spares
<1> QED
  BY <1>1, <1>2, <1>3 DEF Next, ClaimSome

LEMMA RefusalStep ==
    ASSUME BaseInv, RefusalInv, [Next]_vars
    PROVE  RefusalInv'
<1>0. TypeInv /\ rejected \subseteq rejected'
  BY RefusalsStay DEF BaseInv
<1>1. \A w \in Workers : worker'[w] = worker[w] => RefusedAt(w)'
  BY <1>0 DEF RefusalInv, RefusedAt
<1>2. \A w \in Workers : RefusedAt(w)'
  <2>1. ASSUME NEW v \in Workers, Step(v) \/ LockBusy(v) \/ Crash(v)
        PROVE  RefusedAt(v)'
    BY <1>0, <2>1, OwnRefusal DEF RefusalInv
  <2>2. ASSUME NEW v \in Workers, NEW s \in Searches, Claim(v, s)
        PROVE  RefusedAt(v)'
    BY <1>0, <2>2, Rows, Claims DEF RefusedAt, FirstStep
  <2>3. ASSUME Tick, NEW w \in Workers
        PROVE  RefusedAt(w)'
    BY <1>0, <2>3, Rows, Ticks DEF RefusalInv, RefusedAt
  <2> QED
    BY <1>1, <2>1, <2>2, <2>3, OneMoves
<1>3. KeyErrorIsCurrent'
  <2>1. ASSUME NEW v \in Workers, Mark(v)
        PROVE  KeyErrorIsCurrent'
    <3>1. \A e \in Employees :
            /\ connection'[e].version = connection[e].version
            /\ \/ connection'[e] = connection[e]
               \/ e = Owner[worker[v].search] /\ connection[e].version = worker[v].cred
      BY <1>0, <2>1, Rows, Marks
    <3>2. <<Owner[worker[v].search], worker[v].cred>> \in rejected
      BY <2>1 DEF Mark, RefusalInv, RefusedAt
    <3> QED
      BY <1>0, <3>1, <3>2 DEF RefusalInv, KeyErrorIsCurrent
  <2>2. ASSUME NEW e \in Employees, ReplaceKey(e) \/ Disconnect(e)
        PROVE  KeyErrorIsCurrent'
    <3>1. /\ connection'[e].status # "error"
          /\ \A d \in Employees : d # e => connection'[d] = connection[d]
      BY <1>0, <2>2, Rows, KeyReplaced, KeyDisconnected
    <3> QED
      BY <1>0, <3>1 DEF RefusalInv, KeyErrorIsCurrent
  <2>3. CASE /\ ~\E e \in Employees : ReplaceKey(e) \/ Disconnect(e)
             /\ ~\E w \in Workers : Mark(w)
    <3>1. connection' = connection
      BY <1>0, <2>3, Writers DEF FewWrite
    <3> QED
      BY <1>0, <3>1 DEF RefusalInv, KeyErrorIsCurrent
  <2> QED
    BY <2>1, <2>2, <2>3
<1> QED
  BY <1>2, <1>3 DEF RefusalInv

\* A connection is in error only if Apollo refused the key it has: a refusal that
\* comes after the key was replaced marks nothing.
THEOREM KeyErrorsAreCurrent == Spec => []KeyErrorIsCurrent
<1>1. Init => RefusalInv
  BY DEF Init, IdleWorker, RefusalInv, RefusedAt, KeyErrorIsCurrent
<1>2. BaseInv /\ RefusalInv /\ [Next]_vars => RefusalInv'
  BY RefusalStep
<1>3. RefusalInv => KeyErrorIsCurrent
  BY DEF RefusalInv
<1> QED
  BY <1>1, <1>2, <1>3, BaseHolds, PTL DEF Spec
-------------------------------------------------------------------------------
(* What is reported, and ends a job *)

\* A final result that a worker reports is the outcome of its search.
ReportAt(w) == worker[w].result \in TerminalStates =>
    receipt[worker[w].search].state = worker[w].result
EndedAt(s) ==
    /\ job[s].status = "completed" => receipt[s].state = "completed"
    /\ job[s].status = "failed" => receipt[s].state \in {"dead_letter", "revoked"}
ReportInv == (\A w \in Workers : ReportAt(w)) /\ \A s \in Searches : EndedAt(s)

\* The worker reports what it did, or read: nothing, the state of the receipt, or what it had.
LEMMA OwnReport ==
    ASSUME TypeInv, Final, NEW w \in Workers, ReportAt(w), Step(w) \/ LockBusy(w) \/ Crash(w)
    PROVE  ReportAt(w)'
<1>0. PICK s \in Searches : s = worker[w].search
  BY Rows
<1>1. CASE worker'[w].result = "none"
  BY <1>1 DEF ReportAt, TerminalStates
<1>2. CASE worker'[w].search = s /\ worker'[w].result = worker[w].result
  BY <1>0, <1>2 DEF ReportAt, Final, Settled
<1>3. CASE worker'[w].search = s /\ worker'[w].result = receipt'[s].state
  BY <1>3 DEF ReportAt
<1>4. CASE Repair(w) \/ Recover(w) \/ Lock(w) \/ LockBusy(w) \/ Mark(w) \/ Crash(w)
  <2>1. CASE Repair(w)
    BY <1>0, <1>1, <1>2, <2>1, RepairDoes DEF GoesOn, Idles
  <2>2. CASE Recover(w)
    BY <1>0, <1>1, <1>2, <2>2, RecoverDoes DEF GoesOn, Idles
  <2>3. CASE Lock(w)
    BY <1>0, <1>1, <1>2, <2>3, LockDoes DEF GoesOn, Idles
  <2>4. CASE LockBusy(w)
    BY <1>0, <1>1, <1>2, <2>4, LockBusyDoes DEF GoesOn, Idles
  <2>5. CASE Mark(w)
    BY <1>0, <1>1, <1>2, <2>5, MarkDoes DEF GoesOn, Idles
  <2>6. CASE Crash(w)
    BY <1>0, <1>1, <1>2, <2>6, CrashDoes DEF GoesOn, Idles
  <2> QED
    BY <1>4, <2>1, <2>2, <2>3, <2>4, <2>5, <2>6
<1>5. CASE Relinquish(w) \/ Persist(w) \/ Settle(w) \/ StartCall(w) \/ Respond(w)
  <2>1. CASE Relinquish(w)
    BY <1>0, <1>1, <1>2, <2>1, RelinquishDoes DEF GoesOn, Idles
  <2>2. CASE Persist(w)
    BY <1>0, <1>1, <1>2, <2>2, PersistDoes DEF GoesOn, Idles
  <2>3. CASE Settle(w)
    BY <1>0, <1>1, <1>2, <2>3, SettleDoes DEF GoesOn, Idles
  <2>4. CASE StartCall(w)
    BY <1>0, <1>1, <1>2, <2>4, StartCallDoes DEF GoesOn, Idles
  <2>5. CASE Respond(w)
    BY <1>0, <1>1, <1>2, <2>5, RespondDoes DEF GoesOn, Idles
  <2> QED
    BY <1>5, <2>1, <2>2, <2>3, <2>4, <2>5
<1>6. CASE Configure(w)
  BY <1>0, <1>2, <1>6, Rows, Configures
<1>7. CASE CheckActor(w) \/ Begin(w)
  <2>1. \/ worker'[w].search = s /\ worker'[w].result = worker[w].result
        \/ worker'[w].search = s /\ worker'[w].result = receipt'[s].state
    <3>1. CASE CheckActor(w)
      BY <1>0, <3>1, CheckActorDoes DEF GoesOn, Persists, Turns
    <3>2. CASE Begin(w)
      BY ZenonT(60), <1>0, <3>2, BeginDoes DEF GoesOn, Persists, Turns
    <3> QED
      BY <1>7, <3>1, <3>2
  <2> QED
    BY <1>2, <1>3, <2>1
<1>8. CASE Fence(w)
  BY <1>0, <1>1, <1>2, <1>3, <1>8, FenceDoes DEF GoesOn, Persists, Idles, Turns
<1>9. CASE Complete(w)
  BY <1>0, <1>1, <1>2, <1>3, <1>9, CompleteDoes DEF GoesOn, Persists, Idles, Turns
<1>10. CASE Import(w)
  <2>1. receipt' = receipt
    BY <1>10 DEF Import
  <2> QED
    BY <1>0, <1>1, <1>3, <1>10, <2>1, ImportDoes DEF Persists, Idles
<1>11. CASE Fail(w)
  <2>1. \/ worker'[w].result = "none"
        \/ worker'[w].search = s /\ worker'[w].result = receipt'[s].state
    <3> DEFINE state == FailureState(w)
    <3>1. \/ Idles(w)
          \/ Persists(w, state) /\ receipt'[s].state = state
          \/ Persists(w, receipt[s].state) /\ receipt' = receipt
      BY <1>0, <1>11, FailDoes DEF Turns
    <3> HIDE DEF state
    <3> QED
      BY <1>0, <3>1 DEF Idles, Persists
  <2> QED
    BY <1>1, <1>3, <2>1
<1> QED
  BY <1>4, <1>5, <1>6, <1>7, <1>8, <1>9, <1>10, <1>11 DEF Step

\* A step that does not end a job leaves it agreeing with its search.
LEMMA SameEnd ==
    ASSUME Final, NEW s \in Searches, EndedAt(s),
           job'[s].status = job[s].status \/ job'[s].status \in {"none", "pending", "running"}
    PROVE  EndedAt(s)'
BY DEF EndedAt, Final, Settled, TerminalStates

LEMMA ReportStep ==
    ASSUME BaseInv, ReportInv, [Next]_vars
    PROVE  ReportInv'
<1>0. TypeInv /\ Final
  BY FinalStep DEF BaseInv
<1>1. \A w \in Workers : ReportAt(w)'
  <2>1. ASSUME NEW w \in Workers, worker'[w] = worker[w]
        PROVE  ReportAt(w)'
    <3>1. worker[w].search \in Searches
      BY <1>0, Rows
    <3> QED
      BY <1>0, <2>1, <3>1 DEF ReportInv, ReportAt, Final, Settled
  <2>2. ASSUME NEW v \in Workers, Step(v) \/ LockBusy(v) \/ Crash(v)
        PROVE  ReportAt(v)'
    BY <1>0, <2>2, OwnReport DEF ReportInv
  <2>3. ASSUME NEW v \in Workers, NEW s \in Searches, Claim(v, s)
        PROVE  ReportAt(v)'
    <3>1. receipt' = receipt
      BY <2>3 DEF Claim
    <3>2. /\ worker'[v].search = s
          /\ worker'[v].result = "none" \/ worker'[v].result = receipt[s].state
      BY <1>0, <2>3, Rows, Claims
    <3> QED
      BY <3>1, <3>2 DEF ReportAt, TerminalStates
  <2>4. ASSUME Tick, NEW w \in Workers
        PROVE  ReportAt(w)'
    <3>1. worker[w].search \in Searches
      BY <1>0, Rows
    <3> QED
      BY <1>0, <2>4, <3>1, Rows, Ticks DEF ReportInv, ReportAt
  <2> QED
    BY <2>1, <2>2, <2>3, <2>4, OneMoves
<1>2. ASSUME NEW s \in Searches
      PROVE  EndedAt(s)'
  <2>0. EndedAt(s)
    BY DEF ReportInv
  <2>1. ASSUME NEW r \in Searches, Search(r)
        PROVE  EndedAt(s)'
    <3>1. job'[r].status = "pending" /\ \A x \in Searches : x # r => job'[x] = job[x]
      BY <1>0, <2>1, Rows, IsAskedFor
    <3> QED
      BY <1>0, <2>0, <3>1, SameEnd
  <2>2. ASSUME NEW r \in Searches, Revoke(r)
        PROVE  EndedAt(s)'
    <3>1. OnlyJob(r) /\ receipt'[r].state = "revoked" /\ (job' = job \/ job'[r].status = "failed")
      BY <1>0, <2>2, RevokeDoes DEF Turns
    <3>2. CASE s # r \/ job' = job
      BY <1>0, <2>0, <3>1, <3>2, SameEnd DEF OnlyJob
    <3>3. CASE s = r /\ job' # job
      BY <3>1, <3>3 DEF EndedAt
    <3> QED
      BY <3>2, <3>3
  <2>3. ASSUME NEW v \in Workers, NEW r \in Searches, Claim(v, r)
        PROVE  EndedAt(s)'
    <3>1. job'[r].status = "running" /\ \A x \in Searches : x # r => job'[x] = job[x]
      BY <1>0, <2>3, Rows, Claims
    <3> QED
      BY <1>0, <2>0, <3>1, SameEnd
  <2>4. ASSUME NEW v \in Workers, Persist(v)
        PROVE  EndedAt(s)'
    <3>0. PICK r \in Searches : r = worker[v].search
      BY <1>0, Rows
    <3>1. /\ OnlyJob(r) /\ receipt' = receipt
          /\ job' = job \/ job'[r].status = JobEnd(worker[v].result)
      <4>1. receipt' = receipt
        BY <2>4 DEF Persist
      <4> QED
        BY <1>0, <2>4, <3>0, <4>1, PersistDoes
    <3>2. CASE s # r \/ job' = job
      BY <1>0, <2>0, <3>1, <3>2, SameEnd DEF OnlyJob
    <3>3. CASE s = r /\ job' # job
      <4>1. job'[s].status = JobEnd(worker[v].result)
        BY <3>1, <3>3
      <4>2. worker[v].result \in TerminalStates => receipt'[s].state = worker[v].result
        BY <3>0, <3>1, <3>3 DEF ReportInv, ReportAt
      <4> QED
        BY <4>1, <4>2 DEF EndedAt, JobEnd, TerminalStates
    <3> QED
      BY <3>2, <3>3
  <2>5. ASSUME NEW v \in Workers, Fence(v) \/ Relinquish(v)
        PROVE  EndedAt(s)'
    <3>0. PICK r \in Searches : r = worker[v].search
      BY <1>0, Rows
    <3>1. OnlyJob(r) /\ (job'[r].status = job[r].status \/ job'[r].status = "pending")
      BY <1>0, <2>5, <3>0, FenceDoes, RelinquishDoes
    <3> QED
      BY <1>0, <2>0, <3>1, SameEnd DEF OnlyJob
  <2>6. CASE Tick
    <3>1. job'[s].status = job[s].status
      BY <1>0, <2>6, Rows, Ticks
    <3> QED
      BY <1>0, <2>0, <3>1, SameEnd
  <2>7. CASE job' = job
    BY <1>0, <2>0, <2>7, SameEnd
  <2>8. ASSUME NEW v \in Workers, Step(v) \/ LockBusy(v) \/ Crash(v)
        PROVE  EndedAt(s)'
    BY <2>4, <2>5, <2>7, <2>8
       DEF Step, Repair, Recover, CheckActor, Begin, Configure, Lock, StartCall,
       Respond, Complete, Import, Settle, Mark, Fail, LockBusy, Crash
  <2>9. CASE (\E e \in Employees : ReplaceKey(e) \/ Disconnect(e) \/ Deny(e) \/ Grant(e))
             \/ LoseLane \/ UNCHANGED vars
    BY <2>7, <2>9 DEF ReplaceKey, Disconnect, Deny, Grant, LoseLane, vars, rows
  <2> QED
    BY <2>1, <2>2, <2>3, <2>6, <2>8, <2>9 DEF Next, ClaimSome
<1> QED
  BY <1>1, <1>2 DEF ReportInv

\* A job ends only when its search has, whoever reports it and however late.
THEOREM EndedJobsHaveOutcomes == Spec => []EndedJobsAreSettled
<1>1. Init => ReportInv
  BY DEF Init, IdleWorker, NoJob, ReportInv, ReportAt, EndedAt, TerminalStates
<1>2. BaseInv /\ ReportInv /\ [Next]_vars => ReportInv'
  BY ReportStep
<1>3. ReportInv => EndedJobsAreSettled
  BY DEF ReportInv, EndedAt, EndedJobsAreSettled
<1> QED
  BY <1>1, <1>2, <1>3, BaseHolds, PTL DEF Spec
-------------------------------------------------------------------------------
(* The import of a native search *)

\* Who has the job of a native search reports a completion after the import, and
\* recovers or begins an attempt of a search that is not completed.
ImportAt(w) == worker[w].search \in NativeSearches /\ Holds(w) =>
    /\ worker[w].pc \in {"check", "begin"} => receipt[worker[w].search].state # "completed"
    /\ worker[w].pc = "recover" => worker[w].result # "completed"
    /\ worker[w].pc = "persist" /\ worker[w].result = "completed"
         => worker[w].search \in imported
ImportInv == CompletedJobsAreImported /\ \A w \in Workers : ImportAt(w)

\* Only the worker of the open attempt completes a search.
LEMMA CompletedBy ==
    ASSUME TypeInv, NEW v \in Workers, Step(v) \/ LockBusy(v) \/ Crash(v), NEW s \in Searches,
           receipt[s].state # "completed", receipt'[s].state = "completed"
    PROVE  Begun(v) /\ worker[v].search = s /\ worker[v].pc = "complete"
<1>0. PICK r \in Searches : r = worker[v].search
  BY Rows
<1>1. CASE Complete(v)
  BY <1>0, <1>1, CompleteDoes DEF OnlyReceipt, Begun
<1>2. CASE Recover(v) \/ CheckActor(v) \/ Relinquish(v)
  BY <1>0, <1>2, RecoverDoes, CheckActorDoes, RelinquishDoes DEF OnlyReceipt, Turns
<1>3. CASE Begin(v) \/ Fence(v)
  BY <1>0, <1>3, BeginDoes, FenceDoes DEF OnlyReceipt, Turns
<1>4. CASE Settle(v)
  BY <1>0, <1>4, SettleDoes DEF OnlyReceipt
<1>5. CASE Fail(v)
  <2>1. OnlyReceipt(r)
        /\ (receipt' = receipt \/ receipt'[r].state \in {"revoked", "dead_letter", "retry_scheduled"})
    BY <1>0, <1>5, FailDoes, FailSets
  <2> QED
    BY <2>1 DEF OnlyReceipt
<1>6. CASE receipt' = receipt
  BY <1>6
<1> QED
  BY <1>1, <1>2, <1>3, <1>4, <1>5, <1>6
     DEF Step, Repair, Configure, Lock, StartCall, Respond, Import,
     Mark, Persist, LockBusy, Crash

LEMMA ImportsStay ==
    ASSUME TypeInv, [Next]_vars
    PROVE  imported \subseteq imported'
<1>1. ASSUME NEW w \in Workers, Repair(w) \/ Import(w)
      PROVE  imported \subseteq imported'
  BY <1>1, RepairDoes, ImportDoes
<1> QED
  BY <1>1, Writers DEF FewWrite

\* Another worker completes the search only with the open attempt, which is not
\* open next to a worker that has the job and is about to begin one.
LEMMA SparedImport ==
    ASSUME BaseInv, FenceInv, NEW w \in Workers, ImportAt(w), Spares(w),
           imported \subseteq imported',
           \A s \in Searches : receipt[s].state # "completed" /\ receipt'[s].state = "completed" =>
             \E v \in Workers : Begun(v) /\ worker[v].search = s /\ worker[v].pc = "complete"
    PROVE  ImportAt(w)'
<1>0. PICK s \in Searches : s = worker[w].search
  BY Rows DEF BaseInv
<1>1. worker'[w] = worker[w]
  BY DEF Spares
<1> SUFFICES ASSUME s \in NativeSearches, Holds(w)', worker[w].pc # "idle"
             PROVE  ImportAt(w)'
  BY <1>0, <1>1 DEF ImportAt
<1>2. Holds(w)
  BY SparedHad
<1>3. ASSUME worker[w].pc \in {"check", "begin"}
      PROVE  receipt'[s].state # "completed"
  <2>1. receipt[s].state # "completed"
    BY <1>0, <1>2, <1>3 DEF ImportAt
  <2>2. \A v \in Workers : worker[v].search = s /\ worker[v].pc = "complete" => ~Begun(v)
    BY <1>0, <1>2, <1>3 DEF FenceInv, FenceAt, PastFence
  <2> QED
    BY <2>1, <2>2
<1> QED
  BY <1>0, <1>1, <1>2, <1>3 DEF ImportAt

\* A worker that has the job and finds its attempt closed reads a revocation.
LEMMA OwnImport ==
    ASSUME BaseInv, HolderInv, NEW w \in Workers, ImportAt(w),
           Step(w) \/ LockBusy(w) \/ Crash(w)
    PROVE  ImportAt(w)'
<1>0. PICK s \in Searches : s = worker[w].search
  BY Rows DEF BaseInv
<1>1. TypeInv /\ HolderAt(w)
  BY DEF BaseInv, HolderInv
<1>2. CASE worker'[w].pc \notin {"check", "begin", "recover", "persist"}
  BY <1>2 DEF ImportAt
<1>3. CASE s \notin NativeSearches /\ worker'[w].search = s
  BY <1>3 DEF ImportAt
<1>4. CASE worker'[w].pc = "persist" /\ worker'[w].result # "completed"
  BY <1>4 DEF ImportAt
<1>5. CASE worker'[w].pc = "persist" /\ worker'[w].search = s /\ s \in imported'
  BY <1>5 DEF ImportAt
<1>6. CASE Repair(w) \/ Import(w)
  BY <1>0, <1>1, <1>2, <1>5, <1>6, RepairDoes, ImportDoes DEF GoesOn, Idles, Persists
<1>7. CASE Recover(w)
  <2>1. job' = job /\ worker[w].pc = "recover" /\ imported' = imported
    BY <1>7 DEF Recover
  <2>2. /\ worker'[w].search = s /\ worker'[w].token = worker[w].token
        /\ \/ worker'[w].pc = "check" /\ receipt'[s].state = "retry_scheduled"
           \/ worker'[w].pc = "persist" /\ worker'[w].result = worker[w].result
    BY <1>0, <1>1, <1>7, RecoverDoes DEF GoesOn, Turns
  <2> QED
    BY <1>0, <2>1, <2>2 DEF ImportAt, Holds, HoldsJob
<1>8. CASE CheckActor(w) \/ Begin(w)
  <2>1. job' = job /\ imported' = imported /\ worker[w].pc \in {"check", "begin"}
    BY <1>8 DEF CheckActor, Begin
  <2>2. /\ worker'[w].search = s /\ worker'[w].token = worker[w].token
        /\ \/ worker'[w].pc = "begin" /\ receipt' = receipt
           \/ worker'[w].pc = "configure"
           \/ worker'[w].pc = "persist" /\ worker'[w].result \in {"revoked", "dead_letter"}
           \/ worker'[w].pc = "persist" /\ worker'[w].result = receipt[s].state
    <3>1. CASE CheckActor(w)
      BY <1>0, <1>1, <3>1, CheckActorDoes DEF GoesOn, Persists
    <3>2. CASE Begin(w)
      BY <1>0, <1>1, <3>2, BeginDoes DEF GoesOn, Persists
    <3> QED
      BY <1>8, <3>1, <3>2
  <2> QED
    BY <1>0, <2>1, <2>2 DEF ImportAt, Holds, HoldsJob
<1>9. CASE Fence(w) \/ Complete(w) \/ Fail(w)
  <2>1. worker[w].pc \in PastBegin
    BY <1>9 DEF Fence, Complete, Fail, PastBegin
  <2>2. \/ worker'[w].pc \notin {"check", "begin", "recover", "persist"}
        \/ worker'[w].search = s /\ s \notin NativeSearches
        \/ worker'[w].pc = "persist" /\ worker'[w].result # "completed"
        \/ /\ worker'[w].pc = "persist" /\ worker'[w].search = s
           /\ worker'[w].token = worker[w].token /\ worker'[w].result = receipt[s].state
           /\ job' = job /\ ~(Begun(w) /\ Holds(w))
    <3>1. CASE Fence(w)
      BY <1>0, <1>1, <3>1, FenceDoes DEF GoesOn, Persists, Idles, Begun, Holds
    <3>2. CASE Complete(w)
      <4>1. job' = job
        BY <3>2 DEF Complete
      <4> QED
        BY <1>0, <1>1, <3>2, <4>1, CompleteDoes DEF GoesOn, Persists, Idles, Begun
    <3>3. CASE Fail(w)
      <4>1. job' = job
        BY <3>3 DEF Fail
      <4>2. FailureState(w) # "completed"
        BY DEF FailureState
      <4> QED
        BY <1>0, <1>1, <3>3, <4>1, <4>2, FailDoes DEF Persists, Idles, Begun
    <3> QED
      BY <1>9, <3>1, <3>2, <3>3
  <2>3. ASSUME worker'[w].pc = "persist", worker'[w].search = s,
               worker'[w].token = worker[w].token, worker'[w].result = receipt[s].state,
               job' = job, ~(Begun(w) /\ Holds(w))
        PROVE  ImportAt(w)'
    <3>1. Holds(w) => receipt[s].state = "revoked"
      BY <1>0, <1>1, <2>1, <2>3 DEF HolderAt
    <3>2. Holds(w)' => Holds(w)
      BY <1>0, <2>3 DEF Holds, HoldsJob
    <3> QED
      BY <2>3, <3>1, <3>2 DEF ImportAt
  <2> QED
    BY <1>2, <1>3, <1>4, <2>2, <2>3
<1>10. CASE Configure(w)
  BY <1>1, <1>2, <1>10, Rows, Configures
<1>11. CASE Lock(w) \/ LockBusy(w) \/ Relinquish(w) \/ Crash(w)
  BY <1>1, <1>2, <1>11, LockDoes, LockBusyDoes, RelinquishDoes, CrashDoes DEF GoesOn, Idles
<1>12. CASE StartCall(w) \/ Respond(w) \/ Persist(w)
  BY <1>1, <1>2, <1>12, StartCallDoes, RespondDoes, PersistDoes DEF Idles
<1>13. CASE Settle(w) \/ Mark(w)
  BY <1>1, <1>2, <1>13, SettleDoes, MarkDoes DEF GoesOn, Idles
<1> QED
  BY <1>6, <1>7, <1>8, <1>9, <1>10, <1>11, <1>12, <1>13 DEF Step

\* Only the report of a worker completes a job.
LEMMA CompletedJobBy ==
    ASSUME TypeInv, [Next]_vars, NEW s \in Searches,
           job[s].status # "completed", job'[s].status = "completed"
    PROVE  \E v \in Workers : Persist(v)
<1>1. ASSUME NEW v \in Workers, Fence(v) \/ Relinquish(v)
      PROVE  FALSE
  <2>0. PICK r \in Searches : r = worker[v].search
    BY Rows
  <2>1. OnlyJob(r) /\ (job'[r].status = job[r].status \/ job'[r].status = "pending")
    BY <1>1, <2>0, FenceDoes, RelinquishDoes
  <2> QED
    BY <2>1 DEF OnlyJob
<1>2. ASSUME NEW v \in Workers, NEW r \in Searches, Claim(v, r)
      PROVE  FALSE
  <2>1. job'[r].status = "running" /\ \A x \in Searches : x # r => job'[x] = job[x]
    BY <1>2, Rows, Claims
  <2> QED
    BY <2>1
<1>3. ASSUME NEW r \in Searches, Search(r) \/ Revoke(r)
      PROVE  FALSE
  <2>1. CASE Search(r)
    BY <2>1, Rows, IsAskedFor
  <2>2. CASE Revoke(r)
    BY <2>2, RevokeDoes DEF OnlyJob
  <2> QED
    BY <1>3, <2>1, <2>2
<1>4. CASE Tick
  BY <1>4, Rows, Ticks
<1>5. job' # job
  OBVIOUS
<1> QED
  BY ZenonT(60), <1>1, <1>2, <1>3, <1>4, <1>5
     DEF Next, ClaimSome, Step, Repair, Recover, CheckActor, Begin, Configure, Lock, StartCall,
         Respond, Complete, Import, Settle, Mark, Fail, LockBusy, Crash,
     ReplaceKey, Disconnect, Deny, Grant, LoseLane, vars, rows

\* A completed native search is imported again when its job is taken over.
LEMMA ClaimImport ==
    ASSUME BaseInv, NEW w \in Workers, NEW s \in Searches, Claim(w, s)
    PROVE  ImportAt(w)'
<1>1. /\ worker'[w].pc = FirstStep(s) /\ worker'[w].search = s
      /\ worker'[w].result = IF FirstStep(s) = "check" THEN "none" ELSE receipt[s].state
  BY Rows, Claims DEF BaseInv
<1>2. receipt' = receipt
  BY DEF Claim
<1>3. /\ FirstStep(s) \in {"check", "begin"} => receipt[s].state # "completed"
      /\ FirstStep(s) = "recover" => receipt[s].state # "completed"
      /\ FirstStep(s) = "persist" /\ s \in NativeSearches => receipt[s].state # "completed"
  BY DEF FirstStep
<1> QED
  BY <1>1, <1>2, <1>3 DEF ImportAt

LEMMA ImportStep ==
    ASSUME BaseInv, HolderInv, FenceInv, ImportInv, [Next]_vars
    PROVE  ImportInv'
<1>0. TypeInv /\ imported \subseteq imported'
  BY ImportsStay DEF BaseInv
<1>1. ASSUME NEW w \in Workers
      PROVE  ImportAt(w)'
  <2>0. ImportAt(w)
    BY DEF ImportInv
  <2>1. CASE Tick
    <3>0. PICK s \in Searches : s = worker[w].search
      BY <1>0, Rows
    <3>1. /\ worker'[w].pc = worker[w].pc /\ worker'[w].search = s
          /\ worker'[w].token = worker[w].token /\ worker'[w].result = worker[w].result
          /\ receipt'[s].state = receipt[s].state
          /\ job'[s].status = job[s].status /\ job'[s].token = job[s].token
      BY <1>0, <2>1, <3>0, Rows, Ticks
    <3> QED
      BY <1>0, <2>0, <3>0, <3>1 DEF ImportAt, Holds, HoldsJob
  <2>2. ASSUME NEW v \in Workers, v # w, Step(v) \/ LockBusy(v) \/ Crash(v)
        PROVE  ImportAt(w)'
    <3>1. \A s \in Searches : receipt[s].state # "completed" /\ receipt'[s].state = "completed" =>
            Begun(v) /\ worker[v].search = s /\ worker[v].pc = "complete"
      BY <1>0, <2>2, CompletedBy
    <3>2. Spares(w)
      BY <2>2, WorkerSpares
    <3> QED
      BY <1>0, <2>0, <3>1, <3>2, SparedImport
  <2>3. CASE Step(w) \/ LockBusy(w) \/ Crash(w)
    BY <2>0, <2>3, OwnImport
  <2>4. ASSUME NEW v \in Workers, NEW s \in Searches, Claim(v, s)
        PROVE  ImportAt(w)'
    <3>1. CASE v = w
      BY <2>4, <3>1, ClaimImport
    <3>2. CASE v # w
      <4>1. receipt' = receipt
        BY <2>4 DEF Claim
      <4>2. Spares(w)
        BY <2>4, <3>2, ClaimSpares
      <4> QED
        BY <1>0, <2>0, <4>1, <4>2, SparedImport
    <3> QED
      BY <3>1, <3>2
  <2>5. CASE \/ \E s \in Searches : Search(s) \/ Revoke(s)
             \/ \E e \in Employees : ReplaceKey(e) \/ Disconnect(e) \/ Deny(e) \/ Grant(e)
             \/ LoseLane \/ UNCHANGED vars
    <3>1. \A s \in Searches : ~(receipt[s].state # "completed" /\ receipt'[s].state = "completed")
      <4>1. ASSUME NEW r \in Searches, Search(r)
            PROVE  \A s \in Searches : receipt'[s] = receipt[s] \/ receipt'[s].state # "completed"
        BY <1>0, <4>1, Rows, IsAskedFor
      <4>2. ASSUME NEW r \in Searches, Revoke(r)
            PROVE  \A s \in Searches : receipt'[s] = receipt[s] \/ receipt'[s].state # "completed"
        BY <1>0, <4>2, RevokeDoes DEF OnlyReceipt, Turns
      <4> QED
        BY <2>5, <4>1, <4>2 DEF ReplaceKey, Disconnect, Deny, Grant, LoseLane, vars, rows
    <3>2. Spares(w)
      BY <2>5, CommandSpares
    <3> QED
      BY <1>0, <2>0, <3>1, <3>2, SparedImport
  <2> QED
    BY <2>1, <2>2, <2>3, <2>4, <2>5 DEF Next, ClaimSome
<1>2. ASSUME NEW s \in NativeSearches, job'[s].status = "completed"
      PROVE  s \in imported'
  <2>1. s \in Searches
    OBVIOUS
  <2>2. CASE job[s].status = "completed"
    BY <1>0, <2>2 DEF ImportInv, CompletedJobsAreImported
  <2>3. CASE job[s].status # "completed"
    <3>1. PICK v \in Workers : Persist(v)
      BY <1>0, <1>2, <2>1, <2>3, CompletedJobBy
    <3>2. worker[v].search = s /\ Holds(v) /\ worker[v].pc = "persist"
          /\ worker[v].result = "completed"
      <4>0. PICK r \in Searches : r = worker[v].search
        BY <1>0, Rows
      <4>1. /\ OnlyJob(r) /\ worker[v].pc = "persist"
            /\ \/ Holds(v) /\ job'[r].status = JobEnd(worker[v].result)
               \/ job' = job
        BY <1>0, <3>1, <4>0, PersistDoes DEF Holds
      <4> QED
        BY <1>2, <2>1, <2>3, <4>0, <4>1 DEF OnlyJob, JobEnd
    <3> QED
      BY <1>0, <3>2 DEF ImportInv, ImportAt
  <2> QED
    BY <2>2, <2>3
<1> QED
  BY <1>1, <1>2 DEF ImportInv, CompletedJobsAreImported

\* The job of a native search is not completed before its candidates are in the
\* CRM, whenever the worker that completed the search died.
THEOREM CompletedJobsImport == Spec => []CompletedJobsAreImported
<1>1. Init => ImportInv
  BY DEF Init, IdleWorker, NoJob, ImportInv, ImportAt, CompletedJobsAreImported
<1>2. CallInv /\ ImportInv /\ [Next]_vars => ImportInv'
  BY ImportStep DEF CallInv
<1>3. ImportInv => CompletedJobsAreImported
  BY DEF ImportInv
<1> QED
  BY <1>1, <1>2, <1>3, CallsHold, PTL DEF Spec
-------------------------------------------------------------------------------
(* How a receipt may change *)

Moved(u) == worker'[u].pc # worker[u].pc

Keeps(s) ==
    /\ receipt'[s].state = receipt[s].state /\ receipt'[s].token = receipt[s].token
    /\ receipt'[s].authorized = receipt[s].authorized
    /\ receipt'[s].ambiguous = receipt[s].ambiguous
IsRevoked(s) ==
    /\ receipt'[s].state = "revoked"
    /\ receipt'[s].ambiguous = (receipt[s].authorized \/ receipt[s].ambiguous)
IsAsked(s) ==
    /\ receipt[s].state = "none" /\ receipt'[s].state = "retry_scheduled"
    /\ receipt'[s].ambiguous = FALSE
IsRefused(s) == Owner[s] \notin entitled /\ receipt'[s].state = "revoked"
IsGivenUp(s) ==
    /\ receipt[s].state = "retry_scheduled" /\ receipt'[s].state = "dead_letter"
    /\ receipt'[s].ambiguous = receipt[s].ambiguous
IsBegun(s, u) ==
    /\ worker[u].pc = "begin"
    /\ receipt[s].state = "retry_scheduled" /\ receipt'[s].state = "processing"
    /\ receipt'[s].token = worker[u].token
    /\ receipt'[s].authorized = receipt[s].authorized
    /\ receipt'[s].ambiguous = receipt[s].ambiguous
IsFenced(s, u) ==
    /\ worker[u].pc = "fence" /\ Begun(u) /\ Holds(u)
    /\ receipt'[s].ambiguous = receipt[s].ambiguous
    /\ \/ /\ receipt'[s].state = receipt[s].state /\ receipt'[s].token = receipt[s].token
          /\ receipt'[s].authorized = TRUE
       \/ receipt'[s].state = "revoked"
IsSettled(s, u) ==
    /\ worker[u].pc = "settle" /\ Begun(u)
    /\ receipt'[s].state = receipt[s].state /\ receipt'[s].token = receipt[s].token
    /\ receipt'[s].ambiguous = (receipt[s].ambiguous \/ worker[u].answer = "transport")
IsRecovered(s, u) ==
    /\ worker[u].pc = "recover" /\ AtAttempt(s, worker[u].was)
    /\ receipt'[s].state = "retry_scheduled" /\ receipt'[s].ambiguous = worker[u].doubt
IsReturned(s, u) ==
    /\ worker[u].pc = "relinquish" /\ Begun(u) /\ Holds(u)
    /\ receipt'[s].state = "retry_scheduled" /\ receipt'[s].ambiguous = receipt[s].ambiguous
IsCompleted(s, u) ==
    /\ worker[u].pc = "complete" /\ Begun(u)
    /\ receipt'[s].state = "completed" /\ receipt'[s].ambiguous = worker[u].doubt
IsFailed(s, u) ==
    /\ worker[u].pc = "fail" /\ Begun(u)
    /\ receipt'[s].state \in {"revoked", "dead_letter", "retry_scheduled"}
    /\ worker[u].answer = "no_key" => receipt'[s].state = "revoked"
    /\ receipt[s].ambiguous /\ s \notin misread' => receipt'[s].ambiguous

ChangedBy(s, u) ==
    /\ worker[u].search = s /\ Moved(u)
    /\ \/ IsBegun(s, u) \/ IsFenced(s, u) \/ IsSettled(s, u) \/ IsRecovered(s, u)
       \/ IsReturned(s, u) \/ IsCompleted(s, u) \/ IsFailed(s, u)
Changes(s) ==
    \/ Keeps(s) \/ IsRevoked(s) \/ IsAsked(s) \/ IsRefused(s) \/ IsGivenUp(s)
    \/ \E u \in Workers : ChangedBy(s, u)

LEMMA WorkerChanges ==
    ASSUME TypeInv, NEW u \in Workers, Step(u) \/ LockBusy(u) \/ Crash(u), NEW s \in Searches
    PROVE  Changes(s)
<1>0. PICK r \in Searches : r = worker[u].search
  BY Rows
<1>1. CASE receipt'[s] = receipt[s]
  BY <1>1 DEF Changes, Keeps
<1>2. CASE s # r
  <2>1. OnlyReceipt(r) \/ receipt' = receipt
    BY <1>0, RecoverDoes, CheckActorDoes, BeginDoes, RelinquishDoes, FenceDoes, CompleteDoes,
       SettleDoes, FailDoes DEF Step, Repair, Configure, Lock, StartCall, Respond, Import, Mark,
       Persist, LockBusy, Crash
  <2> QED
    BY <1>1, <1>2, <2>1 DEF OnlyReceipt
<1>3. CASE s = r /\ receipt' # receipt
  <2>1. CASE Recover(u)
    <3>1. IsRecovered(s, u) /\ Moved(u)
      BY <1>0, <1>3, <2>1, RecoverDoes DEF IsRecovered, Moved, Turns
    <3> QED
      BY <1>0, <1>3, <3>1 DEF Changes, ChangedBy
  <2>2. CASE CheckActor(u)
    <3>1. IsRefused(s)
      BY <1>0, <1>3, <2>2, CheckActorDoes DEF IsRefused, Turns
    <3> QED
      BY <3>1 DEF Changes
  <2>3. CASE Begin(u)
    <3>1. IsGivenUp(s) \/ (IsBegun(s, u) /\ Moved(u))
      BY <1>0, <1>3, <2>3, BeginDoes DEF IsGivenUp, IsBegun, Moved, Turns, GoesOn
    <3> QED
      BY <1>0, <1>3, <3>1 DEF Changes, ChangedBy
  <2>4. CASE Relinquish(u)
    <3>1. IsReturned(s, u) /\ Moved(u)
      BY <1>0, <1>3, <2>4, RelinquishDoes DEF IsReturned, Moved, Idles, Begun, Holds
    <3> QED
      BY <1>0, <1>3, <3>1 DEF Changes, ChangedBy
  <2>5. CASE Fence(u)
    <3>1. IsFenced(s, u)
      BY <1>0, <1>3, <2>5, FenceDoes DEF IsFenced, Turns, Begun, Holds
    <3>2. Moved(u)
      BY <2>5, FenceDoes DEF Moved, GoesOn, Idles, Persists
    <3> QED
      BY <1>0, <1>3, <3>1, <3>2 DEF Changes, ChangedBy
  <2>6. CASE Complete(u)
    <3>1. IsCompleted(s, u)
      BY <1>0, <1>3, <2>6, CompleteDoes DEF IsCompleted, Turns, Begun
    <3>2. Moved(u)
      BY <2>6, CompleteDoes DEF Moved, GoesOn, Idles, Persists
    <3> QED
      BY <1>0, <1>3, <3>1, <3>2 DEF Changes, ChangedBy
  <2>7. CASE Settle(u)
    <3>1. IsSettled(s, u)
      BY <1>0, <1>3, <2>7, SettleDoes DEF IsSettled, Begun
    <3>2. Moved(u)
      BY <2>7, SettleDoes DEF Moved, GoesOn, Idles
    <3> QED
      BY <1>0, <1>3, <3>1, <3>2 DEF Changes, ChangedBy
  <2>8. CASE Fail(u)
    <3>1. IsFailed(s, u)
      <4> DEFINE state == FailureState(u)
      <4>1. /\ state \in {"revoked", "dead_letter", "retry_scheduled"}
            /\ worker[u].answer = "no_key" => state = "revoked"
        BY DEF FailureState
      <4>2. /\ worker[u].pc = "fail" /\ Begun(u) /\ receipt'[s].state = state
            /\ receipt[s].ambiguous /\ s \notin misread' => receipt'[s].ambiguous
        BY <1>0, <1>3, <2>8, FailDoes DEF Turns, Begun
      <4> HIDE DEF state
      <4> QED
        BY <4>1, <4>2 DEF IsFailed
    <3>2. Moved(u)
      BY <2>8, FailDoes DEF Moved, Idles, Persists
    <3> QED
      BY <1>0, <1>3, <3>1, <3>2 DEF Changes, ChangedBy
  <2> QED
    BY <1>3, <2>1, <2>2, <2>3, <2>4, <2>5, <2>6, <2>7, <2>8
       DEF Step, Repair, Configure, Lock, StartCall,
       Respond, Import, Mark, Persist, LockBusy, Crash
<1> QED
  BY <1>1, <1>2, <1>3

\* Every change of a receipt is one of these.
LEMMA StepChanges ==
    ASSUME TypeInv, [Next]_vars
    PROVE  \A s \in Searches : Changes(s)
<1> SUFFICES ASSUME NEW s \in Searches PROVE Changes(s)
  OBVIOUS
<1>1. CASE receipt'[s] = receipt[s]
  BY <1>1 DEF Changes, Keeps
<1>2. ASSUME NEW r \in Searches, Search(r)
      PROVE  Changes(s)
  <2>1. receipt[r].state = "none"
    BY <1>2 DEF Search
  <2>2. receipt'[s] = receipt[s] \/ IsAsked(s)
    BY <1>2, <2>1, Rows, IsAskedFor DEF IsAsked
  <2> QED
    BY <1>1, <2>2 DEF Changes
<1>3. ASSUME NEW r \in Searches, Revoke(r)
      PROVE  Changes(s)
  <2>1. receipt'[s] = receipt[s] \/ IsRevoked(s)
    BY <1>3, RevokeDoes DEF IsRevoked, OnlyReceipt, Turns
  <2> QED
    BY <1>1, <2>1 DEF Changes
<1>4. CASE Tick
  BY <1>4, Rows, Ticks DEF Changes, Keeps
<1>5. ASSUME NEW u \in Workers, Step(u) \/ LockBusy(u) \/ Crash(u)
      PROVE  Changes(s)
  BY <1>5, WorkerChanges
<1> QED
  BY <1>1, <1>2, <1>3, <1>4, <1>5 DEF Next, ClaimSome, Claim, ReplaceKey, Disconnect, Deny, Grant,
     LoseLane, vars, rows
-------------------------------------------------------------------------------
(* Who moves, and whose attempt a receipt has *)

Still(w) ==
    /\ worker'[w].pc = worker[w].pc /\ worker'[w].search = worker[w].search
    /\ worker'[w].token = worker[w].token /\ worker'[w].was = worker[w].was
    /\ worker'[w].doubt = worker[w].doubt /\ worker'[w].answer = worker[w].answer
Calm(w) == Still(w) /\ GetsNothing(w) /\ KeepsAttempt(w)
Moves(u) == Step(u) \/ LockBusy(u) \/ Crash(u)

\* Time leaves every worker where it is, every other step all but one.
LEMMA Movers ==
    ASSUME BaseInv, [Next]_vars
    PROVE  \/ \A w \in Workers : Calm(w)
           \/ \E u \in Workers :
                /\ \A w \in Workers : w # u => Calm(w)
                /\ Moves(u) \/ \E s \in Searches : Claim(u, s)
<1>1. \A w \in Workers : worker'[w] = worker[w] /\ Spares(w) => Calm(w)
  BY DEF Calm, Still, Spares
<1>2. CASE Tick
  <2> SUFFICES ASSUME NEW w \in Workers PROVE Calm(w)
    OBVIOUS
  <2>1. PICK s \in Searches : s = worker[w].search
    BY Rows DEF BaseInv
  <2>2. Still(w)
    <3>1. worker'[w].answer = worker[w].answer /\ worker'[w].doubt = worker[w].doubt
      BY <1>2, Rows, Ticks DEF BaseInv
    <3> QED
      BY <1>2, <3>1, Rows, Ticks DEF BaseInv, Still
  <2>3. GetsNothing(w) /\ KeepsAttempt(w)
    BY <1>2, <2>1, Rows, Ticks
       DEF BaseInv, GetsNothing, GetsNoJob, GetsNoAttempt, KeepsAttempt, Holds, HoldsJob,
           Begun, AtAttempt
  <2> QED
    BY <2>2, <2>3 DEF Calm
<1> QED
  BY <1>1, <1>2, OneMoves DEF Moves

\* The order of a worker's steps.
Onward(p, q) ==
    \/ p = "recover" /\ q = "check"
    \/ p = "check" /\ q = "begin"
    \/ p = "begin" /\ q = "configure"
    \/ p = "configure" /\ q \in {"lock", "fail"}
    \/ p = "lock" /\ q \in {"fence", "relinquish"}
    \/ p = "fence" /\ q = "start"
    \/ p = "start" /\ q = "call"
    \/ p = "call" /\ q \in {"complete", "settle"}
    \/ p = "complete" /\ q = "import"
    \/ p = "settle" /\ q \in {"mark", "fail"}
    \/ p = "mark" /\ q = "fail"

Own(u) ==
    \/ Idles(u)
    \/ /\ worker'[u].search = worker[u].search /\ worker'[u].token = worker[u].token
       /\ worker'[u].was \in {worker[u].was, NoToken}
       /\ \/ worker'[u].pc = "persist"
          \/ worker'[u].doubt = worker[u].doubt /\ Onward(worker[u].pc, worker'[u].pc)

LEMMA OwnMove ==
    ASSUME TypeInv, NEW u \in Workers, Moves(u)
    PROVE  Own(u)
<1> USE DEF Own, Onward, GoesOn, Persists
<1>1. CASE Repair(u) \/ Recover(u) \/ CheckActor(u)
  BY <1>1, RepairDoes, RecoverDoes, CheckActorDoes
<1>2. CASE Begin(u) \/ Lock(u) \/ LockBusy(u)
  BY <1>2, BeginDoes, LockDoes, LockBusyDoes
<1>3. CASE Configure(u)
  <2>1. worker[u].pc = "configure"
    BY <1>3 DEF Configure
  <2>2. /\ worker'[u].pc \in {"lock", "fail"}
        /\ worker'[u].search = worker[u].search /\ worker'[u].token = worker[u].token
        /\ worker'[u].was = worker[u].was /\ worker'[u].doubt = worker[u].doubt
    BY <1>3, Rows, Configures
  <2> QED
    BY <2>1, <2>2
<1>4. CASE Relinquish(u) \/ Fence(u) \/ StartCall(u)
  BY <1>4, RelinquishDoes, FenceDoes, StartCallDoes
<1>5. CASE Respond(u) \/ Complete(u) \/ Import(u)
  BY <1>5, RespondDoes, CompleteDoes, ImportDoes
<1>6. CASE Settle(u) \/ Mark(u) \/ Fail(u)
  BY <1>6, SettleDoes, MarkDoes, FailDoes
<1>7. CASE Persist(u) \/ Crash(u)
  BY <1>7, PersistDoes, CrashDoes
<1> QED
  BY <1>1, <1>2, <1>3, <1>4, <1>5, <1>6, <1>7 DEF Moves, Step

\* What the steps towards the call do to the rows.
LEMMA OwnApproach ==
    ASSUME TypeInv, NEW u \in Workers, Moves(u)
    PROVE  LET s == worker[u].search IN
           /\ worker'[u].pc = "check" => receipt'[s].state = "retry_scheduled"
                                         /\ receipt'[s].ambiguous = worker[u].doubt
           /\ worker'[u].pc = "configure" => /\ receipt[s].state = "retry_scheduled"
                                             /\ receipt'[s].ambiguous = receipt[s].ambiguous
                                             /\ job' = job
           /\ worker'[u].pc = "start" => /\ Holds(u) /\ Begun(u) /\ receipt'[s].authorized = TRUE
                                         /\ receipt'[s].ambiguous = receipt[s].ambiguous
           /\ worker'[u].pc \in {"begin", "lock", "fence", "relinquish"}
                => receipt' = receipt /\ job' = job
           /\ worker'[u].pc \in {"call", "complete", "settle"} => receipt' = receipt
           /\ worker'[u].pc = "call" => worker[u].pc = "start" /\ u \in lane
<1> USE DEF GoesOn, Persists, Idles
<1>1. CASE Recover(u)
  <2>1. worker'[u].pc = "check" \/ worker'[u].pc = "persist"
    BY <1>1, RecoverDoes
  <2> QED
    BY <1>1, <2>1, RecoverDoes DEF Turns
<1>2. CASE CheckActor(u)
  BY <1>2, CheckActorDoes DEF CheckActor
<1>3. CASE Begin(u)
  <2>1. job' = job
    BY <1>3 DEF Begin
  <2> QED
    BY <1>3, <2>1, BeginDoes
<1>4. CASE Configure(u)
  <2>1. receipt' = receipt /\ job' = job
    BY <1>4 DEF Configure
  <2>2. worker'[u].pc \in {"lock", "fail"}
    BY <1>4, Rows, Configures
  <2> QED
    BY <2>1, <2>2
<1>5. CASE Lock(u) \/ LockBusy(u)
  BY <1>5, LockDoes, LockBusyDoes DEF Lock, LockBusy
<1>6. CASE Fence(u)
  BY <1>6, FenceDoes DEF Holds, Begun
<1>7. CASE StartCall(u)
  <2>1. receipt' = receipt
    BY <1>7 DEF StartCall
  <2> QED
    BY <1>7, <2>1, StartCallDoes
<1>8. CASE Respond(u)
  <2>1. receipt' = receipt
    BY <1>8 DEF Respond
  <2> QED
    BY <1>8, <2>1, RespondDoes
<1>9. CASE Repair(u) \/ Relinquish(u) \/ Complete(u) \/ Import(u)
  BY <1>9, RepairDoes, RelinquishDoes, CompleteDoes, ImportDoes
<1>10. CASE Settle(u) \/ Mark(u) \/ Fail(u) \/ Persist(u) \/ Crash(u)
  <2>1. CASE Settle(u)
    BY <2>1, SettleDoes
  <2>2. CASE Mark(u)
    BY <2>2, MarkDoes
  <2>3. CASE Fail(u)
    BY <2>3, FailDoes
  <2>4. CASE Persist(u)
    BY <2>4, PersistDoes
  <2>5. CASE Crash(u)
    BY <2>5, CrashDoes
  <2> QED
    BY <1>10, <2>1, <2>2, <2>3, <2>4, <2>5
<1> QED
  BY <1>1, <1>2, <1>3, <1>4, <1>5, <1>6, <1>7, <1>8, <1>9, <1>10 DEF Moves, Step

Trail == PastBegin \cup {"import", "persist"}

\* Whose token the receipt has began its attempt; so did whoever is recovered.
TraceAt(w) == \A s \in Searches :
    worker[w].token # NoToken /\ receipt[s].token = worker[w].token
    => s = worker[w].search /\ worker[w].pc \in Trail
ReplacedAt(w, v) ==
    worker[v].was # NoToken /\ worker[v].was = worker[w].token => worker[w].pc \in Trail
UnaskedAt(s) == receipt[s].state = "none" => receipt[s].ambiguous = FALSE

TraceInv ==
    /\ \A w \in Workers : TraceAt(w)
    /\ \A w, v \in Workers : ReplacedAt(w, v)
    /\ \A s \in Searches : UnaskedAt(s)

LEMMA OnTheTrail ==
    ASSUME NEW u \in Workers, Own(u), worker'[u].token # NoToken, worker[u].pc \in Trail
    PROVE  worker'[u].pc \in Trail
BY DEF Own, Onward, Trail, PastBegin, Idles

\* A receipt gets a token only from a worker that begins.
LEMMA TokenFrom ==
    ASSUME TypeInv, TokenInv, TokenInv', [Next]_vars, NEW s \in Searches,
           receipt'[s].token # NoToken
    PROVE  \/ receipt'[s].token = receipt[s].token
           \/ \E u \in Workers : /\ worker[u].search = s /\ worker[u].pc = "begin" /\ Moved(u)
                                 /\ receipt'[s].token = worker[u].token
<1>1. receipt'[s].state = "processing"
  BY DEF TokenInv
<1>2. Changes(s)
  BY StepChanges
<1>3. ASSUME NEW u \in Workers, ChangedBy(s, u)
      PROVE  \/ receipt'[s].token = receipt[s].token
             \/ /\ worker[u].search = s /\ worker[u].pc = "begin" /\ Moved(u)
                /\ receipt'[s].token = worker[u].token
  BY <1>1, <1>3 DEF ChangedBy, IsBegun, IsFenced, IsSettled, IsRecovered, IsReturned, IsCompleted,
     IsFailed
<1> QED
  BY <1>1, <1>2, <1>3 DEF Changes, Keeps, IsRevoked, IsAsked, IsRefused, IsGivenUp

LEMMA ClaimGives ==
    ASSUME TypeInv, NEW u \in Workers, NEW r \in Searches, Claim(u, r)
    PROVE  /\ receipt' = receipt
           /\ worker'[u].search = r /\ worker'[u].token # NoToken
           /\ job'[r].token = worker'[u].token
           /\ worker'[u].pc \in {"repair", "recover", "check", "persist"}
           /\ worker'[u].pc = "check" => receipt[r].state = "retry_scheduled"
           /\ worker'[u].was # NoToken \/ worker'[u].pc = "recover" =>
                receipt[r].state = "processing" /\ worker'[u].was = receipt[r].token
           /\ worker'[u].doubt = (receipt[r].ambiguous \/ receipt[r].authorized)
           /\ \A s \in Searches : receipt[s].token # worker'[u].token
           /\ \A w \in Workers : worker[w].token # worker'[u].token
                                 /\ worker[w].was # worker'[u].token
<1>1. receipt' = receipt /\ ~(Tokens \subseteq TokensInUse)
  BY DEF Claim
<1>2. /\ worker'[u].token = FreshToken /\ worker'[u].search = r /\ worker'[u].pc = FirstStep(r)
      /\ job'[r].token = FreshToken
      /\ worker'[u].was = IF FirstStep(r) = "recover" THEN receipt[r].token ELSE NoToken
      /\ worker'[u].doubt = (receipt[r].ambiguous \/ receipt[r].authorized)
  BY Rows, Claims
<1>3. /\ FirstStep(r) \in {"repair", "recover", "check", "persist"}
      /\ FirstStep(r) = "check" => receipt[r].state = "retry_scheduled"
      /\ FirstStep(r) = "recover" => receipt[r].state = "processing"
  BY DEF FirstStep
<1>4. /\ FreshToken # NoToken
      /\ \A s \in Searches : receipt[s].token # FreshToken
      /\ \A w \in Workers : worker[w].token # FreshToken /\ worker[w].was # FreshToken
  BY <1>1, Fresh
<1> QED
  BY <1>1, <1>2, <1>3, <1>4

LEMMA TraceAtStep ==
    ASSUME BaseInv, BaseInv', TraceInv, [Next]_vars, NEW w \in Workers
    PROVE  TraceAt(w)'
<1> SUFFICES ASSUME NEW s \in Searches, worker'[w].token # NoToken,
                    receipt'[s].token = worker'[w].token
             PROVE  s = worker'[w].search /\ worker'[w].pc \in Trail
  BY DEF TraceAt
<1>0. TypeInv /\ TokenInv /\ TokenInv' /\ TraceAt(w)
  BY DEF BaseInv, TraceInv
<1>1. CASE Calm(w) \/ Own(w)
  <2>1. worker'[w].search = worker[w].search /\ worker'[w].token = worker[w].token
    BY <1>1 DEF Calm, Still, Own, Idles
  <2>2. CASE receipt[s].token = worker[w].token
    <3>1. s = worker[w].search /\ worker[w].pc \in Trail
      BY <1>0, <2>1, <2>2 DEF TraceAt
    <3> QED
      BY <1>1, <2>1, <3>1, OnTheTrail DEF Calm, Still
  <2>3. CASE receipt[s].token # worker[w].token
    <3>1. PICK u \in Workers : /\ worker[u].search = s /\ worker[u].pc = "begin" /\ Moved(u)
                               /\ receipt'[s].token = worker[u].token
      BY <1>0, <2>1, <2>3, TokenFrom
    <3>2. u = w
      BY <1>0, <2>1, <3>1 DEF TokenInv
    <3> QED
      BY <1>1, <2>1, <3>1, <3>2 DEF Calm, Still, Own, Onward, Idles, Moved, Trail, PastBegin
  <2> QED
    BY <2>2, <2>3
<1>2. ASSUME NEW r \in Searches, Claim(w, r)
      PROVE  FALSE
  BY <1>0, <1>2, ClaimGives
<1> QED
  BY <1>0, <1>1, <1>2, Movers, OwnMove

LEMMA ReplacedAtStep ==
    ASSUME BaseInv, BaseInv', TraceInv, [Next]_vars, NEW w \in Workers, NEW v \in Workers
    PROVE  ReplacedAt(w, v)'
<1> SUFFICES ASSUME worker'[v].was # NoToken, worker'[v].was = worker'[w].token
             PROVE  worker'[w].pc \in Trail
  BY DEF ReplacedAt
<1>0. TypeInv /\ TraceAt(w) /\ ReplacedAt(w, v)
  BY DEF BaseInv, TraceInv
<1>1. ASSUME Calm(w) \/ Own(w), Calm(v) \/ Own(v)
      PROVE  worker'[w].pc \in Trail
  <2>1. worker'[v].was = worker[v].was /\ worker'[w].token = worker[w].token
    BY <1>1 DEF Calm, Still, Own, Idles
  <2>2. worker[w].pc \in Trail
    BY <1>0, <2>1 DEF ReplacedAt
  <2> QED
    BY <1>1, <2>2, OnTheTrail DEF Calm, Still
<1>2. ASSUME NEW r \in Searches, Claim(w, r), v = w \/ Calm(v)
      PROVE  FALSE
  BY <1>0, <1>2, ClaimGives DEF Calm, Still
<1>3. ASSUME NEW r \in Searches, Claim(v, r), Calm(w)
      PROVE  worker'[w].pc \in Trail
  <2>1. receipt[r].token = worker[w].token /\ worker[w].token # NoToken
    BY <1>0, <1>3, ClaimGives DEF Calm, Still
  <2> QED
    BY <1>0, <1>3, <2>1 DEF TraceAt, Calm, Still
<1> QED
  BY <1>0, <1>1, <1>2, <1>3, Movers, OwnMove

LEMMA UnaskedAtStep ==
    ASSUME BaseInv, TraceInv, [Next]_vars, NEW s \in Searches
    PROVE  UnaskedAt(s)'
<1>0. TypeInv /\ UnaskedAt(s)
  BY DEF BaseInv, TraceInv
<1>1. Changes(s)
  BY <1>0, StepChanges
<1>2. ASSUME NEW u \in Workers, ChangedBy(s, u)
      PROVE  receipt'[s].state # "none"
  BY <1>2 DEF ChangedBy, IsBegun, IsFenced, IsSettled, IsRecovered, IsReturned, IsCompleted,
     IsFailed, Begun, AtAttempt
<1> QED
  BY <1>0, <1>1, <1>2 DEF UnaskedAt, Changes, Keeps, IsRevoked, IsAsked, IsRefused, IsGivenUp

\* A token in a receipt, or in a recovery, leads to the worker that began with it.
LEMMA TraceHolds == Spec => []TraceInv
<1>1. Init => TraceInv
  BY DEF Init, NoReceipt, IdleWorker, TraceInv, TraceAt, ReplacedAt, UnaskedAt
<1>2. BaseInv /\ BaseInv' /\ TraceInv /\ [Next]_vars => TraceInv'
  BY TraceAtStep, ReplacedAtStep, UnaskedAtStep DEF TraceInv
<1> QED
  BY <1>1, <1>2, BaseHolds, PTL DEF Spec
-------------------------------------------------------------------------------
(* What a worker knows of earlier calls *)

Calling == {"start", "call", "complete", "settle"}
Doubtful(s) == receipt[s].authorized = TRUE \/ receipt[s].ambiguous = TRUE

\* An attempt under which a call may be made is authorised.
AuthorizedAt(w) == worker[w].pc \in Calling /\ Begun(w) => receipt[worker[w].search].authorized = TRUE

\* A recovery in doubt of the attempt of a worker that may call.
DoubtsCaller(v, w) ==
    /\ worker[v].pc = "recover" /\ worker[v].search = worker[w].search
    /\ worker[v].was = worker[w].token /\ worker[w].pc \in Calling
    => worker[v].doubt = TRUE
\* A recovery that still finds its attempt has read what the receipt says now.
RecoveryKnows(v) ==
    /\ worker[v].pc = "recover" /\ AtAttempt(worker[v].search, worker[v].was)
    /\ Doubtful(worker[v].search)
    => worker[v].doubt = TRUE
\* Nobody recovers the search from under a worker that is about to begin.
RecoveredAt(w, v) ==
    /\ worker[v].pc = "recover" /\ worker[v].search = worker[w].search
    /\ Holds(w) /\ worker[w].pc \in {"check", "begin"}
    => ~AtAttempt(worker[v].search, worker[v].was)

\* Who has the job, the attempt or both has read what the receipt says now.
BeginnerKnows(w) ==
    /\ Holds(w) /\ worker[w].pc \in {"check", "begin"}
    /\ receipt[worker[w].search].state \in {"retry_scheduled", "processing"}
    /\ receipt[worker[w].search].ambiguous = TRUE
    => worker[w].doubt = TRUE
HolderKnows(w) ==
    /\ Holds(w) /\ Begun(w) /\ worker[w].pc \in {"configure", "lock", "relinquish", "fence"}
    /\ receipt[worker[w].search].ambiguous = TRUE
    => worker[w].doubt = TRUE
CallerKnows(w) ==
    /\ Begun(w) /\ worker[w].pc \in {"start", "call", "complete"}
    /\ receipt[worker[w].search].ambiguous = TRUE
    => worker[w].doubt = TRUE

DoubtInv ==
    /\ \A w \in Workers : AuthorizedAt(w) /\ RecoveryKnows(w)
    /\ \A w, v \in Workers : DoubtsCaller(v, w) /\ RecoveredAt(w, v)
    /\ \A w \in Workers : BeginnerKnows(w) /\ HolderKnows(w) /\ CallerKnows(w)

\* A change of a receipt that stays at its attempt, or is at a new one.
LEMMA AtAttemptChanges ==
    ASSUME NEW s \in Searches, Changes(s), receipt'[s].state = "processing"
    PROVE  \/ Keeps(s)
           \/ \E u \in Workers : /\ worker[u].search = s /\ Moved(u)
                                 /\ IsBegun(s, u) \/ IsFenced(s, u) \/ IsSettled(s, u)
<1>1. ASSUME NEW u \in Workers, ChangedBy(s, u)
      PROVE  IsBegun(s, u) \/ IsFenced(s, u) \/ IsSettled(s, u)
  BY <1>1 DEF ChangedBy, IsRecovered, IsReturned, IsCompleted, IsFailed
<1> QED
  BY <1>1 DEF Changes, ChangedBy, IsRevoked, IsAsked, IsRefused, IsGivenUp

LEMMA Calmed ==
    ASSUME BaseInv, NEW w \in Workers, Calm(w), worker'[w].pc # "idle"
    PROVE  /\ Holds(w)' => Holds(w)
           /\ Begun(w)' => Begun(w)
           /\ ~Moved(w)
<1>1. worker[w].token # NoToken /\ Still(w)
  BY DEF BaseInv, TokenInv, Calm, Still
<1> QED
  BY <1>1
     DEF Calm, Still, GetsNothing, GetsNoJob, GetsNoAttempt, Moved, Holds, HoldsJob, Begun,
         AtAttempt

\* Two workers have not begun one attempt, nor got one job.
LEMMA SameBeginner ==
    ASSUME BaseInv, NEW w \in Workers, NEW u \in Workers, Begun(w), Begun(u),
           worker[u].search = worker[w].search
    PROVE  u = w
BY OneBeginner DEF Begun

LEMMA SameHolder ==
    ASSUME BaseInv, NEW w \in Workers, NEW u \in Workers, Holds(w), Holds(u)
    PROVE  u = w
BY OneHolder

LEMMA AuthorizedAtStep ==
    ASSUME BaseInv, BaseInv', DoubtInv, [Next]_vars, NEW w \in Workers
    PROVE  AuthorizedAt(w)'
<1>0. PICK s \in Searches : s = worker[w].search
  BY Rows DEF BaseInv
<1>1. TypeInv /\ AuthorizedAt(w) /\ Changes(s)
  BY StepChanges DEF BaseInv, DoubtInv
<1> SUFFICES ASSUME worker'[w].pc \in Calling, Begun(w)'
             PROVE  receipt'[worker'[w].search].authorized = TRUE
  BY DEF AuthorizedAt
<1>2. CASE Calm(w)
  <2>1. worker[w].pc \in Calling /\ worker'[w].search = s /\ Begun(w) /\ ~Moved(w)
    BY <1>0, <1>2, Calmed DEF Calm, Still, Calling
  <2>2. receipt[s].authorized = TRUE /\ receipt[s].state = "processing"
    BY <1>0, <1>1, <2>1 DEF AuthorizedAt, Begun, AtAttempt
  <2>3. receipt'[s].state = "processing"
    BY <2>1 DEF Begun, AtAttempt
  <2>4. ASSUME NEW u \in Workers, worker[u].search = s, Moved(u),
               IsBegun(s, u) \/ IsFenced(s, u) \/ IsSettled(s, u)
        PROVE  receipt'[s].authorized = TRUE
    <3>1. CASE IsBegun(s, u)
      BY <2>2, <3>1 DEF IsBegun
    <3>2. CASE IsFenced(s, u)
      BY <2>3, <3>2 DEF IsFenced
    <3>3. CASE IsSettled(s, u)
      BY <1>0, <2>1, <2>4, <3>3, SameBeginner DEF IsSettled
    <3> QED
      BY <2>4, <3>1, <3>2, <3>3
  <2> QED
    BY <1>1, <2>1, <2>2, <2>3, <2>4, AtAttemptChanges DEF Keeps
<1>3. CASE Moves(w)
  <2>1. Own(w)
    BY <1>1, <1>3, OwnMove
  <2>2. /\ worker'[w].search = s /\ worker'[w].token = worker[w].token
        /\ worker'[w].pc = "start" \/ (worker[w].pc \in Calling /\ worker'[w].pc \in Calling \ {"start"})
    BY <1>0, <2>1 DEF Own, Onward, Idles, Calling
  <2>3. CASE worker'[w].pc = "start"
    BY <1>0, <1>1, <1>3, <2>2, <2>3, OwnApproach
  <2>4. CASE worker'[w].pc # "start"
    <3>1. receipt' = receipt
      BY <1>1, <1>3, <2>2, <2>4, OwnApproach DEF Calling
    <3>2. Begun(w)
      BY <1>0, <2>2, <3>1 DEF Begun, AtAttempt
    <3> QED
      BY <1>0, <1>1, <2>2, <2>4, <3>1, <3>2 DEF AuthorizedAt
  <2> QED
    BY <2>3, <2>4
<1>4. ASSUME NEW r \in Searches, Claim(w, r)
      PROVE  FALSE
  BY <1>1, <1>4, ClaimGives DEF Calling
<1> QED
  BY <1>2, <1>3, <1>4, Movers

LEMMA DoubtsCallerStep ==
    ASSUME BaseInv, BaseInv', TraceInv, DoubtInv, [Next]_vars, NEW w \in Workers, NEW v \in Workers
    PROVE  DoubtsCaller(v, w)'
<1>0. PICK s \in Searches : s = worker[w].search
  BY Rows DEF BaseInv
<1>1. TypeInv /\ TokenInv /\ TraceAt(w) /\ AuthorizedAt(w) /\ DoubtsCaller(v, w)
  BY DEF BaseInv, TraceInv, DoubtInv
<1> SUFFICES ASSUME worker'[v].pc = "recover", worker'[v].search = worker'[w].search,
                    worker'[v].was = worker'[w].token, worker'[w].pc \in Calling
             PROVE  worker'[v].doubt = TRUE
  BY DEF DoubtsCaller
<1>2. v # w /\ worker'[w].token # NoToken
  BY DEF Calling, BaseInv, TokenInv
<1>3. ~\E r \in Searches : Claim(w, r)
  BY <1>1, ClaimGives DEF Calling
<1>4. ~Own(v)
  BY DEF Own, Onward, Idles
<1>5. ASSUME NEW r \in Searches, Claim(v, r), Calm(w)
      PROVE  worker'[v].doubt = TRUE
  <2>1. /\ worker[w].token = receipt[r].token /\ worker[w].token # NoToken
        /\ worker[w].pc \in Calling /\ receipt[r].state = "processing"
        /\ worker'[v].doubt = (receipt[r].ambiguous \/ receipt[r].authorized)
    BY <1>1, <1>2, <1>5, ClaimGives DEF Calm, Still
  <2>2. r = s /\ Begun(w)
    BY <1>0, <1>1, <2>1 DEF TraceAt, Begun, AtAttempt
  <2> QED
    BY <1>0, <1>1, <2>1, <2>2 DEF AuthorizedAt
<1>6. CASE Calm(v) /\ Calm(w)
  BY <1>1, <1>6 DEF Calm, Still, DoubtsCaller
<1>7. CASE Calm(v) /\ Moves(w)
  <2>1. Own(w)
    BY <1>1, <1>7, OwnMove
  <2>2. /\ worker'[w].search = s /\ worker'[w].token = worker[w].token
        /\ worker'[w].pc = "start" \/ worker[w].pc \in Calling
    BY <1>0, <2>1 DEF Own, Onward, Idles, Calling
  <2>3. CASE worker'[w].pc = "start"
    <3>1. job[s].token = worker[w].token
      BY <1>0, <1>1, <1>7, <2>3, OwnApproach DEF Holds, HoldsJob
    <3>2. worker[v].was = worker[w].token /\ worker[v].was # NoToken
      BY <1>2, <1>7, <2>2 DEF Calm, Still
    <3> QED
      BY <1>1, <3>1, <3>2 DEF TokenInv
  <2>4. CASE worker[w].pc \in Calling
    BY <1>0, <1>1, <1>7, <2>2, <2>4 DEF Calm, Still, DoubtsCaller
  <2> QED
    BY <2>2, <2>3, <2>4
<1> QED
  BY <1>1, <1>2, <1>3, <1>4, <1>5, <1>6, <1>7, Movers, OwnMove

\* The attempt a recovery replaces is not begun again, nor fenced by who lost its job.
LEMMA NotBegunAgain ==
    ASSUME BaseInv, TraceInv, NEW v \in Workers, NEW u \in Workers,
           worker[v].search = worker[u].search, worker[v].was = worker[u].token,
           worker[u].token # NoToken
    PROVE  worker[u].pc # "begin" /\ ~Holds(u)
<1>0. PICK s \in Searches : s = worker[u].search
  BY Rows DEF BaseInv
<1>1. worker[u].pc # "begin"
  BY DEF TraceInv, ReplacedAt, Trail, PastBegin
<1>2. job[s].token # worker[u].token
  BY DEF BaseInv, TokenInv
<1> QED
  BY <1>0, <1>1, <1>2 DEF Holds, HoldsJob

LEMMA RecoveryKnowsStep ==
    ASSUME BaseInv, BaseInv', TraceInv, DoubtInv, [Next]_vars, NEW v \in Workers
    PROVE  RecoveryKnows(v)'
<1>0. PICK s \in Searches : s = worker[v].search
  BY Rows DEF BaseInv
<1>1. TypeInv /\ TokenInv' /\ RecoveryKnows(v) /\ Changes(s)
  BY StepChanges DEF BaseInv, DoubtInv
<1> SUFFICES ASSUME worker'[v].pc = "recover",
                    AtAttempt(worker[v].search, worker[v].was)',
                    Doubtful(worker[v].search)'
             PROVE  worker'[v].doubt = TRUE
  BY DEF RecoveryKnows
<1>2. ASSUME NEW r \in Searches, Claim(v, r)
      PROVE  worker'[v].doubt = TRUE
  BY <1>1, <1>2, ClaimGives DEF Doubtful
<1>3. CASE Calm(v)
  <2>1. /\ worker[v].pc = "recover" /\ worker'[v].search = s /\ worker'[v].was = worker[v].was
        /\ worker'[v].doubt = worker[v].doubt
    BY <1>0, <1>3 DEF Calm, Still
  <2>2. receipt'[s].state = "processing" /\ receipt'[s].token = worker[v].was
        /\ worker[v].was # NoToken
    BY <1>1, <2>1 DEF AtAttempt, TokenInv
  <2>3. CASE Keeps(s)
    BY <1>0, <1>1, <2>1, <2>2, <2>3 DEF Keeps, RecoveryKnows, AtAttempt, Doubtful
  <2>4. ASSUME NEW u \in Workers, worker[u].search = s,
               IsBegun(s, u) \/ IsFenced(s, u) \/ IsSettled(s, u)
        PROVE  worker[v].doubt = TRUE
    <3>1. worker[u].token = worker[v].was
      BY <1>0, <2>2, <2>4 DEF IsBegun, IsFenced, IsSettled, Begun, AtAttempt
    <3>2. worker[u].pc # "begin" /\ ~Holds(u)
      BY <1>0, <2>2, <2>4, <3>1, NotBegunAgain
    <3>3. worker[u].pc = "settle"
      BY <2>4, <3>2 DEF IsBegun, IsFenced, IsSettled
    <3> QED
      BY <1>0, <2>1, <2>4, <3>1, <3>3 DEF DoubtInv, DoubtsCaller, Calling
  <2> QED
    BY <1>1, <2>1, <2>2, <2>3, <2>4, AtAttemptChanges
<1>4. ~Own(v)
  BY DEF Own, Onward, Idles
<1> QED
  BY <1>1, <1>2, <1>3, <1>4, Movers, OwnMove

LEMMA RecoveredAtStep ==
    ASSUME BaseInv, BaseInv', TraceInv, DoubtInv, [Next]_vars, NEW w \in Workers, NEW v \in Workers
    PROVE  RecoveredAt(w, v)'
<1>0. PICK s \in Searches : s = worker[w].search
  BY Rows DEF BaseInv
<1>1. TypeInv /\ TokenInv /\ TokenInv' /\ RecoveredAt(w, v)
  BY DEF BaseInv, DoubtInv
<1> SUFFICES ASSUME worker'[v].pc = "recover", worker'[v].search = worker'[w].search,
                    Holds(w)', worker'[w].pc \in {"check", "begin"},
                    AtAttempt(worker[v].search, worker[v].was)'
             PROVE  FALSE
  BY DEF RecoveredAt
<1>2. ~Own(v) /\ v # w
  BY DEF Own, Onward, Idles
<1>3. ASSUME NEW r \in Searches, Claim(w, r)
      PROVE  FALSE
  BY <1>1, <1>3, ClaimGives DEF AtAttempt
<1>4. ASSUME NEW r \in Searches, Claim(v, r), Calm(w)
      PROVE  FALSE
  <2>1. worker'[w].token = worker[w].token /\ worker[w].token # worker'[v].token
    BY <1>1, <1>4, ClaimGives DEF Calm, Still
  <2>2. job'[r].token = worker'[v].token /\ worker'[w].search = r
    BY <1>1, <1>4, ClaimGives
  <2> QED
    BY <2>1, <2>2 DEF Holds, HoldsJob
<1>5. ASSUME Calm(v), worker'[w].search = s, AtAttempt(s, worker[v].was)
      PROVE  Holds(w) /\ worker[w].pc \in {"check", "begin"} => FALSE
  BY <1>0, <1>1, <1>5 DEF RecoveredAt, Calm, Still
<1>6. ASSUME Calm(v), worker'[w].search = s
      PROVE  AtAttempt(s, worker[v].was)
  <2>1. receipt'[s].token = worker[v].was /\ worker[v].was # NoToken
    <3>1. worker'[v].search = s /\ worker'[v].was = worker[v].was
      BY <1>6 DEF Calm, Still
    <3>2. receipt'[s].state = "processing" /\ receipt'[s].token = worker'[v].was
      BY <3>1 DEF AtAttempt
    <3>3. receipt'[s].token # NoToken
      BY <1>0, <1>1, <3>2 DEF TokenInv
    <3> QED
      BY <3>1, <3>2, <3>3
  <2>2. ASSUME NEW u \in Workers, worker[u].search = s, worker[u].pc = "begin",
               worker[u].token = worker[v].was
        PROVE  FALSE
    BY <1>0, <1>6, <2>1, <2>2, NotBegunAgain DEF Calm, Still
  <2>3. receipt[s].token = worker[v].was
    BY <1>1, <2>1, <2>2, TokenFrom
  <2> QED
    BY <1>1, <2>1, <2>3 DEF AtAttempt, TokenInv
<1>7. CASE Calm(v) /\ Calm(w)
  <2>1. Holds(w) /\ worker[w].pc \in {"check", "begin"} /\ worker'[w].search = s
    BY <1>0, <1>7, Calmed DEF Calm, Still
  <2> QED
    BY <1>5, <1>6, <1>7, <2>1
<1>8. CASE Calm(v) /\ Moves(w)
  <2>1. Own(w)
    BY <1>1, <1>8, OwnMove
  <2>2. /\ worker'[w].search = s /\ worker'[w].token = worker[w].token
        /\ worker'[w].pc = "check" \/ (worker'[w].pc = "begin" /\ worker[w].pc = "check")
    BY <1>0, <2>1 DEF Own, Onward, Idles
  <2>3. CASE worker'[w].pc = "check"
    <3>1. receipt'[s].state = "retry_scheduled"
      BY <1>0, <1>1, <1>8, <2>3, OwnApproach
    <3> QED
      BY <2>2, <3>1 DEF AtAttempt
  <2>4. CASE worker'[w].pc = "begin"
    <3>1. job' = job
      BY <1>1, <1>8, <2>4, OwnApproach
    <3>2. Holds(w)
      BY <1>0, <2>2, <3>1 DEF Holds, HoldsJob
    <3> QED
      BY <1>5, <1>6, <1>8, <2>2, <2>4, <3>2
  <2> QED
    BY <2>2, <2>3, <2>4
<1> QED
  BY <1>1, <1>2, <1>3, <1>4, <1>7, <1>8, Movers, OwnMove

LEMMA BeginnerKnowsStep ==
    ASSUME CallInv, BaseInv', DoubtInv, [Next]_vars, NEW w \in Workers
    PROVE  BeginnerKnows(w)'
<1>0. PICK s \in Searches : s = worker[w].search
  BY Rows DEF CallInv, BaseInv
<1>1. BaseInv /\ TypeInv /\ BeginnerKnows(w) /\ Changes(s)
  BY StepChanges DEF CallInv, BaseInv, DoubtInv
<1> SUFFICES ASSUME Holds(w)', worker'[w].pc \in {"check", "begin"},
                    receipt'[worker'[w].search].state \in {"retry_scheduled", "processing"},
                    receipt'[worker'[w].search].ambiguous = TRUE
             PROVE  worker'[w].doubt = TRUE
  BY DEF BeginnerKnows
<1>2. CASE Calm(w)
  <2>1. /\ worker[w].pc \in {"check", "begin"} /\ worker'[w].search = s /\ Holds(w) /\ ~Moved(w)
        /\ worker'[w].doubt = worker[w].doubt
    BY <1>0, <1>1, <1>2, Calmed DEF Calm, Still
  <2>2. /\ receipt'[s].state \in {"retry_scheduled", "processing"}
        /\ receipt'[s].ambiguous = TRUE
    BY <2>1
  <2>3. ASSUME NEW u \in Workers, ChangedBy(s, u)
        PROVE  worker[w].doubt = TRUE
    <3>1. worker[u].search = s /\ u # w
      BY <2>1, <2>3 DEF ChangedBy
    <3>2. ~Holds(u) /\ ~(Begun(u) /\ PastFence(u))
      BY <1>0, <1>1, <2>1, <3>1, SameHolder DEF CallInv, FenceInv, FenceAt
    <3>3. ~IsFenced(s, u) /\ ~IsReturned(s, u) /\ ~IsCompleted(s, u)
      BY <2>2, <3>2 DEF IsFenced, IsReturned, IsCompleted
    <3>4. ~IsSettled(s, u) /\ ~IsFailed(s, u)
      BY <2>2, <3>2 DEF IsSettled, IsFailed, PastFence
    <3>5. ~IsRecovered(s, u)
      BY <1>0, <2>1, <3>1 DEF IsRecovered, DoubtInv, RecoveredAt
    <3>6. IsBegun(s, u)
      BY <2>3, <3>3, <3>4, <3>5 DEF ChangedBy
    <3> QED
      BY <1>0, <1>1, <2>1, <2>2, <3>6 DEF IsBegun, BeginnerKnows
  <2>4. CASE Keeps(s)
    BY <1>0, <1>1, <2>1, <2>2, <2>4 DEF Keeps, BeginnerKnows
  <2> QED
    BY <1>1, <2>1, <2>2, <2>3, <2>4 DEF Changes, IsRevoked, IsAsked, IsRefused, IsGivenUp
<1>3. CASE Moves(w)
  <2>1. Own(w)
    BY <1>1, <1>3, OwnMove
  <2>2. /\ worker'[w].search = s /\ worker'[w].token = worker[w].token
        /\ worker'[w].doubt = worker[w].doubt
        /\ worker'[w].pc = "check" \/ (worker'[w].pc = "begin" /\ worker[w].pc = "check")
    BY <1>0, <2>1 DEF Own, Onward, Idles
  <2>3. CASE worker'[w].pc = "check"
    BY ZenonT(60), <1>0, <1>1, <1>3, <2>2, <2>3, OwnApproach
  <2>4. CASE worker'[w].pc = "begin"
    <3>1. receipt' = receipt /\ job' = job
      BY <1>1, <1>3, <2>4, OwnApproach
    <3>2. Holds(w)
      BY <1>0, <2>2, <3>1 DEF Holds, HoldsJob
    <3> QED
      BY <1>0, <1>1, <2>2, <2>4, <3>1, <3>2 DEF BeginnerKnows
  <2> QED
    BY <2>2, <2>3, <2>4
<1>4. ASSUME NEW r \in Searches, Claim(w, r)
      PROVE  worker'[w].doubt = TRUE
  <2>1. receipt[r].ambiguous = TRUE
    BY <1>1, <1>4, ClaimGives
  <2> QED
    BY <1>1, <1>4, <2>1, ClaimGives
<1> QED
  BY <1>1, <1>2, <1>3, <1>4, Movers

LEMMA HolderKnowsStep ==
    ASSUME BaseInv, DoubtInv, [Next]_vars, NEW w \in Workers
    PROVE  HolderKnows(w)'
<1>0. PICK s \in Searches : s = worker[w].search
  BY Rows DEF BaseInv
<1>1. TypeInv /\ BeginnerKnows(w) /\ HolderKnows(w)
  BY DEF BaseInv, DoubtInv
<1> SUFFICES ASSUME Holds(w)', Begun(w)',
                    worker'[w].pc \in {"configure", "lock", "relinquish", "fence"},
                    receipt'[worker'[w].search].ambiguous = TRUE
             PROVE  worker'[w].doubt = TRUE
  BY DEF HolderKnows
<1>2. CASE Calm(w)
  <2>1. /\ worker'[w].search = s /\ Holds(w) /\ Begun(w)
        /\ worker'[w].pc = worker[w].pc /\ worker'[w].doubt = worker[w].doubt
    BY <1>0, <1>2, Calmed DEF Calm, Still
  <2>2. receipt'[s].state = "processing"
    BY <2>1 DEF Begun, AtAttempt
  <2>3. receipt[s].ambiguous = TRUE
    BY <1>0, <1>2, <2>1, <2>2 DEF Calm, KeepsAttempt
  <2> QED
    BY <1>0, <1>1, <2>1, <2>3 DEF HolderKnows
<1>3. CASE Moves(w)
  <2>1. Own(w)
    BY <1>1, <1>3, OwnMove
  <2>2. /\ worker'[w].search = s /\ worker'[w].token = worker[w].token
        /\ worker'[w].doubt = worker[w].doubt
        /\ \/ worker'[w].pc = "configure" /\ worker[w].pc = "begin"
           \/ /\ worker'[w].pc \in {"lock", "relinquish", "fence"}
              /\ worker[w].pc \in {"configure", "lock"}
    BY <1>0, <2>1 DEF Own, Onward, Idles
  <2>3. CASE worker'[w].pc = "configure"
    <3>1. /\ receipt[s].state = "retry_scheduled" /\ job' = job
          /\ receipt'[s].ambiguous = receipt[s].ambiguous
      BY <1>0, <1>1, <1>3, <2>3, OwnApproach
    <3>2. Holds(w)
      BY <1>0, <2>2, <3>1 DEF Holds, HoldsJob
    <3> QED
      BY <1>0, <1>1, <2>2, <2>3, <3>1, <3>2 DEF BeginnerKnows
  <2>4. CASE worker'[w].pc # "configure"
    <3>1. receipt' = receipt /\ job' = job
      BY <1>1, <1>3, <2>2, <2>4, OwnApproach
    <3>2. Holds(w) /\ Begun(w)
      BY <1>0, <2>2, <3>1 DEF Holds, HoldsJob, Begun, AtAttempt
    <3> QED
      BY <1>0, <1>1, <2>2, <2>4, <3>1, <3>2 DEF HolderKnows
  <2> QED
    BY <2>3, <2>4
<1>4. ASSUME NEW r \in Searches, Claim(w, r)
      PROVE  FALSE
  BY <1>1, <1>4, ClaimGives
<1> QED
  BY <1>2, <1>3, <1>4, Movers

LEMMA CallerKnowsStep ==
    ASSUME BaseInv, DoubtInv, [Next]_vars, NEW w \in Workers
    PROVE  CallerKnows(w)'
<1>0. PICK s \in Searches : s = worker[w].search
  BY Rows DEF BaseInv
<1>1. TypeInv /\ HolderKnows(w) /\ CallerKnows(w) /\ Changes(s)
  BY StepChanges DEF BaseInv, DoubtInv
<1> SUFFICES ASSUME Begun(w)', worker'[w].pc \in {"start", "call", "complete"},
                    receipt'[worker'[w].search].ambiguous = TRUE
             PROVE  worker'[w].doubt = TRUE
  BY DEF CallerKnows
<1>2. CASE Calm(w)
  <2>1. /\ worker'[w].search = s /\ Begun(w) /\ ~Moved(w)
        /\ worker'[w].pc = worker[w].pc /\ worker'[w].doubt = worker[w].doubt
    BY <1>0, <1>2, Calmed DEF Calm, Still
  <2>2. receipt'[s].state = "processing" /\ receipt[s].state = "processing"
    BY <1>0, <2>1 DEF Begun, AtAttempt
  <2>3. ASSUME NEW u \in Workers, worker[u].search = s, Moved(u),
               IsBegun(s, u) \/ IsFenced(s, u) \/ IsSettled(s, u)
        PROVE  FALSE
    BY <1>0, <2>1, <2>2, <2>3, SameBeginner DEF IsBegun, IsFenced, IsSettled
  <2>4. Keeps(s)
    BY <1>1, <2>2, <2>3, AtAttemptChanges
  <2> QED
    BY <1>0, <1>1, <2>1, <2>4 DEF Keeps, CallerKnows
<1>3. CASE Moves(w)
  <2>1. Own(w)
    BY <1>1, <1>3, OwnMove
  <2>2. /\ worker'[w].search = s /\ worker'[w].token = worker[w].token
        /\ worker'[w].doubt = worker[w].doubt
        /\ \/ worker'[w].pc = "start" /\ worker[w].pc = "fence"
           \/ worker'[w].pc \in {"call", "complete"} /\ worker[w].pc \in {"start", "call"}
    BY <1>0, <2>1 DEF Own, Onward, Idles
  <2>3. CASE worker'[w].pc = "start"
    <3>1. Holds(w) /\ Begun(w) /\ receipt'[s].ambiguous = receipt[s].ambiguous
      BY <1>0, <1>1, <1>3, <2>3, OwnApproach
    <3> QED
      BY <1>0, <1>1, <2>2, <2>3, <3>1 DEF HolderKnows
  <2>4. CASE worker'[w].pc # "start"
    <3>1. receipt' = receipt
      BY <1>1, <1>3, <2>2, <2>4, OwnApproach
    <3>2. Begun(w)
      BY <1>0, <2>2, <3>1 DEF Begun, AtAttempt
    <3> QED
      BY <1>0, <1>1, <2>2, <2>4, <3>1, <3>2 DEF CallerKnows
  <2> QED
    BY <2>3, <2>4
<1>4. ASSUME NEW r \in Searches, Claim(w, r)
      PROVE  FALSE
  BY <1>1, <1>4, ClaimGives
<1> QED
  BY <1>2, <1>3, <1>4, Movers

\* Every worker that may make a call, or replace the attempt of one that may, knows
\* of the calls its search has made.
LEMMA DoubtHolds == Spec => []DoubtInv
<1>1. Init => DoubtInv
  <2> SUFFICES ASSUME Init PROVE DoubtInv
    OBVIOUS
  <2>1. \A w \in Workers : worker[w].pc = "idle"
    BY DEF Init, IdleWorker
  <2> QED
    BY <2>1 DEF DoubtInv, AuthorizedAt, RecoveryKnows, DoubtsCaller, RecoveredAt, BeginnerKnows,
       HolderKnows, CallerKnows, Calling
<1>2. CallInv /\ BaseInv' /\ TraceInv /\ DoubtInv /\ [Next]_vars => DoubtInv'
  <2> SUFFICES ASSUME CallInv, BaseInv', TraceInv, DoubtInv, [Next]_vars PROVE DoubtInv'
    OBVIOUS
  <2>0. BaseInv
    BY DEF CallInv
  <2>1. ASSUME NEW w \in Workers
        PROVE  /\ (AuthorizedAt(w) /\ RecoveryKnows(w))'
               /\ (BeginnerKnows(w) /\ HolderKnows(w) /\ CallerKnows(w))'
    BY <2>0, <2>1, AuthorizedAtStep, RecoveryKnowsStep, BeginnerKnowsStep, HolderKnowsStep,
       CallerKnowsStep
  <2>2. ASSUME NEW w \in Workers, NEW v \in Workers
        PROVE  (DoubtsCaller(v, w) /\ RecoveredAt(w, v))'
    BY <2>0, <2>2, DoubtsCallerStep, RecoveredAtStep
  <2> QED
    BY <2>1, <2>2 DEF DoubtInv
<1> QED
  BY <1>1, <1>2, BaseHolds, CallsHold, TraceHolds, PTL DEF Spec

-------------------------------------------------------------------------------
(* What is said of a call that was lost *)

Quiet(s) == used.denials = 0 /\ s \notin misread
Called == {"call", "complete", "settle"}

\* While nobody was refused, everybody is entitled.
Undenied == used.denials = 0 => entitled = Employees
\* A call leaves its attempt authorised until it is settled, or the search warned.
CalledAt(w) ==
    LET s == worker[w].search IN
    worker[w].pc \in Called /\ Quiet(s) =>
        \/ Begun(w) /\ receipt[s].authorized = TRUE
        \/ receipt[s].ambiguous = TRUE
\* So does a call that was lost: only its worker's settlement closes the attempt
\* without a warning, and that worker knows that the answer did not come.
LostAt(s) ==
    s \in lost /\ Quiet(s) =>
        \/ receipt[s].ambiguous = TRUE
        \/ /\ receipt[s].state = "processing" /\ receipt[s].authorized = TRUE
           /\ \A w \in Workers : worker[w].search = s /\ Begun(w) =>
                worker[w].pc = "settle" /\ worker[w].answer = "transport"

LostInv == Undenied /\ (\A w \in Workers : CalledAt(w)) /\ \A s \in Searches : LostAt(s)

\* What is misread or refused is not forgotten.
LEMMA QuietBefore ==
    ASSUME TypeInv, [Next]_vars
    PROVE  /\ used'.denials = 0 => used.denials = 0
           /\ \A s \in Searches : Quiet(s)' => Quiet(s)
           /\ Undenied => Undenied'
<1>1. used \in [faults : Nat, denials : Nat, misreads : Nat]
  BY DEF TypeInv, Others
<1>2. ASSUME NEW e \in Employees, Deny(e)
      PROVE  used'.denials # 0 /\ misread' = misread
  BY <1>1, <1>2 DEF Deny, history
<1>3. ASSUME NEW e \in Employees, Grant(e)
      PROVE  used' = used /\ misread' = misread /\ (entitled # Employees \/ entitled' = entitled)
  BY <1>3 DEF Grant, history
<1>4. ASSUME NEW w \in Workers, Fail(w)
      PROVE  used'.denials = used.denials /\ misread \subseteq misread' /\ entitled' = entitled
  <2>1. misread \subseteq misread'
    BY <1>4, FailDoes
  <2>2. \/ used' = used
        \/ used' = [used EXCEPT !.misreads = @ + 1]
    BY <1>4 DEF Fail
  <2> QED
    BY <1>1, <1>4, <2>1, <2>2 DEF Fail
<1>5. Fault => used'.denials = used.denials
  BY <1>1 DEF Fault
<1>6. CASE /\ ~\E e \in Employees : Deny(e) \/ Grant(e)
           /\ ~\E w \in Workers : Fail(w)
  <2>1. /\ used' = used \/ Fault
        /\ misread' = misread /\ entitled' = entitled
    BY <1>6, Writers DEF FewWrite
  <2> QED
    BY <1>5, <2>1 DEF Quiet, Undenied
<1>7. CASE \E e \in Employees : Deny(e) \/ Grant(e)
  BY <1>2, <1>3, <1>7 DEF Quiet, Undenied
<1>8. CASE \E w \in Workers : Fail(w)
  BY <1>4, <1>8 DEF Quiet, Undenied
<1> QED
  BY <1>6, <1>7, <1>8

\* A warning stays while nobody is refused and nothing is misread.
LEMMA WarningStays ==
    ASSUME BaseInv, BaseInv', TraceInv, DoubtInv, Undenied, [Next]_vars,
           NEW s \in Searches, Quiet(s)', receipt[s].ambiguous = TRUE
    PROVE  receipt'[s].ambiguous = TRUE
<1>1. TypeInv /\ Changes(s) /\ Quiet(s)
  BY StepChanges, QuietBefore DEF BaseInv
<1>2. Owner[s] \in entitled
  BY <1>1, Rows DEF Quiet, Undenied
<1>3. receipt[s].state # "none"
  BY DEF TraceInv, UnaskedAt
<1>4. ASSUME NEW u \in Workers, ChangedBy(s, u)
      PROVE  receipt'[s].ambiguous = TRUE
  <2>1. worker[u].search = s
    BY <1>4 DEF ChangedBy
  <2>2. CASE IsRecovered(s, u)
    BY <2>1, <2>2 DEF IsRecovered, DoubtInv, RecoveryKnows, Doubtful
  <2>3. CASE IsCompleted(s, u)
    BY <2>1, <2>3 DEF IsCompleted, DoubtInv, CallerKnows
  <2>4. CASE IsFailed(s, u)
    <3>1. receipt'[s].ambiguous
      BY <2>4 DEF IsFailed, Quiet
    <3>2. receipt'[s].ambiguous \in BOOLEAN
      BY DEF BaseInv, TypeInv, Tables, ReceiptTable, Receipts
    <3> QED
      BY <3>1, <3>2
  <2>5. CASE IsBegun(s, u) \/ IsFenced(s, u) \/ IsSettled(s, u) \/ IsReturned(s, u)
    BY <2>5 DEF IsBegun, IsFenced, IsSettled, IsReturned
  <2> QED
    BY <1>4, <2>2, <2>3, <2>4, <2>5 DEF ChangedBy
<1> QED
  BY <1>1, <1>2, <1>3, <1>4 DEF Changes, Keeps, IsRevoked, IsAsked, IsRefused, IsGivenUp

LEMMA CalledAtStep ==
    ASSUME CallInv, BaseInv', TraceInv, DoubtInv, LostInv, [Next]_vars, NEW w \in Workers
    PROVE  CalledAt(w)'
<1>0. PICK s \in Searches : s = worker[w].search
  BY Rows DEF CallInv, BaseInv
<1>1. BaseInv /\ TypeInv /\ Undenied /\ CalledAt(w) /\ Changes(s)
  BY StepChanges DEF CallInv, BaseInv, LostInv
<1> SUFFICES ASSUME worker'[w].pc \in Called, Quiet(worker[w].search)'
             PROVE  \/ Begun(w)' /\ receipt'[worker'[w].search].authorized = TRUE
                    \/ receipt'[worker'[w].search].ambiguous = TRUE
  BY DEF CalledAt
<1>2. ASSUME worker'[w].search = s
      PROVE  /\ Quiet(s)' /\ Quiet(s) /\ Owner[s] \in entitled
             /\ receipt[s].ambiguous = TRUE => receipt'[s].ambiguous = TRUE
  <2>1. Quiet(s)'
    BY <1>2 DEF Quiet
  <2>2. Quiet(s)
    BY <1>1, <2>1, QuietBefore
  <2>3. Owner[s] \in entitled
    BY <1>1, <2>2, Rows DEF Quiet, Undenied
  <2> QED
    BY <1>1, <2>1, <2>2, <2>3, WarningStays
<1>3. CASE Calm(w)
  <2>1. /\ worker[w].pc \in Called /\ worker'[w].search = s /\ worker'[w].token = worker[w].token
        /\ worker'[w].pc = worker[w].pc /\ ~Moved(w)
    BY <1>0, <1>3 DEF Calm, Still, Moved
  <2>2. CASE receipt[s].ambiguous = TRUE
    BY <1>2, <2>1, <2>2
  <2>3. CASE Begun(w) /\ receipt[s].authorized = TRUE
    <3>1. receipt[s].state = "processing" /\ receipt[s].token = worker[w].token
      BY <1>0, <2>3 DEF Begun, AtAttempt
    <3>2. CASE Keeps(s)
      BY <2>1, <2>3, <3>1, <3>2 DEF Keeps, Begun, AtAttempt
    <3>3. CASE IsRevoked(s)
      BY <2>1, <2>3, <3>3 DEF IsRevoked
    <3>4. ASSUME NEW u \in Workers, ChangedBy(s, u)
          PROVE  receipt'[s].ambiguous = TRUE
      <4>1. worker[u].search = s /\ ~Begun(u)
        BY <1>0, <1>1, <2>1, <2>3, <3>4, SameBeginner DEF ChangedBy
      <4>2. IsRecovered(s, u)
        BY <3>1, <3>4, <4>1
           DEF ChangedBy, IsBegun, IsFenced, IsSettled, IsReturned, IsCompleted, IsFailed
      <4>3. worker[u].was = worker[w].token
        BY <3>1, <4>2 DEF IsRecovered, AtAttempt
      <4>4. worker[u].doubt = TRUE
        BY <1>0, <2>1, <4>1, <4>2, <4>3 DEF IsRecovered, DoubtInv, DoubtsCaller, Calling, Called
      <4> QED
        BY <4>2, <4>4 DEF IsRecovered
    <3> QED
      BY <1>1, <1>2, <2>1, <3>1, <3>2, <3>3, <3>4 DEF Changes, IsAsked, IsRefused, IsGivenUp
  <2> QED
    BY <1>0, <1>1, <1>2, <2>1, <2>2, <2>3 DEF CalledAt
<1>4. CASE Moves(w)
  <2>1. Own(w)
    BY <1>1, <1>4, OwnMove
  <2>2. receipt' = receipt /\ (worker'[w].pc = "call" => worker[w].pc = "start" /\ w \in lane)
    BY <1>1, <1>4, OwnApproach DEF Called
  <2>3. /\ worker'[w].search = s /\ worker'[w].token = worker[w].token
        /\ worker'[w].pc = "call" \/ worker[w].pc = "call"
    BY <1>0, <2>1 DEF Own, Onward, Idles, Called
  <2>4. Begun(w) => Begun(w)'
    BY <1>0, <2>2, <2>3 DEF Begun, AtAttempt
  <2>5. CASE worker'[w].pc = "call"
    <3>1. Recorded(w)
      BY <2>2, <2>5 DEF CallInv, HotInv, HotAt, Hot
    <3> QED
      BY <1>0, <2>2, <2>3, <2>4, <3>1 DEF Recorded
  <2>6. CASE worker[w].pc = "call"
    BY <1>0, <1>1, <1>2, <2>2, <2>3, <2>4, <2>6 DEF CalledAt, Called
  <2> QED
    BY <2>3, <2>5, <2>6
<1>5. ASSUME NEW r \in Searches, Claim(w, r)
      PROVE  FALSE
  BY <1>1, <1>5, ClaimGives DEF Called
<1> QED
  BY <1>1, <1>3, <1>4, <1>5, Movers

\* A call is lost when its worker gets no answer, or dies before it settled it.
LEMMA LostBy ==
    ASSUME TypeInv, [Next]_vars, NEW s \in Searches, s \in lost', s \notin lost
    PROVE  \E u \in Workers :
             /\ worker[u].search = s /\ worker[u].pc \in Called
             /\ receipt' = receipt /\ Alone(u)
             /\ \/ Idles(u)
                \/ /\ worker'[u].pc = "settle" /\ worker'[u].answer = "transport"
                   /\ worker'[u].search = s /\ worker'[u].token = worker[u].token
<1>1. ASSUME NEW u \in Workers, Crash(u)
      PROVE  /\ worker[u].search = s /\ worker[u].pc \in Called
             /\ receipt' = receipt /\ Alone(u) /\ Idles(u)
  <2>1. receipt' = receipt
    BY <1>1 DEF Crash
  <2> QED
    BY <1>1, <2>1, CrashDoes DEF Called
<1>2. ASSUME NEW u \in Workers, Respond(u)
      PROVE  /\ worker[u].search = s /\ worker[u].pc \in Called
             /\ receipt' = receipt /\ Alone(u)
             /\ worker'[u].pc = "settle" /\ worker'[u].answer = "transport"
             /\ worker'[u].search = s /\ worker'[u].token = worker[u].token
  <2>1. PICK answer \in Answers :
          /\ worker' = [worker EXCEPT ![u] =
                          [@ EXCEPT !.pc = IF answer = "ok" THEN "complete" ELSE "settle",
                                    !.timer = 0, !.answer = answer]]
          /\ lost' = IF answer = "transport" THEN lost \cup {worker[u].search} ELSE lost
    BY <1>2 DEF Respond
  <2>2. answer = "transport" /\ worker[u].search = s
    BY <2>1
  <2>3. worker'[u].pc = "settle" /\ worker'[u].answer = "transport"
    BY <2>1, <2>2, Rows DEF Tables, WorkerTable, WorkerStates
  <2>4. receipt' = receipt
    BY <1>2 DEF Respond
  <2> QED
    BY <1>2, <2>2, <2>3, <2>4, RespondDoes DEF Called
<1>3. CASE ~\E u \in Workers : Crash(u) \/ Respond(u)
  <2>1. lost' = lost
    BY <1>3, Writers DEF FewWrite
  <2> QED
    BY <2>1
<1> QED
  BY <1>1, <1>2, <1>3

\* The worker that settles a call it got no answer to warns, if its attempt is open.
LEMMA SettlementWarns ==
    ASSUME TypeInv, NEW u \in Workers, Moves(u), worker[u].pc = "settle", Begun(u)
    PROVE  \/ Idles(u) /\ receipt' = receipt
           \/ worker[u].answer = "transport" => receipt'[worker[u].search].ambiguous = TRUE
<1>0. PICK s \in Searches : s = worker[u].search
  BY Rows
<1>1. CASE Settle(u)
  <2>1. receipt'[s].ambiguous = (receipt[s].ambiguous \/ worker[u].answer = "transport")
    BY <1>0, <1>1, SettleDoes DEF Begun
  <2> QED
    BY <1>0, <2>1
<1>2. CASE Crash(u)
  BY <1>2, CrashDoes DEF Crash
<1> QED
  BY <1>1, <1>2 DEF Moves, Step, Repair, Recover, CheckActor, Begin, Configure, Lock, Relinquish,
     Fence, StartCall, Respond, Complete, Import, Mark, Fail, Persist, LockBusy

LEMMA LostAtStep ==
    ASSUME CallInv, BaseInv', TraceInv, DoubtInv, LostInv, [Next]_vars, NEW s \in Searches
    PROVE  LostAt(s)'
<1>1. BaseInv /\ TypeInv /\ Undenied /\ LostAt(s) /\ Changes(s)
  BY StepChanges DEF CallInv, BaseInv, LostInv
<1> SUFFICES ASSUME s \in lost', Quiet(s)', receipt'[s].ambiguous # TRUE
             PROVE  /\ receipt'[s].state = "processing" /\ receipt'[s].authorized = TRUE
                    /\ \A w \in Workers : worker'[w].search = s /\ Begun(w)' =>
                         worker'[w].pc = "settle" /\ worker'[w].answer = "transport"
  BY DEF LostAt
<1>2. Quiet(s) /\ receipt[s].ambiguous # TRUE
  BY <1>1, QuietBefore, WarningStays
<1>3. Owner[s] \in entitled
  BY <1>1, <1>2, Rows DEF Quiet, Undenied
<1>4. ASSUME NEW w \in Workers, Begun(w)', worker'[w].search = s
      PROVE  ~Idles(w)
  <2>1. receipt'[s].token = worker'[w].token /\ receipt'[s].state = "processing"
    BY <1>4 DEF Begun, AtAttempt
  <2>2. worker'[w].token # NoToken
    BY <2>1 DEF BaseInv, TokenInv
  <2> QED
    BY <2>2 DEF Idles
<1>5. CASE s \in lost
  <2>1. /\ receipt[s].state = "processing" /\ receipt[s].authorized = TRUE
        /\ \A w \in Workers : worker[w].search = s /\ Begun(w) =>
             worker[w].pc = "settle" /\ worker[w].answer = "transport"
    BY <1>1, <1>2, <1>5 DEF LostAt
  <2>2. ASSUME NEW u \in Workers, ChangedBy(s, u)
        PROVE  FALSE
    <3>1. worker[u].search = s
      BY <2>2 DEF ChangedBy
    <3>2. ~IsSettled(s, u)
      BY <2>1, <3>1 DEF IsSettled
    <3>3. ~IsRecovered(s, u)
      BY <2>1, <3>1 DEF IsRecovered, DoubtInv, RecoveryKnows, Doubtful
    <3> QED
      BY <2>1, <2>2, <3>1, <3>2, <3>3
      DEF ChangedBy, IsBegun, IsFenced, IsReturned, IsCompleted, IsFailed
  <2>3. Keeps(s)
    BY <1>1, <1>3, <2>1, <2>2 DEF Changes, IsRevoked, IsAsked, IsRefused, IsGivenUp
  <2>4. ASSUME NEW w \in Workers, worker'[w].search = s, Begun(w)'
        PROVE  worker'[w].pc = "settle" /\ worker'[w].answer = "transport"
    <3>1. receipt[s].token = worker'[w].token /\ receipt[s].state = "processing"
      BY <2>3, <2>4 DEF Begun, AtAttempt, Keeps
    <3>2. CASE Calm(w)
      BY <2>1, <2>4, <3>1, <3>2 DEF Calm, Still, Begun, AtAttempt
    <3>3. CASE Moves(w)
      <4>1. worker[w].search = s /\ worker[w].token = worker'[w].token
        BY <1>1, <1>4, <2>4, <3>3, OwnMove DEF Own
      <4>2. Begun(w)
        BY <3>1, <4>1 DEF Begun, AtAttempt
      <4> QED
        BY <1>1, <1>4, <2>1, <2>4, <3>3, <4>1, <4>2, SettlementWarns
    <3>4. ASSUME NEW r \in Searches, Claim(w, r)
          PROVE  FALSE
      BY <1>1, <3>1, <3>4, ClaimGives
    <3> QED
      BY <1>1, <3>2, <3>3, <3>4, Movers
  <2> QED
    BY <2>1, <2>3, <2>4 DEF Keeps
<1>6. CASE s \notin lost
  <2>1. PICK u \in Workers :
          /\ worker[u].search = s /\ worker[u].pc \in Called
          /\ receipt' = receipt /\ Alone(u)
          /\ \/ Idles(u)
             \/ /\ worker'[u].pc = "settle" /\ worker'[u].answer = "transport"
                /\ worker'[u].search = s /\ worker'[u].token = worker[u].token
    BY <1>1, <1>6, LostBy
  <2>2. Begun(u) /\ receipt[s].authorized = TRUE /\ receipt[s].state = "processing"
    BY <1>2, <2>1 DEF LostInv, CalledAt, Begun, AtAttempt
  <2>3. ASSUME NEW w \in Workers, worker'[w].search = s, Begun(w)'
        PROVE  worker'[w].pc = "settle" /\ worker'[w].answer = "transport"
    <3>1. CASE w = u
      BY <1>4, <2>1, <2>3, <3>1
    <3>2. CASE w # u
      <4>1. worker'[w] = worker[w]
        BY <2>1, <3>2 DEF Alone
      <4>2. Begun(w) /\ worker[w].search = s
        BY <2>1, <2>3, <4>1 DEF Begun, AtAttempt
      <4> QED
        BY <1>1, <2>1, <2>2, <3>2, <4>2, SameBeginner
    <3> QED
      BY <3>1, <3>2
  <2> QED
    BY <2>1, <2>2, <2>3
<1> QED
  BY <1>5, <1>6

\* A search a call of which ended without an answer says so once it is settled,
\* whoever settles, fails, recovers or revokes it, unless a role was lost or a
\* failure was handled without the receipt.
THEOREM LostCallsAreWarnedOf == Spec => []LostCallsAreAmbiguous
<1>1. Init => LostInv
  <2> SUFFICES ASSUME Init PROVE LostInv
    OBVIOUS
  <2>1. \A w \in Workers : worker[w].pc = "idle"
    BY DEF Init, IdleWorker
  <2>2. entitled = Employees /\ lost = {}
    BY DEF Init
  <2> QED
    BY <2>1, <2>2 DEF LostInv, Undenied, CalledAt, Called, LostAt
<1>2. CallInv /\ BaseInv' /\ TraceInv /\ DoubtInv /\ LostInv /\ [Next]_vars => LostInv'
  <2> SUFFICES ASSUME CallInv, BaseInv', TraceInv, DoubtInv, LostInv, [Next]_vars PROVE LostInv'
    OBVIOUS
  <2>1. Undenied'
    BY QuietBefore DEF CallInv, BaseInv, LostInv
  <2> QED
    BY <2>1, CalledAtStep, LostAtStep DEF LostInv
<1>3. BaseInv /\ LostInv => LostCallsAreAmbiguous
  <2> SUFFICES ASSUME BaseInv, LostInv, NEW s \in Searches, s \in lost, Settled(s),
                      used.denials = 0, s \notin misread
               PROVE  receipt[s].ambiguous
    BY DEF LostCallsAreAmbiguous
  <2>1. receipt[s].state # "processing"
    BY DEF Settled, TerminalStates
  <2>2. receipt[s].ambiguous = TRUE
    BY <2>1 DEF LostInv, LostAt, Quiet
  <2> QED
    BY <2>2
<1> QED
  BY <1>1, <1>2, <1>3, BaseHolds, CallsHold, TraceHolds, DoubtHolds, PTL DEF Spec
=============================================================================
