--------------------- MODULE DiscoveryInterpretationProofs ---------------------
(***************************************************************************)
(* What holds of the interpretation queues for every number of sources,    *)
(* observations, workers, reports and faults.                              *)
(*                                                                         *)
(* The first proofs need the shape of the row, of the budget and of the    *)
(* ticks, and that a batch is finite.  The later ones look inside the      *)
(* queues: Select, from which the queues are filtered, is characterised by *)
(* counting kept places, with the least-number principle in the place of   *)
(* an induction over sequences.                                            *)
(***************************************************************************)
EXTENDS DiscoveryInterpretation, FiniteSetTheorems, SequenceTheorems,
        WellFoundedInduction, TLAPS

\* The row, the budget and the table of queues have their fields.
Shape ==
    /\ run \in [status : {"running", "cancel_requested"} \cup Ended,
                provider : BOOLEAN, finished : SUBSET Sources]
    /\ budget = [reserved |-> budget.reserved, settled |-> budget.settled,
                 receipt |-> budget.receipt]
    /\ budget.receipt \in BOOLEAN
    /\ DOMAIN queue = Sources

\* A job row, its budget and its queues keep their fields in every step.
THEOREM ShapeHolds == Spec => []Shape
<1>1. Init => Shape
  BY DEF Init, Shape, Ended
<1>2. Shape /\ [Next]_vars => Shape'
  <2> SUFFICES ASSUME Shape, [Next]_vars PROVE Shape'
    OBVIOUS
  <2>1. ASSUME NEW s \in Sources, NEW first, NEW last, Report(s, first, last) PROVE Shape'
    BY <2>1 DEF Report, Shape, Ended
  <2>2. ASSUME NEW s \in Sources, Checkpoint(s) \/ Complete(s) PROVE Shape'
    <3>1. CASE Checkpoint(s)
      BY <3>1 DEF Checkpoint, Shape, Ended
    <3>2. CASE Complete(s)
      BY <3>2 DEF Complete, Shape, Ended
    <3> QED
      BY <2>2, <3>1, <3>2
  <2>3. CASE Cancel
    BY <2>3 DEF Cancel, Shape, Ended
  <2>4. CASE EndElsewhere
    BY <2>4 DEF EndElsewhere, Shape, Ended
  <2>5. CASE ClaimsLapse
    BY <2>5 DEF ClaimsLapse, Shape
  <2>6. ASSUME NEW w \in Workers, NEW s \in Sources, NEW a, TickWithoutCalls(w, s, a)
        PROVE Shape'
    BY <2>6 DEF TickWithoutCalls, Shape
  <2>7. ASSUME NEW w \in Workers, NEW s \in Sources, NEW a, TickUncertain(w, s, a)
        PROVE Shape'
    BY <2>7 DEF TickUncertain, Shape
  <2>8. ASSUME NEW w \in Workers, NEW s \in Sources, NEW a, TickClaims(w, s, a)
        PROVE Shape'
    BY <2>8 DEF TickClaims, Shape
  <2>9. ASSUME NEW w \in Workers, NEW o, CallModel(w, o) PROVE Shape'
    BY <2>9 DEF CallModel, Shape
  <2>10. ASSUME NEW w \in Workers, TickDies(w) PROVE Shape'
    BY <2>10 DEF TickDies, Shape
  <2>11. ASSUME NEW w \in Workers, TickSettles(w) PROVE Shape'
    <3>1. Receipt(worker[w]) \in BOOLEAN
      BY DEF Receipt
    <3> QED
      BY <2>11, <3>1, ZenonT(60) DEF TickSettles, Shape, Ended
  <2>12. CASE UNCHANGED vars
    BY <2>12 DEF vars, Shape
  <2> QED
    BY <2>1, <2>2, <2>3, <2>4, <2>5, <2>6, <2>7, <2>8, <2>9, <2>10, <2>11, <2>12
    DEF Next, Callback, Start, Call
<1> QED
  BY <1>1, <1>2, PTL DEF Spec

-------------------------------------------------------------------------------

\* No tick that claims starts once the receipt is lost: a cancelled run plans no
\* claim, and any other run is blocked.
LEMMA NoClaimWithoutReceipt ==
    ASSUME NEW w, NEW s, NEW a, ~ budget.receipt
    PROVE  ~ TickClaims(w, s, a)
BY DEF TickClaims, Starts, Plan

\* ReceiptLossIsFinal: a lost cost receipt stops the whole job for good, also for
\* the ticks that were under way.
THEOREM ReceiptLossStaysFinal == Spec => ReceiptLossIsFinal
<1>1. Shape /\ [Next]_vars =>
        [~ budget.receipt => ~ budget'.receipt /\ budget'.reserved = budget.reserved]_vars
  <2> SUFFICES ASSUME Shape, [Next]_vars, ~ budget.receipt
               PROVE  ~ budget'.receipt /\ budget'.reserved = budget.reserved
    OBVIOUS
  <2>1. ASSUME NEW s \in Sources, NEW first, NEW last, Report(s, first, last)
        PROVE  UNCHANGED budget
    BY <2>1 DEF Report
  <2>2. ASSUME NEW s \in Sources, Checkpoint(s) \/ Complete(s) PROVE UNCHANGED budget
    BY <2>2 DEF Checkpoint, Complete
  <2>3. CASE Cancel \/ EndElsewhere \/ ClaimsLapse
    BY <2>3 DEF Cancel, EndElsewhere, ClaimsLapse
  <2>4. ASSUME NEW w \in Workers, NEW s \in Sources, NEW a,
               TickWithoutCalls(w, s, a) \/ TickUncertain(w, s, a)
        PROVE  UNCHANGED budget
    BY <2>4 DEF TickWithoutCalls, TickUncertain
  <2>5. ASSUME NEW w \in Workers, NEW s \in Sources, NEW a, TickClaims(w, s, a)
        PROVE  FALSE
    BY <2>5, NoClaimWithoutReceipt
  <2>6. ASSUME NEW w \in Workers, NEW o, CallModel(w, o) PROVE UNCHANGED budget
    BY <2>6 DEF CallModel
  <2>7. ASSUME NEW w \in Workers, TickDies(w) PROVE UNCHANGED budget
    BY <2>7 DEF TickDies
  <2>8. ASSUME NEW w \in Workers, TickSettles(w)
        PROVE  ~ budget'.receipt /\ budget'.reserved = budget.reserved
    <3>1. ~ Receipt(worker[w])
      BY DEF Receipt
    <3> QED
      BY <2>8, <3>1 DEF TickSettles, Shape
  <2>9. CASE UNCHANGED vars
    BY <2>9 DEF vars
  <2> QED
    BY <2>1, <2>2, <2>3, <2>4, <2>5, <2>6, <2>7, <2>8, <2>9
    DEF Next, Callback, Start, Call
<1> QED
  BY <1>1, ShapeHolds, PTL DEF Spec, ReceiptLossIsFinal

-------------------------------------------------------------------------------

\* NoCandidateAfterCancel: whatever ticks were calling when the run was asked to
\* stop, none of them submits a candidate.
THEOREM NoCandidatesOnceCancelled == Spec => NoCandidateAfterCancel
<1>1. [Next]_vars => [run.status # "running" => candidates' = candidates]_vars
  <2> SUFFICES ASSUME [Next]_vars, run.status # "running" PROVE candidates' = candidates
    OBVIOUS
  <2>1. ASSUME NEW s \in Sources, NEW first, NEW last, Report(s, first, last)
        PROVE  UNCHANGED candidates
    BY <2>1 DEF Report
  <2>2. ASSUME NEW s \in Sources, Checkpoint(s) \/ Complete(s) PROVE UNCHANGED candidates
    BY <2>2 DEF Checkpoint, Complete
  <2>3. CASE Cancel \/ EndElsewhere \/ ClaimsLapse \/ UNCHANGED vars
    BY <2>3 DEF Cancel, EndElsewhere, ClaimsLapse, vars
  <2>4. ASSUME NEW w \in Workers, NEW s \in Sources, NEW a,
               \/ TickWithoutCalls(w, s, a)
               \/ TickUncertain(w, s, a)
               \/ TickClaims(w, s, a)
        PROVE  UNCHANGED candidates
    BY <2>4 DEF TickWithoutCalls, TickUncertain, TickClaims
  <2>5. ASSUME NEW w \in Workers, NEW o, CallModel(w, o) PROVE UNCHANGED candidates
    BY <2>5 DEF CallModel
  <2>6. ASSUME NEW w \in Workers, TickDies(w) PROVE UNCHANGED candidates
    BY <2>6 DEF TickDies
  <2>7. ASSUME NEW w \in Workers, TickSettles(w) PROVE UNCHANGED candidates
    <3>1. Submitted(worker[w]) = {}
      BY DEF Submitted
    <3> QED
      BY <2>7, <3>1 DEF TickSettles
  <2> QED
    BY <2>1, <2>2, <2>3, <2>4, <2>5, <2>6, <2>7 DEF Next, Callback, Start, Call
<1> QED
  BY <1>1, PTL DEF Spec, NoCandidateAfterCancel

-------------------------------------------------------------------------------

\* CompletedRunsAreInterpreted: a callback and a tick of another source can both
\* be the one that ends the run, and neither does while a queue is open.
THEOREM CompletedRunsStayInterpreted == Spec => []CompletedRunsAreInterpreted
<1>1. Init => CompletedRunsAreInterpreted
  BY DEF Init, CompletedRunsAreInterpreted
<1>2. Shape /\ CompletedRunsAreInterpreted /\ [Next]_vars => CompletedRunsAreInterpreted'
  <2> SUFFICES ASSUME Shape, CompletedRunsAreInterpreted, [Next]_vars,
                      run'.status = "completed", NEW t \in Sources
               PROVE  ~ Open(queue'[t])
    BY DEF CompletedRunsAreInterpreted, Open
  <2>1. ASSUME UNCHANGED run, UNCHANGED queue PROVE ~ Open(queue'[t])
    BY <2>1 DEF CompletedRunsAreInterpreted
  <2>2. ASSUME NEW s \in Sources, NEW first, NEW last,
               Report(s, first, last) \/ Checkpoint(s)
        PROVE  FALSE
    BY <2>2 DEF Report, Checkpoint, Shape
  <2>3. ASSUME NEW s \in Sources, Complete(s) PROVE ~ Open(queue'[t])
    <3>1. ~ Open(queue[t])
      BY <2>3 DEF Complete, Shape
    <3>2. queue'[t] = queue[t] \/ queue'[t].status = "unqueued"
      BY <2>3 DEF Complete, Reporting, Shape, NoQueue
    <3> QED
      BY <3>1, <3>2 DEF Open
  <2>4. CASE Cancel \/ EndElsewhere
    BY <2>4 DEF Cancel, EndElsewhere, Shape
  <2>5. ASSUME NEW w \in Workers, NEW s \in Sources, NEW a,
               \/ TickWithoutCalls(w, s, a)
               \/ TickUncertain(w, s, a)
               \/ TickClaims(w, s, a)
        PROVE  FALSE
    BY <2>5 DEF TickWithoutCalls, TickUncertain, TickClaims, Starts
  <2>6. ASSUME NEW w \in Workers, TickSettles(w) PROVE ~ Open(queue'[t])
    <3>1. CASE run.status \in {"running", "cancel_requested"}
      BY <2>6, <3>1 DEF TickSettles, Ends
    <3>2. CASE run.status \notin {"running", "cancel_requested"}
      BY <2>1, <2>6, <3>2 DEF TickSettles
    <3> QED
      BY <3>1, <3>2
  <2>7. CASE ClaimsLapse \/ UNCHANGED vars
    BY <2>1, <2>7 DEF ClaimsLapse, vars
  <2>8. ASSUME NEW w \in Workers, (\E o : CallModel(w, o)) \/ TickDies(w)
        PROVE  ~ Open(queue'[t])
    BY <2>1, <2>8 DEF CallModel, TickDies
  <2> QED
    BY <2>2, <2>3, <2>4, <2>5, <2>6, <2>7, <2>8 DEF Next, Callback, Start, Call
<1> QED
  BY <1>1, <1>2, ShapeHolds, PTL DEF Spec

-------------------------------------------------------------------------------

\* A batch holds finitely many observations, whatever the queue holds.
LEMMA BatchIsFinite ==
    ASSUME NEW q
    PROVE  IsFiniteSet(ToSet(Batch(q)))
<1> DEFINE b == Batch(q)
<1>1. /\ DOMAIN b \subseteq 1 .. BatchSize
      /\ b \in Surjection(DOMAIN b, ToSet(b))
  BY DEF Batch, ToSet, Surjection
<1>2. IsFiniteSet(DOMAIN b)
  <2>1. IsFiniteSet(1 .. BatchSize)
    BY FS_Interval, InterpretationAssumption
  <2> QED
    BY <1>1, <2>1, FS_Subset
<1> QED
  BY <1>1, <1>2, FS_Surjection

\* What is reservable fits below the ceiling, since the remainder is counted from
\* the larger of what is reserved and what is settled.
LEMMA ReservableFits ==
    ASSUME NEW items, Reservable(items), IsFiniteSet(ToSet(items)),
           IsFiniteSet(budget.reserved), Cardinality(budget.reserved) <= MaxCalls,
           budget.settled \in Nat
    PROVE  /\ IsFiniteSet(budget.reserved \cup ToSet(items))
           /\ Cardinality(budget.reserved \cup ToSet(items)) <= MaxCalls
<1> DEFINE fresh == ToSet(items) \ budget.reserved
           reserved == budget.reserved
<1>1. IsFiniteSet(fresh) /\ Cardinality(fresh) \in Nat
  BY FS_Difference, FS_CardinalityType
<1>2. Cardinality(reserved) \in Nat /\ MaxCalls \in Nat
  BY FS_CardinalityType, InterpretationAssumption
<1>3. Cardinality(fresh) <= MaxCalls - Cardinality(reserved)
  BY <1>1, <1>2 DEF Reservable, Remaining, Larger
<1>4. /\ IsFiniteSet(reserved \cup fresh)
      /\ Cardinality(reserved \cup fresh) =
           Cardinality(reserved) + Cardinality(fresh) - Cardinality(reserved \cap fresh)
  BY <1>1, FS_Union
<1>5. reserved \cap fresh = {} /\ reserved \cup fresh = reserved \cup ToSet(items)
  OBVIOUS
<1>6. Cardinality(reserved \cap fresh) = 0
  <2>1. reserved \cap fresh = {}
    BY <1>5
  <2> HIDE DEF fresh, reserved
  <2> QED
    BY <2>1, FS_EmptySet
<1>7. Cardinality(reserved \cup fresh) <= MaxCalls
  <2> HIDE DEF fresh, reserved
  <2> QED
    BY <1>1, <1>2, <1>3, <1>4, <1>6
<1> QED
  BY <1>4, <1>5, <1>7

\* The budget is a number of calls and a finite set below the ceiling, and every
\* tick has a finite number of results to settle.
BudgetInv ==
    /\ IsFiniteSet(budget.reserved)
    /\ Cardinality(budget.reserved) <= MaxCalls
    /\ budget.settled \in Nat
    /\ DOMAIN worker = Workers
    /\ \A w \in Workers : DOMAIN worker[w] = DOMAIN IdleWorker /\ IsFiniteSet(worker[w].results)

\* ReservationsWithinCeiling: the ticks of all sources together never reserve more
\* calls than the job has.
THEOREM ReservationsStayWithinCeiling == Spec => []ReservationsWithinCeiling
<1>1. Init => BudgetInv
  <2> SUFFICES ASSUME Init PROVE BudgetInv
    OBVIOUS
  <2>1. budget.reserved = {} /\ budget.settled = 0
    BY DEF Init
  <2>2. \A w \in Workers : worker[w] = IdleWorker
    BY DEF Init
  <2>3. IdleWorker.results = {}
    BY DEF IdleWorker
  <2>4. DOMAIN worker = Workers
    BY DEF Init
  <2> QED
    BY <2>1, <2>2, <2>3, <2>4, FS_EmptySet, InterpretationAssumption DEF BudgetInv
<1>2. Shape /\ BudgetInv /\ [Next]_vars => BudgetInv'
  <2> SUFFICES ASSUME Shape, BudgetInv, [Next]_vars PROVE BudgetInv'
    OBVIOUS
  <2>1. ASSUME UNCHANGED budget, UNCHANGED worker PROVE BudgetInv'
    BY <2>1 DEF BudgetInv
  <2>2. ASSUME NEW w \in Workers, NEW tick, worker' = [worker EXCEPT ![w] = tick],
               DOMAIN tick = DOMAIN IdleWorker, IsFiniteSet(tick.results),
               IsFiniteSet(budget'.reserved), Cardinality(budget'.reserved) <= MaxCalls,
               budget'.settled \in Nat
        PROVE  BudgetInv'
    BY <2>2 DEF BudgetInv
  <2>3. ASSUME NEW s \in Sources, NEW first, NEW last,
               Report(s, first, last) \/ Checkpoint(s) \/ Complete(s)
        PROVE  BudgetInv'
    BY <2>1, <2>3 DEF Report, Checkpoint, Complete
  <2>4. CASE Cancel \/ EndElsewhere \/ ClaimsLapse \/ UNCHANGED vars
    BY <2>1, <2>4 DEF Cancel, EndElsewhere, ClaimsLapse, vars
  <2>5. ASSUME NEW w \in Workers, NEW s \in Sources, NEW a,
               TickWithoutCalls(w, s, a) \/ TickUncertain(w, s, a)
        PROVE  BudgetInv'
    <3>1. PICK q : Settling(w, s, q) /\ UNCHANGED budget
      BY <2>5 DEF TickWithoutCalls, TickUncertain
    <3> DEFINE tick == [IdleWorker EXCEPT !.phase = "settling", !.source = s, !.queue = q]
    <3>2. DOMAIN tick = DOMAIN IdleWorker /\ tick.results = {}
      BY DEF IdleWorker
    <3>3. worker' = [worker EXCEPT ![w] = tick]
      BY <3>1 DEF Settling
    <3> HIDE DEF tick
    <3> QED
      BY <2>2, <3>1, <3>2, <3>3, FS_EmptySet DEF BudgetInv
  <2>6. ASSUME NEW w \in Workers, NEW s \in Sources, NEW a, TickClaims(w, s, a)
        PROVE  BudgetInv'
    <3> DEFINE items == Batch(Loaded(s))
               claimed == Progress(Loaded(s), items, {}, "continuing")
               tick == [IdleWorker EXCEPT !.phase = "calling", !.source = s,
                                          !.queue = claimed, !.todo = items]
    <3>1. /\ worker' = [worker EXCEPT ![w] = tick]
          /\ IF Reservable(items)
             THEN budget' = [budget EXCEPT !.reserved = budget.reserved \cup ToSet(items)]
             ELSE UNCHANGED budget
      BY <2>6 DEF TickClaims
    <3>2. DOMAIN tick = DOMAIN IdleWorker /\ tick.results = {}
      BY DEF IdleWorker
    <3>3. IsFiniteSet(ToSet(items))
      BY BatchIsFinite
    <3> HIDE DEF tick, items
    <3>4. /\ IsFiniteSet(budget'.reserved)
          /\ Cardinality(budget'.reserved) <= MaxCalls
          /\ budget'.settled \in Nat
      <4>1. CASE Reservable(items)
        <5>1. /\ budget'.reserved = budget.reserved \cup ToSet(items)
              /\ budget'.settled = budget.settled
          BY <3>1, <4>1 DEF Shape
        <5> QED
          BY <3>3, <4>1, <5>1, ReservableFits DEF BudgetInv
      <4>2. CASE ~ Reservable(items)
        BY <3>1, <4>2 DEF BudgetInv
      <4> QED
        BY <4>1, <4>2
    <3> QED
      BY <2>2, <3>1, <3>2, <3>4, FS_EmptySet
  <2>7. ASSUME NEW w \in Workers, NEW o, CallModel(w, o) PROVE BudgetInv'
    <3> DEFINE t == worker[w]
               i == Head(t.todo)
               tick == [t EXCEPT !.todo = Tail(t.todo),
                                 !.results = t.results \cup {i},
                                 !.resolved = t.resolved \cup (IF o = "grounded" THEN {i} ELSE {}),
                                 !.noReceipt = o = "no receipt"]
    <3>1. worker' = [worker EXCEPT ![w] = tick] /\ UNCHANGED budget
      BY <2>7 DEF CallModel
    <3>2. DOMAIN t = DOMAIN IdleWorker /\ IsFiniteSet(t.results)
      BY DEF BudgetInv
    <3>3. DOMAIN tick = DOMAIN IdleWorker /\ tick.results = t.results \cup {i}
      BY <3>2 DEF IdleWorker
    <3> HIDE DEF tick, t, i
    <3>4. IsFiniteSet(tick.results)
      <4>1. IsFiniteSet(t.results \cup {i})
        BY <3>2, FS_AddElement
      <4> QED
        BY <3>3, <4>1
    <3> QED
      BY <2>2, <3>1, <3>3, <3>4 DEF BudgetInv, t
  <2>8. IsFiniteSet(IdleWorker.results)
    BY FS_EmptySet DEF IdleWorker
  <2>9. ASSUME NEW w \in Workers, TickDies(w) PROVE BudgetInv'
    BY <2>2, <2>8, <2>9 DEF TickDies, BudgetInv
  <2>10. ASSUME NEW w \in Workers, TickSettles(w) PROVE BudgetInv'
    <3>1. worker' = [worker EXCEPT ![w] = IdleWorker]
      BY <2>10 DEF TickSettles
    <3>2. CASE UNCHANGED budget
      BY <2>2, <2>8, <3>1, <3>2 DEF BudgetInv
    <3>3. CASE budget' = [budget EXCEPT !.settled = SettledCalls(worker[w]),
                                        !.receipt = Receipt(worker[w])]
      <4>1. /\ budget'.reserved = budget.reserved
            /\ budget'.settled = budget.settled + Cardinality(worker[w].results)
        BY <3>3 DEF Shape, SettledCalls
      <4>2. Cardinality(worker[w].results) \in Nat
        BY FS_CardinalityType DEF BudgetInv
      <4> QED
        BY <2>2, <2>8, <3>1, <4>1, <4>2 DEF BudgetInv
    <3> QED
      BY <2>10, <3>2, <3>3 DEF TickSettles
  <2> QED
    BY <2>3, <2>4, <2>5, <2>6, <2>7, <2>9, <2>10 DEF Next, Callback, Start, Call
<1> QED
  BY <1>1, <1>2, ShapeHolds, PTL DEF Spec, BudgetInv, ReservationsWithinCeiling

-------------------------------------------------------------------------------
(* Sequences *)

\* A set of numbers has a least one: the relation < is well founded.  This is the
\* induction of the proofs below.
LEMMA Least ==
    ASSUME NEW T \in SUBSET Nat, T # {}
    PROVE  \E m \in T : \A k \in T : m <= k
<1> DEFINE R == {p \in Nat \X Nat : p[1] < p[2]}
<1>1. IsWellFoundedOn(R, Nat)
  BY NatLessThanWellFounded DEF OpToRel
<1>2. PICK m \in T : \A k \in T : <<k, m>> \notin R
  <2> HIDE DEF R
  <2> QED
    BY <1>1, WFMin
<1>3. ASSUME NEW k \in T PROVE m <= k
  <2>1. <<k, m>> \notin R
    BY <1>2
  <2> QED
    BY <2>1
<1> QED
  BY <1>3

\* The kept places of a sequence are ranked from 1 to their number, each rank at
\* one place.
LEMMA Ranks ==
    ASSUME NEW N \in Nat, NEW keep \in SUBSET (1 .. N)
    PROVE  /\ IsFiniteSet(keep) /\ Cardinality(keep) \in Nat
           /\ \A k \in 1 .. Cardinality(keep) :
                \E n \in keep : Cardinality({m \in keep : m <= n}) = k
           /\ \A n, o \in keep :
                /\ Cardinality({m \in keep : m <= n}) \in 1 .. Cardinality(keep)
                /\ Cardinality({m \in keep : m <= n}) = Cardinality({m \in keep : m <= o})
                     => n = o
<1> DEFINE upTo(n) == {m \in keep : m <= n}
<1>0. \A m \in keep : m \in Nat /\ 1 <= m /\ m <= N
  OBVIOUS
<1>1. IsFiniteSet(keep) /\ Cardinality(keep) \in Nat
  <2>1. IsFiniteSet(1 .. N)
    BY FS_Interval
  <2>2. IsFiniteSet(keep)
    BY <2>1, FS_Subset
  <2> QED
    BY <2>2, FS_CardinalityType
<1>2. ASSUME NEW n \in Int PROVE IsFiniteSet(upTo(n)) /\ Cardinality(upTo(n)) \in Nat
  <2>1. upTo(n) \subseteq keep
    OBVIOUS
  <2> HIDE DEF upTo
  <2>2. IsFiniteSet(upTo(n))
    BY <1>1, <2>1, FS_Subset
  <2> QED
    BY <2>2, FS_CardinalityType
<1>3. upTo(0) = {} /\ upTo(N) = keep
  <2>1. \A m \in keep : ~ (m <= 0) /\ m <= N
    BY <1>0
  <2> QED
    BY <2>1, Zenon
<1>4. ASSUME NEW n \in Nat \ {0}, n \notin keep PROVE upTo(n) = upTo(n - 1)
  <2>1. \A m \in keep : m <= n <=> m <= n - 1
    BY <1>0, <1>4
  <2> QED
    BY <2>1, Zenon
<1>5. ASSUME NEW n \in Nat \ {0}, n \in keep
      PROVE  upTo(n) = upTo(n - 1) \cup {n} /\ n \notin upTo(n - 1)
  <2>1. /\ \A m \in keep : m <= n <=> m <= n - 1 \/ m = n
        /\ ~ (n <= n - 1)
    BY <1>0, <1>5
  <2> QED
    BY <1>5, <2>1, ZenonT(30)
<1> HIDE DEF upTo
<1>6. ASSUME NEW k \in 1 .. Cardinality(keep)
      PROVE  \E n \in keep : Cardinality(upTo(n)) = k
  <2> DEFINE T == {n \in Nat : k <= Cardinality(upTo(n))}
  <2>1. k \in Nat /\ 1 <= k /\ N \in T
    BY <1>1, <1>3
  <2>2. PICK n \in T : \A o \in T : n <= o
    <3> HIDE DEF T
    <3>1. T \in SUBSET Nat
      BY DEF T
    <3> QED
      BY <2>1, <3>1, Least
  <2>3. n \in Nat /\ k <= Cardinality(upTo(n))
    OBVIOUS
  <2>4. n # 0
    BY <1>3, <2>1, <2>3, FS_EmptySet
  <2>5. n - 1 \in Nat /\ n - 1 < n
    BY <2>3, <2>4
  <2>6. Cardinality(upTo(n - 1)) \in Nat /\ Cardinality(upTo(n - 1)) < k
    <3>1. Cardinality(upTo(n - 1)) \in Nat
      BY <1>2, <2>5
    <3>2. n - 1 \notin T
      <4> HIDE DEF T
      <4> QED
        BY <2>2, <2>3, <2>5
    <3> QED
      BY <2>1, <2>5, <3>1, <3>2
  <2>7. n \in keep
    BY <1>4, <2>1, <2>3, <2>4, <2>6
  <2>8. Cardinality(upTo(n)) = Cardinality(upTo(n - 1)) + 1
    <3>1. upTo(n) = upTo(n - 1) \cup {n} /\ n \notin upTo(n - 1)
      BY <1>5, <2>3, <2>4, <2>7
    <3>2. IsFiniteSet(upTo(n - 1))
      BY <1>2, <2>5
    <3> QED
      BY <3>1, <3>2, FS_AddElement
  <2> QED
    BY <2>1, <2>3, <2>6, <2>7, <2>8
<1>7. ASSUME NEW n \in keep PROVE Cardinality(upTo(n)) \in 1 .. Cardinality(keep)
  <2>1. upTo(n) \subseteq keep /\ n \in upTo(n)
    BY <1>0 DEF upTo
  <2>2. Cardinality(upTo(n)) <= Cardinality(keep) /\ Cardinality(upTo(n)) \in Nat
    BY <1>1, <1>2, <1>0, <2>1, FS_Subset
  <2>3. Cardinality(upTo(n)) # 0
    BY <1>2, <1>0, <2>1, FS_EmptySet
  <2> QED
    BY <1>1, <2>2, <2>3
<1>8. ASSUME NEW n \in keep, NEW o \in keep, n < o
      PROVE  Cardinality(upTo(n)) # Cardinality(upTo(o))
  <2>1. upTo(n) \subseteq upTo(o) /\ o \in upTo(o) /\ o \notin upTo(n)
    <3>1. \A m \in keep : (m <= n => m <= o) /\ o <= o /\ ~ (o <= n)
      BY <1>0, <1>8
    <3> QED
      BY <3>1, Zenon DEF upTo
  <2>2. IsFiniteSet(upTo(n)) /\ IsFiniteSet(upTo(o))
    BY <1>2, <1>0
  <2> QED
    BY <2>1, <2>2, FS_Subset
<1>9. ASSUME NEW n \in keep, NEW o \in keep, Cardinality(upTo(n)) = Cardinality(upTo(o))
      PROVE  n = o
  BY <1>0, <1>8, <1>9
<1> QED
  BY <1>1, <1>6, <1>7, <1>9 DEF upTo

\* What is selected are the elements at the positions kept.
LEMMA Selected ==
    ASSUME NEW seq \in Seq(Items), NEW keep \in SUBSET (DOMAIN seq)
    PROVE  /\ Select[<<seq, keep>>] \in Seq(Items)
           /\ ToSet(Select[<<seq, keep>>]) = {seq[n] : n \in keep}
<1> DEFINE upTo(n) == Cardinality({m \in keep : m <= n})
           place(k) == CHOOSE n \in keep : upTo(n) = k
           size == Cardinality(keep)
<1>1. /\ IsFiniteSet(keep) /\ size \in Nat
      /\ \A k \in 1 .. size : \E n \in keep : upTo(n) = k
      /\ \A n \in keep : upTo(n) \in 1 .. size /\ n = place(upTo(n))
  <2>1. Len(seq) \in Nat /\ keep \in SUBSET (1 .. Len(seq))
    OBVIOUS
  <2> HIDE DEF place
  <2> QED
    BY <2>1, Ranks DEF place
<1>2. Select[<<seq, keep>>] = [k \in 1 .. size |-> seq[place(k)]]
  <2> DEFINE selected(s, kept) ==
               [k \in 1 .. Cardinality(kept) |->
                  s[CHOOSE n \in kept : Cardinality({m \in kept : m <= n}) = k]]
  <2>1. Select = [p \in Seq(Items) \X SUBSET Nat |-> selected(p[1], p[2])]
    BY DEF Select
  <2>2. seq \in Seq(Items) /\ keep \in SUBSET Nat
    OBVIOUS
  <2>3. selected(seq, keep) = [k \in 1 .. size |-> seq[place(k)]]
    OBVIOUS
  <2> HIDE DEF selected, place, size
  <2>4. Select[<<seq, keep>>] = selected(seq, keep)
    BY <2>1, <2>2
  <2> QED
    BY <2>3, <2>4
<1> HIDE DEF upTo, size
<1>3. \A k \in 1 .. size : place(k) \in keep
  BY <1>1
<1> HIDE DEF place
<1>4. \A n \in keep : seq[n] \in Items
  OBVIOUS
<1>5. Select[<<seq, keep>>] \in Seq(Items)
  <2>1. Select[<<seq, keep>>] \in [1 .. size -> Items]
    BY <1>2, <1>3, <1>4
  <2> QED
    BY <1>1, <2>1, SeqDef
<1>6. ToSet(Select[<<seq, keep>>]) = {seq[place(k)] : k \in 1 .. size}
  BY <1>2 DEF ToSet
<1> QED
  BY <1>1, <1>3, <1>5, <1>6

\* What is gone is filtered out of the elements of a sequence.
LEMMA Filtered ==
    ASSUME NEW seq \in Seq(Items), NEW gone
    PROVE  /\ Without(seq, gone) \in Seq(Items)
           /\ ToSet(Without(seq, gone)) = ToSet(seq) \ gone
<1> DEFINE keep == {n \in DOMAIN seq : seq[n] \notin gone}
<1>1. keep \in SUBSET (DOMAIN seq)
  OBVIOUS
<1>2. {seq[n] : n \in keep} = ToSet(seq) \ gone
  BY DEF ToSet
<1>3. Without(seq, gone) = Select[<<seq, keep>>]
  BY DEF Without
<1> HIDE DEF keep
<1> QED
  BY <1>1, <1>2, <1>3, Selected

\* A sequence without elements is the empty one.
LEMMA NoElements ==
    ASSUME NEW S, NEW seq \in Seq(S), ToSet(seq) = {}
    PROVE  seq = <<>>
<1>1. Len(seq) \in Nat /\ DOMAIN seq = 1 .. Len(seq)
  OBVIOUS
<1>2. \A n \in DOMAIN seq : seq[n] \in ToSet(seq)
  BY DEF ToSet
<1>3. Len(seq) = 0
  BY <1>1, <1>2
<1> QED
  BY <1>3

\* What is left to interpret is what is claimed and what is pending and not done.
LEMMA LeftToDo ==
    ASSUME NEW q \in Queues
    PROVE  /\ Todo(q) \in Seq(Items)
           /\ ToSet(Todo(q)) = ToSet(q.inFlight) \cup (ToSet(q.pending) \ q.done)
<1> DEFINE rest == Without(q.pending, q.done)
           left == q.inFlight \o rest
           keep == {n \in DOMAIN left : \A m \in 1 .. n - 1 : left[m] # left[n]}
<1>1. /\ q.inFlight \in Seq(Items) /\ rest \in Seq(Items)
      /\ ToSet(rest) = ToSet(q.pending) \ q.done
  BY Filtered DEF Queues
<1> HIDE DEF rest
<1>2. left \in Seq(Items) /\ DOMAIN left = 1 .. Len(left) /\ Len(left) \in Nat
  BY <1>1
<1>3. ToSet(left) = ToSet(q.inFlight) \cup ToSet(rest)
  <2>1. Len(q.inFlight) \in Nat /\ Len(rest) \in Nat /\ Len(left) = Len(q.inFlight) + Len(rest)
    BY <1>1
  <2>2. /\ \A n \in 1 .. Len(q.inFlight) : left[n] = q.inFlight[n]
        /\ \A n \in 1 .. Len(rest) : left[Len(q.inFlight) + n] = rest[n]
    BY <1>1
  <2> HIDE DEF left
  <2>3. ASSUME NEW n \in DOMAIN left PROVE left[n] \in ToSet(q.inFlight) \cup ToSet(rest)
    <3>1. CASE n <= Len(q.inFlight)
      BY <1>1, <1>2, <2>1, <2>2, <3>1 DEF ToSet
    <3>2. CASE n > Len(q.inFlight)
      <4>1. n - Len(q.inFlight) \in 1 .. Len(rest)
        BY <1>2, <2>1, <3>2
      <4>2. left[n] = rest[n - Len(q.inFlight)]
        BY <1>2, <2>1, <2>2, <4>1
      <4> QED
        BY <1>1, <4>1, <4>2 DEF ToSet
    <3> QED
      BY <1>2, <2>1, <3>1, <3>2
  <2>4. ASSUME NEW n \in DOMAIN q.inFlight PROVE q.inFlight[n] \in ToSet(left)
    <3>1. n \in DOMAIN left /\ n \in 1 .. Len(q.inFlight)
      BY <1>1, <1>2, <2>1
    <3>2. left[n] = q.inFlight[n]
      BY <2>2, <3>1
    <3> QED
      BY <3>1, <3>2 DEF ToSet
  <2>5. ASSUME NEW n \in DOMAIN rest PROVE rest[n] \in ToSet(left)
    <3>1. Len(q.inFlight) + n \in DOMAIN left /\ n \in 1 .. Len(rest)
      BY <1>1, <1>2, <2>1
    <3> QED
      BY <2>2, <3>1 DEF ToSet
  <2> QED
    BY <2>3, <2>4, <2>5 DEF ToSet
<1> HIDE DEF left
<1>4. ASSUME NEW n \in DOMAIN left PROVE \E o \in keep : left[o] = left[n]
  <2> DEFINE same == {m \in DOMAIN left : left[m] = left[n]}
  <2>1. same \in SUBSET Nat /\ n \in same
    BY <1>2
  <2>2. PICK o \in same : \A m \in same : o <= m
    <3> HIDE DEF same
    <3> QED
      BY <2>1, Least
  <2>3. o \in DOMAIN left /\ left[o] = left[n]
    OBVIOUS
  <2>4. ASSUME NEW m \in 1 .. o - 1 PROVE left[m] # left[o]
    BY <1>2, <2>2, <2>3
  <2> QED
    BY <2>3, <2>4
<1>5. keep \in SUBSET (DOMAIN left) /\ {left[n] : n \in keep} = ToSet(left)
  BY <1>4 DEF ToSet
<1>6. Todo(q) = Select[<<left, keep>>]
  BY DEF Todo, left, rest
<1> HIDE DEF keep
<1> QED
  BY <1>1, <1>2, <1>3, <1>5, <1>6, Selected

-------------------------------------------------------------------------------
(* Queues *)

\* There are finitely many observations.
LEMMA ItemsAreFinite ==
    /\ IsFiniteSet(Items)
    /\ \A S \in SUBSET Items : IsFiniteSet(S) /\ Cardinality(S) \in Nat
<1>1. IsFiniteSet(Sources) /\ IsFiniteSet(1 .. ItemsPerSource)
  BY FS_Interval, InterpretationAssumption DEF Sources
<1>2. IsFiniteSet(Items)
  BY <1>1, FS_Product DEF Items
<1> QED
  BY <1>2, FS_Subset, FS_CardinalityType

\* The types of the budget and of the clock.
Budgets == [reserved : SUBSET Items, settled : Nat, receipt : BOOLEAN]
Clocks == [claims : Nat, stale : Nat]

\* The elements of a sequence of observations are observations.
LEMMA ElementsAreItems ==
    ASSUME NEW seq \in Seq(Items)
    PROVE  ToSet(seq) \in SUBSET Items
BY DEF ToSet

\* The queue of an absent source is an empty one.
LEMMA EmptyQueue == NoQueue \in Queues
BY DEF NoQueue, Queues, QueueStatuses

\* readInterpretationQueue gives a queue, and so does an event without observations.
LEMMA LoadedIsQueue ==
    ASSUME queue \in [Sources -> Queues], NEW s \in Sources
    PROVE  /\ Loaded(s) \in Queues
           /\ Reporting(s) \in Queues
<1>1. queue[s] \in Queues
  OBVIOUS
<1>2. ASSUME NEW q \in Queues, NEW status \in QueueStatuses
      PROVE  [q EXCEPT !.status = status] \in Queues
  BY DEF Queues
<1> QED
  BY <1>1, <1>2, EmptyQueue DEF Loaded, Reporting, QueueStatuses

\* Observations merge into a queue.
LEMMA MergedIsQueue ==
    ASSUME NEW q \in Queues, NEW incoming \in Seq(Items)
    PROVE  Merge(q, incoming) \in Queues
<1> DEFINE pending == q.pending \o Without(incoming, ToSet(q.pending))
           status == IF pending # <<>> THEN "pending" ELSE "completed"
<1>1. pending \in Seq(Items)
  BY Filtered DEF Queues
<1>2. status \in QueueStatuses
  BY DEF QueueStatuses, FinalStatuses
<1>3. Merge(q, incoming) = [q EXCEPT !.pending = pending, !.status = status]
  BY DEF Merge
<1> HIDE DEF pending, status
<1> QED
  BY <1>1, <1>2, <1>3 DEF Queues

\* What applyDiscoveryInterpretationProgress makes of a queue: nothing that is
\* claimed or done stays pending.
Progressed(next, q, claimed, results, status) ==
    /\ next \in Queues /\ next.status = status /\ next.inFlight = claimed
    /\ next.done = q.done \cup results
    /\ ToSet(next.pending) = ToSet(q.pending) \ (ToSet(claimed) \cup q.done \cup results)

\* Progress is what Progressed says.
LEMMA ProgressedQueue ==
    ASSUME NEW q \in Queues, NEW claimed \in Seq(Items), NEW results \in SUBSET Items,
           NEW status \in QueueStatuses, clock \in Clocks
    PROVE  Progressed(Progress(q, claimed, results, status), q, claimed, results, status)
<1> DEFINE done == q.done \cup results
           pending == Without(q.pending, ToSet(claimed) \cup done)
           claimedAt == IF claimed # <<>> THEN clock.claims + 1 ELSE 0
<1>1. /\ pending \in Seq(Items)
      /\ ToSet(pending) = ToSet(q.pending) \ (ToSet(claimed) \cup done)
  BY Filtered DEF Queues
<1>2. done \in SUBSET Items /\ claimedAt \in Nat
  BY DEF Queues, Clocks
<1> DEFINE next == Progress(q, claimed, results, status)
<1>3. next = [q EXCEPT !.pending = pending, !.inFlight = claimed, !.done = done,
                  !.claimedAt = claimedAt, !.status = status]
  BY DEF Progress
<1> HIDE DEF pending, claimedAt
<1>4. q = [pending |-> q.pending, inFlight |-> q.inFlight, done |-> q.done,
           claimedAt |-> q.claimedAt, status |-> q.status]
  BY DEF Queues
<1>5. next = [pending |-> pending, inFlight |-> claimed, done |-> done,
         claimedAt |-> claimedAt, status |-> status]
  BY <1>3, <1>4, Zenon
<1> HIDE DEF done, next
<1>6. Progressed(next, q, claimed, results, status)
  BY <1>1, <1>2, <1>5 DEF Progressed, Queues, done
<1> QED
  BY <1>6 DEF next

\* The waiting items of a queue are given up.
LEMMA GivenUpQueue ==
    ASSUME NEW q \in Queues, NEW status \in QueueStatuses, clock \in Clocks,
           NEW next, next = GiveUp(q, status)
    PROVE  /\ next \in Queues /\ next.status = status
           /\ next.inFlight = <<>> /\ next.pending = <<>>
<1>1. Queued(q) \in SUBSET Items /\ <<>> \in Seq(Items)
  BY ElementsAreItems DEF Queued, Queues
<1>2. next = Progress(q, <<>>, Queued(q), status)
  BY DEF GiveUp
<1>3. Progressed(next, q, <<>>, Queued(q), status)
  BY <1>1, <1>2, ProgressedQueue
<1>4. ToSet(next.pending) = {} /\ next.pending \in Seq(Items)
  BY <1>3 DEF Progressed, Queued, Queues
<1> QED
  BY <1>3, <1>4, NoElements DEF Progressed

\* As many calls as are left, and besides those the queue has reserved.
LEMMA CallsLeft ==
    ASSUME budget \in Budgets, NEW q \in Queues
    PROVE  Remaining \in Nat /\ RemainingFor(q) \in Nat
<1>1. Cardinality(budget.reserved) \in Nat /\ budget.settled \in Nat /\ MaxCalls \in Nat
  BY ItemsAreFinite, InterpretationAssumption DEF Budgets
<1>2. Remaining \in Nat
  BY <1>1 DEF Remaining, Larger
<1> DEFINE waiting == q.inFlight \o q.pending
           paid == {n \in DOMAIN waiting : waiting[n] \in budget.reserved}
<1>3. waiting \in Seq(Items)
  BY DEF Queues
<1>4. DOMAIN waiting = 1 .. Len(waiting) /\ Len(waiting) \in Nat /\ paid \subseteq DOMAIN waiting
  <2> HIDE DEF waiting
  <2> QED
    BY <1>3
<1>5. RemainingFor(q) = Remaining + Cardinality(paid)
  BY DEF RemainingFor
<1> HIDE DEF waiting, paid
<1>6. Cardinality(paid) \in Nat
  <2>1. IsFiniteSet(DOMAIN waiting)
    BY <1>4, FS_Interval
  <2>2. IsFiniteSet(paid)
    BY <1>4, <2>1, FS_Subset
  <2> QED
    BY <2>2, FS_CardinalityType
<1> QED
  BY <1>2, <1>5, <1>6

\* A batch is the beginning of what is left to do, and not empty if calls are left.
LEMMA BatchIsDue ==
    ASSUME budget \in Budgets, NEW q \in Queues
    PROVE  /\ Batch(q) \in Seq(Items)
           /\ ToSet(Batch(q)) \subseteq ToSet(Todo(q))
           /\ RemainingFor(q) # 0 /\ Todo(q) # <<>> => Batch(q) # <<>>
<1> DEFINE todo == Todo(q)
           last == {k \in 1 .. BatchSize : k <= Len(todo) /\ k <= RemainingFor(q)}
<1>1. todo \in Seq(Items) /\ Len(todo) \in Nat /\ DOMAIN todo = 1 .. Len(todo)
  <2>1. todo \in Seq(Items)
    BY LeftToDo
  <2> HIDE DEF todo
  <2> QED
    BY <2>1
<1>2. RemainingFor(q) \in Nat /\ BatchSize \in Nat /\ BatchSize # 0
  BY CallsLeft, InterpretationAssumption
<1>3. Batch(q) = [n \in last |-> todo[n]]
  BY DEF Batch
<1> HIDE DEF todo
<1>4. PICK size \in Nat :
        /\ last = 1 .. size /\ size <= Len(todo)
        /\ RemainingFor(q) # 0 /\ Len(todo) # 0 => size # 0
  <2> DEFINE least(a, b) == IF a <= b THEN a ELSE b
             size == least(BatchSize, least(Len(todo), RemainingFor(q)))
  <2>1. /\ size \in Nat /\ size <= Len(todo)
        /\ RemainingFor(q) # 0 /\ Len(todo) # 0 => size # 0
    BY <1>1, <1>2
  <2>2. ASSUME NEW k \in Nat
        PROVE  k <= size <=> k <= BatchSize /\ k <= Len(todo) /\ k <= RemainingFor(q)
    BY <1>1, <1>2
  <2> HIDE DEF size
  <2>3. ASSUME NEW k PROVE k \in last <=> k \in 1 .. size
    BY <1>2, <2>1, <2>2
  <2> HIDE DEF last
  <2>4. last = 1 .. size
    BY <2>3
  <2> QED
    BY <2>1, <2>4
<1> HIDE DEF last
<1>5. /\ DOMAIN Batch(q) = 1 .. size
      /\ \A n \in 1 .. size : n \in DOMAIN todo /\ Batch(q)[n] = todo[n] /\ todo[n] \in Items
  BY <1>1, <1>3, <1>4
<1>6. Batch(q) \in [1 .. size -> Items]
  BY <1>3, <1>4, <1>5
<1>7. RemainingFor(q) # 0 /\ todo # <<>> => Batch(q) # <<>>
  <2>1. todo # <<>> => Len(todo) # 0
    BY <1>1
  <2>2. size # 0 => Batch(q) # <<>>
    BY <1>5
  <2> QED
    BY <1>4, <2>1, <2>2
<1> QED
  BY <1>4, <1>5, <1>6, <1>7, SeqDef DEF ToSet, todo

\* What the status of a queue says of its items.  A claimed queue has nothing
\* pending that is done: a claim drops it, and a report ends the status.
Sound(q) ==
    /\ q.status \in {"completed", "cancelled"} => q.pending = <<>>
    /\ q.status = "cancelled" => q.inFlight = <<>>
    /\ q.status = "pending" => q.pending # <<>>
    /\ q.status = "continuing" =>
         /\ q.inFlight # <<>>
         /\ ToSet(q.pending) \cap (q.done \cup ToSet(q.inFlight)) = {}

\* A tick that calls the model works on the claim it loaded.
Calling(t) ==
    /\ Sound(t.queue) /\ t.queue.status = "continuing"
    /\ t.results \subseteq ToSet(t.queue.inFlight)
    /\ ToSet(t.todo) \subseteq ToSet(t.queue.inFlight)

NotQueued == {"absent", "unqueued"}

\* What a tick writes is a queue; after calls it is released, completed only if
\* nothing was pending beside the claim, and pending only if something is.
LEMMA OutcomeIsQueue ==
    ASSUME NEW t \in Ticks, clock \in Clocks, t.phase # "settling" => Calling(t),
           NEW next, next = Outcome(t)
    PROVE  /\ next \in Queues
           /\ IF t.phase = "settling"
              THEN next = t.queue
              ELSE next.inFlight = <<>> /\ Sound(next) /\ next.status \notin NotQueued
<1>1. t.queue \in Queues /\ t.todo \in Seq(Items) /\ t.results \in SUBSET Items
  BY DEF Ticks
<1>2. CASE t.phase = "settling"
  BY <1>1, <1>2 DEF Outcome
<1>3. CASE t.phase # "settling" /\ t.todo = <<>> /\ ~ t.noReceipt
  <2> DEFINE status == IF t.queue.pending # <<>> THEN "pending" ELSE "completed"
  <2>1. next = Progress(t.queue, <<>>, t.results, status)
    BY <1>3 DEF Outcome
  <2>2. status \in QueueStatuses /\ <<>> \in Seq(Items)
    BY DEF QueueStatuses, FinalStatuses
  <2>3. status = IF t.queue.pending # <<>> THEN "pending" ELSE "completed"
    OBVIOUS
  <2> HIDE DEF status
  <2>4. Progressed(next, t.queue, <<>>, t.results, status)
    BY <1>1, <2>1, <2>2, ProgressedQueue
  <2>5. next.pending \in Seq(Items) /\ next.status = status /\ next.inFlight = <<>>
    BY <2>4 DEF Progressed, Queues
  <2>6. ToSet(next.pending) = ToSet(t.queue.pending)
    <3>1. ToSet(t.queue.pending) \cap (t.queue.done \cup t.results \cup ToSet(<<>>)) = {}
      BY <1>3 DEF Calling, Sound, ToSet
    <3> QED
      BY <2>4, <3>1 DEF Progressed
  <2>7. CASE t.queue.pending = <<>>
    <3>1. ToSet(t.queue.pending) = {}
      BY <2>7 DEF ToSet
    <3>2. next.pending = <<>> /\ status = "completed"
      BY <2>3, <2>5, <2>6, <2>7, <3>1, NoElements
    <3> QED
      BY <1>3, <2>4, <2>5, <3>2 DEF Progressed, Sound, NotQueued
  <2>8. CASE t.queue.pending # <<>>
    <3>1. ToSet(t.queue.pending) # {} /\ status = "pending"
      <4>1. t.queue.pending \in Seq(Items)
        BY <1>1 DEF Queues
      <4> QED
        BY <2>3, <2>8, <4>1, NoElements
    <3>2. next.pending # <<>>
      <4>1. ToSet(<<>>) = {}
        BY DEF ToSet
      <4> QED
        BY <2>6, <3>1, <4>1
    <3> QED
      BY <1>3, <2>4, <2>5, <3>1, <3>2 DEF Progressed, Sound, NotQueued
  <2> QED
    BY <2>7, <2>8
<1>4. CASE t.phase # "settling" /\ ~ (t.todo = <<>> /\ ~ t.noReceipt)
  <2> DEFINE status == IF t.noReceipt THEN "unavailable" ELSE "pending"
             left == Progress(t.queue, <<>>, t.results, status)
  <2>1. next = [left EXCEPT !.pending = left.pending \o t.todo]
    BY <1>4 DEF Outcome
  <2>2. status \in QueueStatuses /\ <<>> \in Seq(Items)
    BY DEF QueueStatuses, FinalStatuses
  <2>3. status \in {"unavailable", "pending"} /\ (status = "pending" => t.todo # <<>>)
    BY <1>4
  <2> HIDE DEF status
  <2>4. Progressed(left, t.queue, <<>>, t.results, status)
    BY <1>1, <2>2, ProgressedQueue
  <2> HIDE DEF left
  <2>5. left \in Queues /\ left.status = status /\ left.inFlight = <<>>
    BY <2>4 DEF Progressed
  <2>6. left.pending \o t.todo \in Seq(Items) /\ (status = "pending" => left.pending \o t.todo # <<>>)
    <3>1. left.pending \in Seq(Items)
      BY <2>5 DEF Queues
    <3>2. ASSUME NEW a \in Seq(Items), NEW b \in Seq(Items)
          PROVE  a \o b \in Seq(Items) /\ (b # <<>> => a \o b # <<>>)
      <4>1. Len(a) \in Nat /\ Len(b) \in Nat /\ Len(a \o b) = Len(a) + Len(b)
        OBVIOUS
      <4>2. b # <<>> => Len(b) # 0
        OBVIOUS
      <4>3. b # <<>> => Len(a \o b) # 0
        BY <4>1, <4>2
      <4> QED
        BY <4>3
    <3> QED
      BY <1>1, <2>3, <3>1, <3>2
  <2>7. ASSUME NEW q \in Queues, NEW pending \in Seq(Items)
        PROVE  LET new == [q EXCEPT !.pending = pending] IN
               /\ new \in Queues /\ new.status = q.status /\ new.inFlight = q.inFlight
               /\ new.pending = pending
    BY DEF Queues
  <2> DEFINE pending == left.pending \o t.todo
  <2> HIDE DEF pending
  <2>8. /\ next \in Queues /\ next.status = status /\ next.inFlight = <<>>
        /\ status = "pending" => next.pending # <<>>
    <3>1. next = [left EXCEPT !.pending = pending] /\ pending \in Seq(Items)
      BY <2>1, <2>6 DEF pending
    <3>2. status = "pending" => pending # <<>>
      BY <2>6 DEF pending
    <3> QED
      BY <2>5, <2>7, <3>1, <3>2
  <2> QED
    BY <1>4, <2>3, <2>8 DEF Sound, NotQueued
<1> QED
  BY <1>2, <1>3, <1>4

-------------------------------------------------------------------------------
(* What is stored in the queues, and what ticks are about to write *)

\* A claim has its reservation.
Paid(q) == ToSet(q.inFlight) \subseteq budget.reserved

\* A tick without calls holds what it is about to write.
Writing(q) == Sound(q) /\ Paid(q) /\ q.status \notin NotQueued

\* Stored queues, and those that ticks are about to write, hold what their status
\* says and claim only what is reserved.
ClaimsInv ==
    /\ \A s \in Sources : Sound(queue[s]) /\ Paid(queue[s])
    /\ \A w \in Workers : worker[w].phase = "settling" => Writing(worker[w].queue)
    /\ \A w \in Workers : worker[w].phase = "calling" => Calling(worker[w])

QueuesInv == TypeOK /\ ClaimsInv

\* An idle tick, one that settles without calls and one that calls are ticks.
LEMMA TickTypes ==
    /\ IdleWorker \in Ticks /\ IdleWorker.phase = "idle"
    /\ \A s \in Sources, q \in Queues :
         LET tick == [IdleWorker EXCEPT !.phase = "settling", !.source = s, !.queue = q]
         IN tick \in Ticks /\ tick.phase = "settling" /\ tick.queue = q
    /\ \A s \in Sources, q \in Queues, items \in Seq(Items) :
         LET tick == [IdleWorker EXCEPT !.phase = "calling", !.source = s, !.queue = q,
                                        !.todo = items]
         IN tick \in Ticks /\ tick.phase = "calling"
<1>1. 1 \in Sources
  BY InterpretationAssumption DEF Sources
<1>2. NoQueue \in Queues /\ <<>> \in Seq(Items)
  BY EmptyQueue
<1>3. IdleWorker = [phase |-> "idle", source |-> 1, queue |-> NoQueue, todo |-> <<>>,
                    results |-> {}, resolved |-> {}, noReceipt |-> FALSE]
  BY DEF IdleWorker
<1> HIDE DEF NoQueue
<1> QED
  BY <1>1, <1>2, <1>3 DEF Ticks

\* What a step has to show of the variables it writes: the queue it stores and the
\* one its tick holds are closed as they should be, and claim what is reserved.
LEMMA Written ==
    ASSUME QueuesInv,
           run' \in [status : {"running", "cancel_requested"} \cup Ended,
                     provider : BOOLEAN, finished : SUBSET Sources],
           budget' \in Budgets, budget.reserved \subseteq budget'.reserved,
           clock' \in Clocks, candidates' \in SUBSET Items, reported' \in SUBSET Items,
           reports' \in 0 .. MaxReports, faults' \in 0 .. MaxFaults,
           \/ UNCHANGED queue
           \/ \E s \in Sources, q \in Queues :
                queue' = [queue EXCEPT ![s] = q] /\ Sound(q)
                /\ ToSet(q.inFlight) \subseteq budget'.reserved,
           \/ UNCHANGED worker
           \/ \E w \in Workers, tick \in Ticks :
                /\ worker' = [worker EXCEPT ![w] = tick]
                /\ tick.phase = "settling" => Writing(tick.queue)
                /\ tick.phase = "calling" => Calling(tick)
    PROVE  QueuesInv'
<1>1. queue \in [Sources -> Queues] /\ worker \in [Workers -> Ticks]
  BY DEF QueuesInv, TypeOK
<1>2. queue' \in [Sources -> Queues]
  BY <1>1
<1>3. worker' \in [Workers -> Ticks]
  BY <1>1
<1>4. TypeOK'
  BY <1>2, <1>3 DEF TypeOK, Budgets, Clocks
<1>5. ASSUME NEW s \in Sources
      PROVE  Sound(queue'[s]) /\ ToSet(queue'[s].inFlight) \subseteq budget'.reserved
  <2>1. Sound(queue[s]) /\ ToSet(queue[s].inFlight) \subseteq budget'.reserved
    BY DEF QueuesInv, ClaimsInv, Paid
  <2> QED
    BY <1>1, <2>1
<1>6. ASSUME NEW w \in Workers, worker'[w].phase = "settling"
      PROVE  /\ Sound(worker'[w].queue) /\ worker'[w].queue.status \notin NotQueued
             /\ ToSet(worker'[w].queue.inFlight) \subseteq budget'.reserved
  <2>1. CASE worker'[w] = worker[w]
    BY <1>6, <2>1 DEF QueuesInv, ClaimsInv, Writing, Paid
  <2>2. CASE worker'[w] # worker[w]
    <3>1. Writing(worker'[w].queue)
      BY <1>1, <1>6, <2>2
    <3> QED
      BY <3>1 DEF Writing, Paid
  <2> QED
    BY <2>1, <2>2
<1>7. ASSUME NEW w \in Workers, worker'[w].phase = "calling" PROVE Calling(worker'[w])
  <2>1. CASE worker'[w] = worker[w]
    BY <1>7, <2>1 DEF QueuesInv, ClaimsInv
  <2>2. CASE worker'[w] # worker[w]
    BY <1>1, <1>7, <2>2
  <2> QED
    BY <2>1, <2>2
<1>8. ClaimsInv'
  <2>1. \A s \in Sources : Sound(queue'[s]) /\ Paid(queue[s])'
    BY <1>5 DEF Paid
  <2>2. \A w \in Workers : worker'[w].phase = "settling" => Writing(worker[w].queue)'
    BY <1>6 DEF Writing, Paid, Sound
  <2>3. \A w \in Workers : worker'[w].phase = "calling" => Calling(worker'[w])
    BY <1>7
  <2> QED
    BY <2>1, <2>2, <2>3 DEF ClaimsInv, Sound, Calling
<1> QED
  BY <1>4, <1>8 DEF QueuesInv

\* TypeOK, variable by variable, with the bounds as numbers.
Types ==
    /\ run \in [status : {"running", "cancel_requested"} \cup Ended,
                provider : BOOLEAN, finished : SUBSET Sources]
    /\ queue \in [Sources -> Queues]
    /\ budget \in Budgets
    /\ worker \in [Workers -> Ticks]
    /\ clock \in Clocks
    /\ candidates \in SUBSET Items
    /\ reported \in SUBSET Items
    /\ reports \in Nat /\ reports \in 0 .. MaxReports
    /\ faults \in Nat /\ faults \in 0 .. MaxFaults
    /\ MaxReports \in Nat /\ MaxFaults \in Nat

\* The invariant has the types.
LEMMA TypesOf == ASSUME QueuesInv PROVE Types
BY InterpretationAssumption DEF QueuesInv, TypeOK, Types, Budgets, Clocks

\* The observations of an event form a sequence.
LEMMA ReportedItems ==
    ASSUME NEW s \in Sources, NEW first \in 1 .. ItemsPerSource,
           NEW last \in 0 .. ItemsPerSource
    PROVE  [n \in 1 .. last - first + 1 |-> <<s, first + n - 1>>] \in Seq(Items)
<1> DEFINE events == [n \in 1 .. last - first + 1 |-> <<s, first + n - 1>>]
<1>1. ItemsPerSource \in Nat
  BY InterpretationAssumption
<1>2. PICK size \in Nat : 1 .. last - first + 1 = 1 .. size
  <2>1. CASE last - first + 1 >= 0
    <3>1. last - first + 1 \in Nat
      BY <1>1, <2>1
    <3> QED
      BY <3>1
  <2>2. CASE last - first + 1 < 0
    <3>1. 1 .. last - first + 1 = 1 .. 0
      BY <1>1, <2>2
    <3> QED
      BY <3>1
  <2> QED
    BY <1>1, <2>1, <2>2
<1>3. ASSUME NEW n \in 1 .. last - first + 1 PROVE <<s, first + n - 1>> \in Items
  BY <1>1 DEF Items
<1>4. events \in [1 .. size -> Items]
  BY <1>2, <1>3
<1> HIDE DEF events
<1>5. events \in UNION {[1 .. n -> Items] : n \in Nat}
  BY <1>4
<1>6. events \in Seq(Items)
  BY <1>5, SeqDef
<1> QED
  BY <1>6 DEF events

\* Callbacks merge observations into a queue, or only mark it.
LEMMA CallbackKeeps == ASSUME QueuesInv, Callback PROVE QueuesInv'
<1> USE TypesOf
<1>1. ASSUME NEW s \in Sources PROVE queue[s] \in Queues /\ Sound(queue[s]) /\ Paid(queue[s])
  BY DEF Types, QueuesInv, ClaimsInv
<1>2. ASSUME NEW s \in Sources, NEW first \in 1 .. ItemsPerSource,
             NEW last \in 0 .. ItemsPerSource, Report(s, first, last)
      PROVE  QueuesInv'
  <2> DEFINE incoming == [n \in 1 .. last - first + 1 |-> <<s, first + n - 1>>]
             q == Merge(queue[s], incoming)
  <2>1. incoming \in Seq(Items)
    BY ReportedItems
  <2>2. ToSet(incoming) \in SUBSET Items
    BY <2>1, ElementsAreItems
  <2>3. /\ reports < MaxReports /\ reports' = reports + 1
        /\ run' = [run EXCEPT !.finished = run.finished \ {s}]
        /\ queue' = [queue EXCEPT ![s] = q]
        /\ reported' = reported \cup ToSet(incoming)
        /\ UNCHANGED <<budget, worker, clock, candidates, faults>>
    BY <1>2 DEF Report
  <2>4. /\ q.inFlight = queue[s].inFlight
        /\ q.status = IF q.pending # <<>> THEN "pending" ELSE "completed"
    BY <1>1 DEF Merge, Queues
  <2>5. q \in Queues
    BY <1>1, <2>1, MergedIsQueue
  <2> HIDE DEF q, incoming
  <2>6. Sound(q) /\ ToSet(q.inFlight) \subseteq budget'.reserved
    BY <1>1, <2>3, <2>4 DEF Sound, Paid
  <2>7. /\ run' \in [status : {"running", "cancel_requested"} \cup Ended,
                     provider : BOOLEAN, finished : SUBSET Sources]
        /\ reports' \in 0 .. MaxReports
    BY <2>3 DEF Types
  <2>8. reported' \in SUBSET Items
    BY <2>2, <2>3 DEF Types
  <2> QED
    BY <2>3, <2>5, <2>6, <2>7, <2>8, Written DEF Types
<1>3. ASSUME NEW s \in Sources, Checkpoint(s) \/ Complete(s) PROVE QueuesInv'
  <2>1. queue' = [queue EXCEPT ![s] = Reporting(s)]
    BY <1>3 DEF Checkpoint, Complete
  <2>2. Reporting(s) \in Queues
    BY LoadedIsQueue DEF Types
  <2>3. Sound(Reporting(s)) /\ ToSet(Reporting(s).inFlight) \subseteq budget.reserved
    BY <1>1 DEF Reporting, Sound, Paid, NoQueue, ToSet
  <2>4. /\ run' \in [status : {"running", "cancel_requested"} \cup Ended,
                     provider : BOOLEAN, finished : SUBSET Sources]
        /\ reports' \in 0 .. MaxReports
    <3>1. CASE Checkpoint(s)
      BY <3>1 DEF Checkpoint, Types
    <3>2. CASE Complete(s)
      BY <3>2 DEF Complete, Types, Ended
    <3> QED
      BY <1>3, <3>1, <3>2
  <2>5. UNCHANGED <<budget, worker, clock, candidates, reported, faults>>
    BY <1>3 DEF Checkpoint, Complete
  <2> QED
    BY <2>1, <2>2, <2>3, <2>4, <2>5, Written DEF Types
<1> QED
  BY <1>2, <1>3 DEF Callback

\* Commands, the collector's end and time touch no queue.
LEMMA OthersKeep ==
    ASSUME QueuesInv, Cancel \/ EndElsewhere \/ ClaimsLapse \/ UNCHANGED vars
    PROVE  QueuesInv'
<1> USE TypesOf
<1>1. CASE Cancel
  BY <1>1, Written DEF Cancel, Types, Ended
<1>2. CASE EndElsewhere
  BY <1>2, Written DEF EndElsewhere, Types, Ended
<1>3. CASE ClaimsLapse
  <2>1. clock' \in Clocks
    BY <1>3 DEF ClaimsLapse, Types, Clocks
  <2> QED
    BY <1>3, <2>1, Written DEF ClaimsLapse, Types
<1>4. CASE UNCHANGED vars
  BY <1>4, Written DEF vars, Types
<1> QED
  BY <1>1, <1>2, <1>3, <1>4

\* A source that ticks has a queue that can be worked on.
LEMMA LoadedIsHeld ==
    ASSUME QueuesInv, NEW s \in Sources
    PROVE  /\ Loaded(s) \in Queues /\ Paid(Loaded(s)) /\ Loaded(s).status \notin NotQueued
           /\ Loaded(s).status = "continuing" => Sound(Loaded(s))
<1>1. queue[s] \in Queues /\ Sound(queue[s]) /\ Paid(queue[s])
  BY TypesOf DEF Types, QueuesInv, ClaimsInv
<1>2. Loaded(s) \in Queues
  BY TypesOf, LoadedIsQueue DEF Types
<1>3. \/ Loaded(s) = queue[s] /\ Loaded(s).status \notin NotQueued
      \/ Loaded(s).status = "pending" /\ Loaded(s).inFlight = queue[s].inFlight
  BY <1>1 DEF Loaded, Queues, NotQueued
<1> QED
  BY <1>1, <1>2, <1>3 DEF Paid, NotQueued

\* A tick that has nothing to call holds the queue it will write.
LEMMA SettlingHolds ==
    ASSUME NEW w \in Workers, NEW s \in Sources, NEW q \in Queues, Settling(w, s, q)
    PROVE  \E tick \in Ticks : /\ worker' = [worker EXCEPT ![w] = tick]
                               /\ tick.phase = "settling" /\ tick.queue = q
<1> DEFINE tick == [IdleWorker EXCEPT !.phase = "settling", !.source = s, !.queue = q]
<1>1. tick \in Ticks /\ tick.phase = "settling" /\ tick.queue = q
  <2>1. tick \in Ticks
    BY TickTypes
  <2>2. tick.phase = "settling" /\ tick.queue = q
    BY DEF IdleWorker
  <2> QED
    BY <2>1, <2>2
<1>2. worker' = [worker EXCEPT ![w] = tick]
  BY DEF Settling
<1> HIDE DEF tick
<1> QED
  BY <1>1, <1>2

\* A tick without calls is about to complete a queue only if nothing in it is left
\* to do.
LEMMA TickWithoutCallsKeeps ==
    ASSUME QueuesInv, NEW w \in Workers, NEW s \in Sources, NEW available,
           TickWithoutCalls(w, s, available)
    PROVE  QueuesInv'
<1> DEFINE q == Loaded(s)
           plan == Plan(s, available)
           next == CASE plan = "cancel" -> GiveUp(q, "cancelled")
                     [] plan = "unavailable" -> GiveUp(q, "unavailable")
                     [] plan = "busy" -> q
                     [] plan = "ceiling" -> Progress(q, <<>>, {}, "ceiling")
                     [] plan = "done" -> Progress(q, <<>>, {}, "completed")
<1>1. /\ Settling(w, s, next)
      /\ plan \in {"cancel", "unavailable", "busy", "ceiling", "done"}
      /\ UNCHANGED <<run, queue, budget, clock, candidates, reported, reports, faults>>
  BY DEF TickWithoutCalls
<1>2. /\ Types /\ q \in Queues /\ Paid(q) /\ q.status \notin NotQueued
      /\ q.status = "continuing" => Sound(q)
  BY TypesOf, LoadedIsHeld
<1>3. (plan = "done" => Todo(q) = <<>>) /\ (plan = "busy" => Busy(q))
  BY ZenonT(30) DEF Plan
<1> HIDE DEF q, plan
<1>4. next \in Queues /\ Writing(next)
  <2>1. ASSUME NEW status \in {"cancelled", "unavailable"}, next = GiveUp(q, status)
        PROVE  next \in Queues /\ Writing(next)
    <3>1. /\ next \in Queues /\ next.status = status
          /\ next.inFlight = <<>> /\ next.pending = <<>>
      <4> HIDE DEF next
      <4>1. status \in QueueStatuses
        BY DEF QueueStatuses, FinalStatuses
      <4> QED
        BY <1>2, <2>1, <4>1, GivenUpQueue DEF Types
    <3> HIDE DEF next
    <3> QED
      BY <2>1, <3>1 DEF Writing, Sound, Paid, NotQueued, ToSet
  <2>2. ASSUME NEW status \in {"ceiling", "completed"}, next = Progress(q, <<>>, {}, status),
               status = "completed" => Todo(q) = <<>>
        PROVE  next \in Queues /\ Writing(next)
    <3>1. Progressed(next, q, <<>>, {}, status)
      <4> HIDE DEF next
      <4>1. /\ status \in QueueStatuses /\ <<>> \in Seq(Items)
            /\ {} \in SUBSET Items /\ clock \in Clocks
        BY <1>2 DEF Types, QueueStatuses, FinalStatuses
      <4> QED
        BY <1>2, <2>2, <4>1, ProgressedQueue
    <3> HIDE DEF next
    <3>2. next \in Queues /\ next.status = status /\ next.inFlight = <<>>
      BY <3>1 DEF Progressed
    <3>3. ASSUME status = "completed" PROVE next.pending = <<>>
      <4>1. ToSet(Todo(q)) = {}
        BY <2>2, <3>3 DEF ToSet
      <4>2. ToSet(q.pending) \ q.done = {}
        BY <1>2, <4>1, LeftToDo
      <4>3. ToSet(next.pending) = {} /\ next.pending \in Seq(Items)
        BY <3>1, <4>2 DEF Progressed, Queues
      <4> QED
        BY <4>3, NoElements
    <3> QED
      BY <2>2, <3>2, <3>3 DEF Writing, Sound, Paid, NotQueued, ToSet
  <2>3. CASE plan = "cancel"
    BY <2>1, <2>3
  <2>4. CASE plan = "unavailable"
    BY <2>1, <2>4
  <2>5. CASE plan = "busy"
    BY <1>2, <1>3, <2>5 DEF Writing, Busy
  <2>6. CASE plan = "ceiling"
    BY <2>2, <2>6
  <2>7. CASE plan = "done"
    BY <1>3, <2>2, <2>7
  <2> QED
    BY <1>1, <2>3, <2>4, <2>5, <2>6, <2>7
<1> HIDE DEF next
<1>5. PICK tick \in Ticks : /\ worker' = [worker EXCEPT ![w] = tick]
                            /\ tick.phase = "settling" /\ tick.queue = next
  BY <1>1, <1>4, SettlingHolds
<1>6. Writing(tick.queue) /\ tick.phase = "settling"
  BY <1>4, <1>5
<1> QED
  BY <1>1, <1>2, <1>5, <1>6, Written DEF Types

\* A stale claim is released, and what was pending beside it waits on.
LEMMA TickUncertainKeeps ==
    ASSUME QueuesInv, NEW w \in Workers, NEW s \in Sources, NEW available,
           TickUncertain(w, s, available)
    PROVE  QueuesInv'
<1> DEFINE q == Loaded(s)
           left == ToSet(q.pending) \ ToSet(q.inFlight)
           status == IF left # {} THEN "pending" ELSE "unavailable"
           next == Progress(q, <<>>, ToSet(q.inFlight), status)
<1>1. /\ queue' = [queue EXCEPT ![s] = next]
      /\ Settling(w, s, next)
      /\ UNCHANGED <<run, budget, clock, candidates, reported, reports, faults>>
  BY DEF TickUncertain
<1>2. Types /\ q \in Queues /\ Sound(q) /\ q.status = "continuing"
  <2>1. Busy(q)
    BY ZenonT(30) DEF TickUncertain, Plan
  <2> QED
    BY <2>1, TypesOf, LoadedIsHeld DEF Busy
<1>3. /\ status \in QueueStatuses /\ status \in {"pending", "unavailable"}
      /\ status = "pending" => left # {}
  BY DEF QueueStatuses, FinalStatuses
<1> HIDE DEF q, status
<1>4. ToSet(q.inFlight) \in SUBSET Items /\ <<>> \in Seq(Items)
  BY <1>2, ElementsAreItems DEF Queues
<1>5. Progressed(next, q, <<>>, ToSet(q.inFlight), status)
  BY <1>2, <1>3, <1>4, ProgressedQueue DEF Types
<1> HIDE DEF next
<1>6. next \in Queues /\ Writing(next)
  <2>1. ToSet(<<>>) = {}
    BY DEF ToSet
  <2>2. ToSet(next.pending) = ToSet(q.pending)
    BY <1>2, <1>5, <2>1 DEF Progressed, Sound
  <2>3. status = "pending" => next.pending # <<>>
    BY <1>3, <2>1, <2>2
  <2> QED
    BY <1>3, <1>5, <2>1, <2>3 DEF Progressed, Writing, Sound, Paid, NotQueued
<1>7. PICK tick \in Ticks : /\ worker' = [worker EXCEPT ![w] = tick]
                            /\ tick.phase = "settling" /\ tick.queue = next
  BY <1>1, <1>6, SettlingHolds
<1>8. /\ Writing(tick.queue) /\ tick.phase = "settling"
      /\ Sound(next) /\ ToSet(next.inFlight) \subseteq budget'.reserved
  BY <1>1, <1>6, <1>7 DEF Writing, Paid
<1> QED
  BY <1>1, <1>2, <1>6, <1>7, <1>8, Written DEF Types

\* A claim is stored together with its reservation, or not at all.
LEMMA TickClaimsKeeps ==
    ASSUME QueuesInv, NEW w \in Workers, NEW s \in Sources, NEW available,
           TickClaims(w, s, available)
    PROVE  QueuesInv'
<1> DEFINE q == Loaded(s)
           items == Batch(q)
           claimed == Progress(q, items, {}, "continuing")
           tick == [IdleWorker EXCEPT !.phase = "calling", !.source = s,
                                      !.queue = claimed, !.todo = items]
<1>1. /\ worker' = [worker EXCEPT ![w] = tick]
      /\ IF Reservable(items)
         THEN /\ budget' = [budget EXCEPT !.reserved = budget.reserved \cup ToSet(items)]
              /\ queue' = [queue EXCEPT ![s] = claimed]
              /\ clock' = [clock EXCEPT !.claims = clock.claims + 1]
         ELSE UNCHANGED <<budget, queue, clock>>
      /\ UNCHANGED <<run, candidates, reported, reports, faults>>
  BY DEF TickClaims
<1>2. Types /\ q \in Queues /\ RemainingFor(q) # 0 /\ Todo(q) # <<>>
  <2>1. RemainingFor(q) # 0 /\ Todo(q) # <<>>
    BY ZenonT(30) DEF TickClaims, Plan
  <2> QED
    BY <2>1, TypesOf, LoadedIsHeld
<1> HIDE DEF q
<1>3. items \in Seq(Items) /\ ToSet(items) \in SUBSET Items /\ items # <<>>
  BY <1>2, BatchIsDue, ElementsAreItems DEF Types
<1> HIDE DEF items
<1>4. Progressed(claimed, q, items, {}, "continuing")
  <2>1. "continuing" \in QueueStatuses /\ {} \in SUBSET Items /\ clock \in Clocks
    BY <1>2 DEF Types, QueueStatuses
  <2> QED
    BY <1>2, <1>3, <2>1, ProgressedQueue
<1> HIDE DEF claimed
<1>5. /\ claimed \in Queues /\ claimed.inFlight = items
      /\ Sound(claimed) /\ claimed.status = "continuing"
  BY <1>3, <1>4 DEF Progressed, Sound
<1>6. tick \in Ticks /\ tick.phase # "settling" /\ Calling(tick)
  <2>1. /\ tick \in Ticks /\ tick.phase = "calling" /\ tick.queue = claimed
        /\ tick.todo = items /\ tick.results = {}
    <3>1. tick \in Ticks
      BY <1>3, <1>5, TickTypes
    <3>2. tick.phase = "calling" /\ tick.queue = claimed /\ tick.todo = items /\ tick.results = {}
      BY DEF IdleWorker
    <3> QED
      BY <3>1, <3>2
  <2> HIDE DEF tick
  <2> QED
    BY <1>5, <2>1 DEF Calling
<1> HIDE DEF tick
<1>7. /\ budget' \in Budgets /\ budget.reserved \subseteq budget'.reserved
      /\ clock' \in Clocks
      /\ UNCHANGED queue \/ ToSet(claimed.inFlight) \subseteq budget'.reserved
      /\ UNCHANGED queue \/ queue' = [queue EXCEPT ![s] = claimed]
  <2>1. CASE Reservable(items)
    BY <1>1, <1>2, <1>3, <1>5, <2>1 DEF Types, Budgets, Clocks
  <2>2. CASE ~ Reservable(items)
    BY <1>1, <1>2, <2>2 DEF Types
  <2> QED
    BY <2>1, <2>2
<1> QED
  BY <1>1, <1>2, <1>5, <1>6, <1>7, Written DEF Types

\* The first element of a sequence and those of the rest are its elements.
LEMMA FirstAndRest ==
    ASSUME NEW seq \in Seq(Items), seq # <<>>
    PROVE  Head(seq) \in ToSet(seq) /\ ToSet(Tail(seq)) \subseteq ToSet(seq)
<1>1. /\ Len(seq) \in Nat /\ Len(seq) # 0 /\ DOMAIN seq = 1 .. Len(seq)
      /\ Head(seq) = seq[1]
  OBVIOUS
<1>2. /\ Tail(seq) \in Seq(Items) /\ Len(Tail(seq)) = Len(seq) - 1
      /\ \A n \in 1 .. Len(Tail(seq)) : Tail(seq)[n] = seq[n + 1]
  BY HeadTailProperties
<1>3. DOMAIN Tail(seq) = 1 .. Len(Tail(seq))
  BY <1>2
<1>4. ASSUME NEW n \in DOMAIN Tail(seq) PROVE Tail(seq)[n] \in ToSet(seq)
  <2>1. n + 1 \in DOMAIN seq /\ Tail(seq)[n] = seq[n + 1]
    BY <1>1, <1>2, <1>3
  <2> QED
    BY <2>1 DEF ToSet
<1>5. Head(seq) \in ToSet(seq)
  <2>1. 1 \in DOMAIN seq
    BY <1>1
  <2> QED
    BY <1>1, <2>1 DEF ToSet
<1> QED
  BY <1>4, <1>5 DEF ToSet

\* Calls change the tick's own lists.
LEMMA CallModelKeeps ==
    ASSUME QueuesInv, NEW w \in Workers,
           NEW outcome \in {"grounded", "rejected", "no receipt"}, CallModel(w, outcome)
    PROVE  QueuesInv'
<1> DEFINE t == worker[w]
           i == Head(t.todo)
           grounded == IF outcome = "grounded" THEN {i} ELSE {}
           tick == [t EXCEPT !.todo = Tail(t.todo), !.results = t.results \cup {i},
                             !.resolved = t.resolved \cup grounded,
                             !.noReceipt = outcome = "no receipt"]
<1>1. /\ t.phase = "calling" /\ t.todo # <<>>
      /\ worker' = [worker EXCEPT ![w] = tick]
      /\ UNCHANGED <<run, queue, budget, clock, candidates, reported, reports, faults>>
  BY DEF CallModel
<1>2. Types /\ t \in Ticks /\ Calling(t)
  BY <1>1, TypesOf DEF Types, QueuesInv, ClaimsInv
<1>3. i \in Items /\ Tail(t.todo) \in Seq(Items)
  <2> DEFINE todo == t.todo
  <2>1. todo \in Seq(Items) /\ todo # <<>>
    BY <1>1, <1>2 DEF Ticks
  <2> HIDE DEF todo
  <2>2. Head(todo) \in Items /\ Tail(todo) \in Seq(Items)
    BY <2>1, HeadTailProperties
  <2> QED
    BY <2>2 DEF todo
<1>4. grounded \in SUBSET Items
  BY <1>3
<1> HIDE DEF t, i, grounded
<1>5. /\ tick \in Ticks /\ tick.phase = "calling" /\ tick.queue = t.queue
      /\ tick.todo = Tail(t.todo) /\ tick.results = t.results \cup {i}
  BY <1>1, <1>2, <1>3, <1>4 DEF Ticks
<1> HIDE DEF tick
<1>6. i \in ToSet(t.todo) /\ ToSet(Tail(t.todo)) \subseteq ToSet(t.todo)
  BY <1>1, <1>2, FirstAndRest DEF Ticks, i
<1>7. Calling(tick)
  BY <1>2, <1>5, <1>6 DEF Calling
<1> QED
  BY <1>1, <1>2, <1>5, <1>7, Written DEF Types

\* A tick that dies leaves its claim and its reservation behind.
LEMMA TickDiesKeeps ==
    ASSUME QueuesInv, NEW w \in Workers, TickDies(w)
    PROVE  QueuesInv'
<1>1. Types /\ IdleWorker \in Ticks /\ IdleWorker.phase = "idle"
  BY TypesOf, TickTypes
<1>2. /\ faults < MaxFaults /\ faults' = faults + 1
      /\ worker' = [worker EXCEPT ![w] = IdleWorker]
      /\ UNCHANGED <<run, queue, budget, clock, candidates, reported, reports>>
  BY DEF TickDies
<1>3. faults' \in 0 .. MaxFaults
  BY <1>1, <1>2 DEF Types
<1> QED
  BY <1>1, <1>2, <1>3, Written DEF Types

\* The queue a tick writes back in its second transaction.
WrittenBack(w) ==
    IF run.status = "cancel_requested" THEN GiveUp(Outcome(worker[w]), "cancelled")
                                       ELSE Outcome(worker[w])

\* What a tick writes back claims nothing, or what it found claimed.
LEMMA WrittenBackQueue ==
    ASSUME QueuesInv, NEW w \in Workers, worker[w].phase # "idle"
    PROVE  WrittenBack(w) \in Queues /\ Writing(WrittenBack(w))
<1> DEFINE t == worker[w]
           cancelled == run.status = "cancel_requested"
           written == Outcome(t)
           q == WrittenBack(w)
<1>1. Types /\ t \in Ticks
  BY TypesOf DEF Types
<1>2. (t.phase = "settling" => Writing(t.queue)) /\ (t.phase # "settling" => Calling(t))
  BY <1>1 DEF Ticks, QueuesInv, ClaimsInv
<1>3. q = IF cancelled THEN GiveUp(written, "cancelled") ELSE written
  BY DEF WrittenBack
<1> HIDE DEF t, q, cancelled
<1>4. written \in Queues /\ Writing(written)
  <2>1. /\ written \in Queues
        /\ IF t.phase = "settling"
           THEN written = t.queue
           ELSE /\ written.inFlight = <<>> /\ Sound(written)
                /\ written.status \notin NotQueued
    <3> HIDE DEF written
    <3>1. written = Outcome(t)
      BY DEF written
    <3> QED
      BY <1>1, <1>2, <3>1, OutcomeIsQueue DEF Types
  <2> HIDE DEF written
  <2> QED
    BY <1>2, <2>1 DEF Writing, Paid, ToSet
<1> HIDE DEF written
<1>5. CASE cancelled
  <2>1. q = GiveUp(written, "cancelled") /\ "cancelled" \in QueueStatuses
    BY <1>3, <1>5 DEF QueueStatuses, FinalStatuses
  <2>2. /\ q \in Queues /\ q.status = "cancelled"
        /\ q.inFlight = <<>> /\ q.pending = <<>>
    BY <1>1, <1>4, <2>1, GivenUpQueue DEF Types
  <2>3. Writing(q)
    BY <2>2 DEF Writing, Sound, Paid, NotQueued, ToSet
  <2> QED
    BY <2>2, <2>3 DEF q
<1>6. CASE ~ cancelled
  BY <1>3, <1>4, <1>6 DEF q
<1> QED
  BY <1>5, <1>6

\* A tick that settles writes its queue, its budget and maybe the end of the run.
LEMMA TickSettlesKeeps ==
    ASSUME QueuesInv, NEW w \in Workers, TickSettles(w)
    PROVE  QueuesInv'
<1> DEFINE t == worker[w]
           q == WrittenBack(w)
           next == [queue EXCEPT ![t.source] = q]
           ended == [run EXCEPT !.status = IF run.status = "cancel_requested"
                                           THEN "cancelled" ELSE "completed"]
<1>1. Types /\ t \in Ticks /\ IdleWorker \in Ticks /\ IdleWorker.phase = "idle"
  BY TypesOf, TickTypes DEF Types
<1>2. /\ worker' = [worker EXCEPT ![w] = IdleWorker]
      /\ UNCHANGED <<clock, reported, reports, faults>>
      /\ \/ /\ queue' = next
            /\ budget' = [budget EXCEPT !.settled = SettledCalls(t), !.receipt = Receipt(t)]
            /\ candidates' = candidates \cup Submitted(t)
            /\ run' = ended \/ run' = run
         \/ UNCHANGED <<queue, budget, candidates, run>>
  BY ZenonT(30) DEF TickSettles, WrittenBack
<1>3. q \in Queues /\ Writing(q)
  BY WrittenBackQueue DEF TickSettles
<1> HIDE DEF t
<1> HIDE DEF q
<1>4. CASE UNCHANGED <<queue, budget, candidates, run>>
  BY <1>1, <1>2, <1>4, Written DEF Types
<1>5. CASE /\ queue' = next
           /\ budget' = [budget EXCEPT !.settled = SettledCalls(t), !.receipt = Receipt(t)]
           /\ candidates' = candidates \cup Submitted(t)
           /\ run' = ended \/ run' = run
  <2>1. SettledCalls(t) \in Nat /\ Receipt(t) \in BOOLEAN /\ Submitted(t) \in SUBSET Items
    <3>1. t.results \in SUBSET Items /\ t.resolved \in SUBSET Items
      BY <1>1 DEF Ticks
    <3>2. Cardinality(t.results) \in Nat /\ budget.settled \in Nat
      BY <1>1, <3>1, ItemsAreFinite DEF Types, Budgets
    <3>3. Receipt(t) \in BOOLEAN
      BY DEF Receipt
    <3> QED
      BY <3>1, <3>2, <3>3 DEF SettledCalls, Submitted
  <2>2. budget' \in Budgets /\ budget'.reserved = budget.reserved
    BY <1>1, <1>5, <2>1 DEF Types, Budgets
  <2>3. candidates' \in SUBSET Items
    BY <1>1, <1>5, <2>1 DEF Types
  <2>4. run' \in [status : {"running", "cancel_requested"} \cup Ended,
                  provider : BOOLEAN, finished : SUBSET Sources]
    BY <1>1, <1>5 DEF Types, Ended
  <2>5. t.source \in Sources /\ Sound(q) /\ ToSet(q.inFlight) \subseteq budget'.reserved
    BY <1>1, <1>3, <2>2 DEF Ticks, Writing, Paid
  <2> QED
    BY <1>1, <1>2, <1>3, <1>5, <2>2, <2>3, <2>4, <2>5, Written DEF Types
<1> QED
  BY <1>2, <1>4, <1>5

\* The invariant is inductive: no callback, tick or fault breaks a type, leaves an
\* observation pending in a closed queue, or stores a claim without reservation.
THEOREM QueuesInvHolds == Spec => []QueuesInv
<1>1. Init => QueuesInv
  <2> SUFFICES ASSUME Init PROVE QueuesInv
    OBVIOUS
  <2>1. TypeOK
    <3>1. IdleWorker \in Ticks /\ NoQueue \in Queues
      BY TickTypes, EmptyQueue
    <3>2. /\ queue \in [Sources -> Queues] /\ worker \in [Workers -> Ticks]
      BY <3>1 DEF Init
    <3>3. /\ reports \in 0 .. MaxReports /\ faults \in 0 .. MaxFaults
      BY InterpretationAssumption DEF Init
    <3> QED
      BY <3>2, <3>3 DEF Init, TypeOK
  <2>2. \A s \in Sources : Sound(queue[s]) /\ Paid(queue[s])
    BY DEF Init, NoQueue, Sound, Paid, ToSet
  <2>3. \A w \in Workers : worker[w].phase = "idle"
    BY DEF Init, IdleWorker
  <2> QED
    BY <2>1, <2>2, <2>3 DEF QueuesInv, ClaimsInv
<1>2. QueuesInv /\ [Next]_vars => QueuesInv'
  BY CallbackKeeps, OthersKeep, TickWithoutCallsKeeps, TickUncertainKeeps, TickClaimsKeeps,
     CallModelKeeps, TickDiesKeeps, TickSettlesKeeps
  DEF Next, Start, Call
<1> QED
  BY <1>1, <1>2, PTL DEF Spec

\* TypeOK: what the ticks write back are queues of observations, whatever was
\* filtered, merged, claimed or given up on the way.
THEOREM TypeCorrect == Spec => []TypeOK
BY QueuesInvHolds, PTL DEF QueuesInv

\* NothingPendingOnceClosed: a queue that is completed or cancelled has nothing
\* pending, also when the tick that closes it loaded it before other events.
THEOREM NothingStaysPending == Spec => []NothingPendingOnceClosed
<1>1. QueuesInv => NothingPendingOnceClosed
  BY DEF QueuesInv, ClaimsInv, Sound, NothingPendingOnceClosed
<1> QED
  BY <1>1, QueuesInvHolds, PTL

\* Every model call that is claimed in a stored queue is reserved in the budget of
\* the job, also when several sources and ticks claim.
THEOREM StoredClaimsAreReserved ==
    Spec => [](\A s \in Sources : ToSet(queue[s].inFlight) \subseteq budget.reserved)
<1>1. QueuesInv => \A s \in Sources : ToSet(queue[s].inFlight) \subseteq budget.reserved
  BY DEF QueuesInv, ClaimsInv, Paid
<1> QED
  BY <1>1, QueuesInvHolds, PTL

\* A queue that is open has something waiting: the cron lists no other queue of a
\* running run, so an empty open one would hold up the end of the run.
THEOREM OpenQueuesHoldWork ==
    Spec => [](\A s \in Sources : Open(queue[s]) => Queued(queue[s]) # {})
<1>1. ASSUME NEW q \in Queues, Sound(q), Open(q)
      PROVE  Queued(q) # {}
  <2>1. q.pending \in Seq(Items) /\ q.inFlight \in Seq(Items)
    BY DEF Queues
  <2>2. q.pending # <<>> \/ q.inFlight # <<>>
    BY <1>1 DEF Sound, Open
  <2>3. ToSet(q.pending) # {} \/ ToSet(q.inFlight) # {}
    BY <2>1, <2>2, NoElements
  <2> QED
    BY <2>3 DEF Queued
<1>2. QueuesInv => \A s \in Sources : Open(queue[s]) => Queued(queue[s]) # {}
  <2> SUFFICES ASSUME QueuesInv, NEW s \in Sources, Open(queue[s])
               PROVE  Queued(queue[s]) # {}
    OBVIOUS
  <2>1. queue[s] \in Queues /\ Sound(queue[s])
    BY TypesOf DEF Types, QueuesInv, ClaimsInv
  <2> QED
    BY <1>1, <2>1
<1> QED
  BY <1>2, QueuesInvHolds, PTL

-------------------------------------------------------------------------------
(* What DiscoveryCoordinator sees *)

\* Whether a queue is open, as the coordinator sees it.
SomeOpen == \E s \in Sources : Open(queue[s])

\* Of the coordinator's actions, the one of a tick: it leaves a queue open or not.
LEMMA SettlesAsSeen ==
    ASSUME QueuesInv, NEW w \in Workers, TickSettles(w)
    PROVE  [Interpreted!Next]_(Interpreted!vars)
<1> DEFINE t == worker[w]
           q == WrittenBack(w)
           next == [queue EXCEPT ![t.source] = q]
           left == \E s \in Sources : Open(next[s])
<1>1. CASE run.status \notin {"running", "cancel_requested"}
  <2>1. UNCHANGED <<run, queue>>
    BY <1>1 DEF TickSettles
  <2> QED
    BY <2>1 DEF Interpreted!vars
<1>2. CASE run.status \in {"running", "cancel_requested"}
  <2>1. /\ queue' = next
        /\ run' = IF Ends(next, t)
                  THEN [run EXCEPT !.status = IF run.status = "cancel_requested"
                                              THEN "cancelled" ELSE "completed"]
                  ELSE run
    BY <1>2, ZenonT(30) DEF TickSettles, WrittenBack
  <2>2. Types /\ t \in Ticks
    BY TypesOf DEF Types
  <2>3. q \in Queues /\ q.status \notin NotQueued
    BY WrittenBackQueue DEF TickSettles, Writing
  <2> HIDE DEF t, q
  <2>4. next[t.source] = q /\ t.source \in Sources
    BY <2>2 DEF Types, Ticks
  <2>5. ~ left => next[t.source].status \in FinalStatuses
    <3>1. q.status \in QueueStatuses
      BY <2>3 DEF Queues
    <3>2. ~ left => ~ Open(q)
      BY <2>4
    <3> QED
      BY <2>3, <2>4, <3>1, <3>2 DEF Open, NotQueued, QueueStatuses
  <2>6. Ends(next, t) <=> ~ left /\ (run.status = "running" => run.provider /\ Receipt(t))
    BY <2>5, Zenon DEF Ends
  <2>7. left = SomeOpen'
    BY <2>1 DEF SomeOpen, Open
  <2> HIDE DEF next, left
  <2>8. CASE Ends(next, t)
    <3>1. ~ left /\ (run.status = "running" => run.provider /\ Receipt(t))
      BY <2>6, <2>8
    <3>2. /\ run'.provider = run.provider
          /\ run'.status = IF run.status = "cancel_requested" THEN "cancelled" ELSE "completed"
      BY <2>1, <2>2, <2>8 DEF Types
    <3>3. Interpreted!Settles(FALSE, TRUE)
      BY <1>2, <2>7, <3>1, <3>2 DEF Interpreted!Settles, SomeOpen
    <3> QED
      BY <3>3 DEF Interpreted!Next
  <2>9. CASE ~ Ends(next, t) /\ left
    <3>1. Interpreted!Settles(TRUE, TRUE)
      BY <1>2, <2>1, <2>7, <2>9 DEF Interpreted!Settles, SomeOpen
    <3> QED
      BY <3>1 DEF Interpreted!Next
  <2>10. CASE ~ Ends(next, t) /\ ~ left
    <3>1. run.status = "running" /\ run' = run
      BY <1>2, <2>1, <2>6, <2>10
    <3>2. Interpreted!Settles(FALSE, FALSE)
      BY <2>7, <2>10, <3>1 DEF Interpreted!Settles, SomeOpen
    <3> QED
      BY <3>2 DEF Interpreted!Next
  <2> QED
    BY <2>8, <2>9, <2>10
<1> QED
  BY <1>1, <1>2

\* A tick that begins may close the last queue, with a stale claim, but it does not
\* end the run.
LEMMA StartsAsSeen ==
    ASSUME NEW w, NEW s, NEW available,
           \/ TickWithoutCalls(w, s, available)
           \/ TickUncertain(w, s, available)
           \/ TickClaims(w, s, available)
    PROVE  [Interpreted!Next]_(Interpreted!vars)
<1>1. CASE TickWithoutCalls(w, s, available)
  BY <1>1 DEF TickWithoutCalls, Interpreted!vars
<1>2. CASE TickUncertain(w, s, available) \/ TickClaims(w, s, available)
  <2>1. run.status = "running" /\ UNCHANGED run
    <3>1. Plan(s, available) # "cancel" /\ Starts(w, s) /\ UNCHANGED run
      BY <1>2 DEF TickUncertain, TickClaims
    <3> QED
      BY <3>1 DEF Plan, Starts
  <2>2. CASE SomeOpen'
    <3>1. Interpreted!Settles(TRUE, FALSE)
      BY <2>1, <2>2 DEF Interpreted!Settles, SomeOpen
    <3> QED
      BY <3>1 DEF Interpreted!Next
  <2>3. CASE ~ SomeOpen'
    <3>1. Interpreted!Settles(FALSE, FALSE)
      BY <2>1, <2>3 DEF Interpreted!Settles, SomeOpen
    <3> QED
      BY <3>1 DEF Interpreted!Next
  <2> QED
    BY <2>2, <2>3
<1> QED
  BY <1>1, <1>2

\* No report closes a queue: one that is open and has nothing pending has a claim.
LEMMA ReportsOpen ==
    ASSUME NEW q \in Queues, Sound(q), Open(q), NEW incoming \in Seq(Items)
    PROVE  Open(Merge(q, incoming))
<1> DEFINE new == Without(incoming, ToSet(q.pending))
           pending == q.pending \o new
           next == Merge(q, incoming)
<1>1. q.pending \in Seq(Items) /\ new \in Seq(Items)
  BY Filtered DEF Queues
<1>2. /\ next.inFlight = q.inFlight /\ next.pending = pending
      /\ next.status = IF pending # <<>> THEN "pending" ELSE "completed"
  BY DEF Merge, Queues
<1> HIDE DEF new
<1>3. q.pending # <<>> => pending # <<>>
  <2>1. Len(q.pending) \in Nat /\ Len(new) \in Nat /\ Len(pending) = Len(q.pending) + Len(new)
    BY <1>1
  <2>2. q.pending # <<>> => Len(q.pending) # 0
    BY <1>1
  <2>3. q.pending # <<>> => Len(pending) # 0
    BY <2>1, <2>2
  <2> QED
    BY <2>3
<1> HIDE DEF pending, next
<1>4. q.pending # <<>> \/ q.inFlight # <<>>
  BY DEF Sound, Open
<1>5. Open(next)
  BY <1>2, <1>3, <1>4 DEF Open
<1> QED
  BY <1>5 DEF next

\* Callbacks open queues and end the run when the last feed has completed.
LEMMA CallbacksAsSeen ==
    ASSUME QueuesInv, Callback
    PROVE  [Interpreted!Next]_(Interpreted!vars)
<1>1. Types
  BY TypesOf
<1>2. ASSUME NEW s \in Sources, queue' = [queue EXCEPT ![s] = Reporting(s)]
      PROVE  SomeOpen' = SomeOpen
  <2>1. Open(Reporting(s)) <=> Open(queue[s])
    BY DEF Reporting, Open, NoQueue
  <2>2. \A r \in Sources : queue'[r] = IF r = s THEN Reporting(s) ELSE queue[r]
    BY <1>1, <1>2 DEF Types
  <2>3. \A r \in Sources : Open(queue'[r]) <=> Open(queue[r])
    BY <2>1, <2>2
  <2> QED
    BY <2>3, Zenon DEF SomeOpen, Open
<1>3. ASSUME NEW s \in Sources, NEW first \in 1 .. ItemsPerSource,
             NEW last \in 0 .. ItemsPerSource, Report(s, first, last)
      PROVE  [Interpreted!Next]_(Interpreted!vars)
  <2> DEFINE incoming == [n \in 1 .. last - first + 1 |-> <<s, first + n - 1>>]
             q == Merge(queue[s], incoming)
  <2>1. incoming \in Seq(Items)
    BY ReportedItems
  <2>2. /\ run.status = "running"
        /\ run' = [run EXCEPT !.finished = run.finished \ {s}]
        /\ queue' = [queue EXCEPT ![s] = q]
    BY <1>3 DEF Report
  <2>3. Sound(queue[s]) /\ queue[s] \in Queues
    BY <1>1 DEF QueuesInv, ClaimsInv, Types
  <2> HIDE DEF incoming
  <2>4. Open(queue[s]) => Open(q)
    BY <2>1, <2>3, ReportsOpen
  <2> HIDE DEF q
  <2>5. SomeOpen => SomeOpen'
    <3>1. \A r \in Sources : queue'[r] = IF r = s THEN q ELSE queue[r]
      BY <1>1, <2>2 DEF Types
    <3>2. \A r \in Sources : Open(queue[r]) => Open(queue'[r])
      BY <2>4, <3>1
    <3> QED
      BY <3>2, Zenon DEF SomeOpen, Open
  <2>6. run'.status = run.status /\ run'.provider = run.provider
    BY <1>1, <2>2 DEF Types
  <2>7. Interpreted!Progress
    BY <2>2, <2>5, <2>6 DEF Interpreted!Progress, SomeOpen
  <2> QED
    BY <2>7 DEF Interpreted!Next
<1>4. ASSUME NEW s \in Sources, Checkpoint(s)
      PROVE  [Interpreted!Next]_(Interpreted!vars)
  <2>1. SomeOpen' = SomeOpen
    BY <1>2, <1>4 DEF Checkpoint
  <2>2. run'.status = run.status /\ run'.provider = run.provider
    BY <1>1, <1>4 DEF Checkpoint, Types
  <2> QED
    BY <2>1, <2>2 DEF Interpreted!vars, SomeOpen
<1>5. ASSUME NEW s \in Sources, Complete(s)
      PROVE  [Interpreted!Next]_(Interpreted!vars)
  <2>1. SomeOpen' = SomeOpen
    BY <1>2, <1>5 DEF Complete
  <2> DEFINE last == run.finished \cup {s} = Sources
  <2>2. /\ run.status = "running"
        /\ run'.provider = (run.provider \/ last)
        /\ run'.status = IF last /\ ~ SomeOpen THEN "completed" ELSE "running"
    BY <1>5, Zenon DEF Complete, SomeOpen
  <2>3. last \in BOOLEAN
    OBVIOUS
  <2> HIDE DEF last
  <2>4. Interpreted!Completion(last)
    BY <2>1, <2>2 DEF Interpreted!Completion, SomeOpen
  <2> QED
    BY <2>3, <2>4 DEF Interpreted!Next
<1> QED
  BY <1>3, <1>4, <1>5 DEF Callback

\* ImplementsInterpretedRun: to the row, callbacks and ticks do what the coordinator
\* assumes of them, however many queues and ticks stand behind its flag.
THEOREM InterpretationImplementsRun == Spec => ImplementsInterpretedRun
<1>1. Init => Interpreted!Init
  BY DEF Init, Interpreted!Init, Open, NoQueue
<1>2. QueuesInv /\ [Next]_vars => [Interpreted!Next]_(Interpreted!vars)
  <2> SUFFICES ASSUME QueuesInv, [Next]_vars PROVE [Interpreted!Next]_(Interpreted!vars)
    OBVIOUS
  <2>1. Types
    BY TypesOf
  <2>2. CASE Cancel
    <3>1. run'.status = "cancel_requested" /\ run'.provider = run.provider
      BY <2>1, <2>2 DEF Cancel, Types
    <3>2. Interpreted!Stop
      BY <2>2, <3>1 DEF Cancel, Interpreted!Stop
    <3> QED
      BY <3>2 DEF Interpreted!Next
  <2>3. CASE EndElsewhere
    <3>1. /\ run'.provider = run.provider
          /\ \/ run.status \in {"running", "cancel_requested"} /\ run'.status = "failed"
             \/ run.status = "cancel_requested" /\ run'.status = "cancelled"
      BY <2>1, <2>3 DEF EndElsewhere, Types
    <3>2. Interpreted!End
      BY <2>3, <3>1 DEF EndElsewhere, Interpreted!End
    <3> QED
      BY <3>2 DEF Interpreted!Next
  <2>4. CASE ClaimsLapse \/ UNCHANGED vars
    BY <2>4 DEF ClaimsLapse, vars, Interpreted!vars
  <2>5. ASSUME NEW w \in Workers, Call(w) \/ TickDies(w)
        PROVE  [Interpreted!Next]_(Interpreted!vars)
    BY <2>5 DEF Call, CallModel, TickDies, Interpreted!vars
  <2> QED
    BY <2>2, <2>3, <2>4, <2>5, CallbacksAsSeen, StartsAsSeen, SettlesAsSeen DEF Next, Start
<1> QED
  BY <1>1, <1>2, QueuesInvHolds, PTL DEF Spec, ImplementsInterpretedRun, Interpreted!Spec
===============================================================================
