--------------------------- MODULE MemoryJobsProofs ---------------------------
(***************************************************************************)
(* The leased jobs of the memory pipeline, for any finite sets of threads  *)
(* and workers, any durations, caps and retries, and any pattern of        *)
(* crashes, expired leases and resets: no change is forgotten, no cap is   *)
(* passed, and the rows implement FencedJobs.                              *)
(***************************************************************************)
EXTENDS MemoryJobs, FiniteSetTheorems, WellFoundedInduction, TLAPS

\* What a worker keeps in memory and where it is: it looks for threads once, tries
\* each of them once, and has no claim left when it turns to the global job.
LocalInv ==
  \A w \in Worker :
    /\ pc[w] # "claim" => found[w] = Nothing
    /\ pc[w] \notin {"claim", "extract"} => claimed[w] = Nothing
    /\ \A t \in Thread : found[w][t] # 0 => claimed[w][t] = 0

\* A running row is of an update newer than both its output and its last success,
\* and its owner, if it still works on it, works on that update.
ClaimInv ==
  \A t \in Thread : row[t].status = "running" =>
    /\ out[t].src < row[t].input /\ row[t].success < row[t].input
    /\ \A w \in Worker : row[t].token = w /\ claimed[w][t] # 0 => claimed[w][t] = row[t].input

\* The input watermark covers every output there is and whatever the owner of the
\* global row has read; it is past that once a change came that the owner has not
\* read.
WatermarkInv ==
  /\ global.success <= global.input
  /\ \A t \in Thread : out[t].src <= global.input
  /\ \A w \in Worker : Owns(w, global) =>
       /\ pc[w] \in {"select", "sync", "agent"} => wm[w] <= global.input
       /\ pc[w] \in {"sync", "agent"} /\ ~(owed \subseteq seen[w]) => wm[w] < global.input

\* The inductive invariant.
IndInv ==
  /\ TypeOK /\ LocalInv /\ ClaimInv /\ WatermarkInv
  /\ NoLostChange /\ SuccessHasItsOutput /\ RunningBounded /\ RetriesLeft

------------------------------------------------------------------------------
(* Facts about numbers and rows.                                             *)

\* A nonempty set of naturals has a least element.
LEMMA LeastOfNaturals ==
  ASSUME NEW S \in SUBSET Nat, S # {}
  PROVE  \E n \in S : \A m \in S : n <= m
<1>1. PICK n \in S : \A m \in S : ~(<<m, n>> \in OpToRel(<, Nat))
  BY NatLessThanWellFounded, WFMin
<1>2. ASSUME NEW m \in S PROVE n <= m
  <2>1. ~(<<m, n>> \in OpToRel(<, Nat))
    BY <1>1
  <2>2. ~(m < n)
    BY <2>1 DEF OpToRel
  <2> QED
    BY <2>2
<1> QED
  BY <1>2

\* Max, by which the watermarks are combined, is what it says on a bounded set.
LEMMA MaxOfBounded ==
  ASSUME NEW S \in SUBSET Nat, S # {}, NEW b \in Nat, \A x \in S : x <= b
  PROVE  Max(S) \in S /\ \A x \in S : x <= Max(S)
<1> DEFINE Bounds == {n \in Nat : \A x \in S : x <= n}
<1>1. PICK u \in Bounds : \A m \in Bounds : u <= m
  BY LeastOfNaturals
<1>2. u \in S
  <2> SUFFICES ASSUME u \notin S PROVE FALSE
    OBVIOUS
  <2>1. PICK x \in S : TRUE
    OBVIOUS
  <2>2. u - 1 \in Nat /\ \A y \in S : y <= u - 1
    BY <2>1
  <2> QED
    BY <1>1, <2>2
<1>3. \E x \in S : \A y \in S : x >= y
  BY <1>2
<1> QED
  BY <1>3 DEF Max

\* The maximum of two watermarks.
LEMMA MaxOfTwo ==
  ASSUME NEW m \in Nat, NEW n \in Nat
  PROVE  Max({m, n}) \in {m, n} /\ m <= Max({m, n}) /\ n <= Max({m, n})
<1>1. PICK b \in Nat : m <= b /\ n <= b
  BY m <= m + n, n <= m + n, m + n \in Nat
<1> QED
  BY <1>1, MaxOfBounded

\* What the constants are.
LEMMA Durations ==
  /\ Lease \in Nat /\ RetryDelay \in Nat /\ Retries \in Nat /\ Retries > 0
  /\ MaxClaimed \in Nat /\ MaxClaimed > 0 /\ MaxRaw \in Nat /\ MaxInput \in Nat /\ MaxTime \in Nat
  /\ MaxAge \in Nat /\ MaxUnused \in Nat /\ Idle \in Nat /\ Idle > 0
  BY DurationAssumption

\* A row that is claimed.
LEMMA RunningRow ==
  ASSUME NEW w \in Worker, NEW r \in Row, now \in Nat
  PROVE  LET n == Running(w, r) IN
         /\ n \in Row
         /\ n.status = "running" /\ n.token = w /\ n.lease = now + Lease
         /\ n.retries = r.retries /\ n.input = r.input /\ n.success = r.success
<1>1. now + Lease \in Nat
  BY Durations
<1>2. Running(w, r) \in Row
  BY <1>1 DEF Running, Row
<1> QED
  BY <1>2 DEF Running, Row

\* A row of phase 1 that is claimed for an update of its thread.
LEMMA ClaimedRow ==
  ASSUME NEW w \in Worker, NEW r \in Row, NEW at \in Nat, now \in Nat
  PROVE  LET n == RunningAt(w, r, at) IN
         /\ n \in Row
         /\ n.status = "running" /\ n.token = w
         /\ n.retries = (IF at > r.input THEN Retries ELSE r.retries)
         /\ n.input = at /\ n.success = r.success
<1> DEFINE R == Running(w, r)
           left == IF at > r.input THEN Retries ELSE R.retries
<1>1. R \in Row
  BY RunningRow
<1>2. left \in Nat
  BY <1>1, Durations DEF Row
<1> HIDE DEF R, left
<1>3. /\ [R EXCEPT !.retries = left, !.input = at] \in Row
      /\ [R EXCEPT !.retries = left, !.input = at].status = R.status
      /\ [R EXCEPT !.retries = left, !.input = at].token = R.token
      /\ [R EXCEPT !.retries = left, !.input = at].retries = left
      /\ [R EXCEPT !.retries = left, !.input = at].input = at
      /\ [R EXCEPT !.retries = left, !.input = at].success = R.success
  BY <1>1, <1>2 DEF Row
<1> QED
  BY <1>3, RunningRow DEF RunningAt, R, left

\* A row whose job succeeded.
LEMMA DoneRow ==
  ASSUME NEW r \in Row, NEW watermark \in Nat
  PROVE  LET n == Done(r, watermark) IN
         /\ n \in Row
         /\ n.status = "done" /\ n.token = r.token
         /\ n.retries = r.retries /\ n.input = r.input /\ n.success = watermark
  BY DEF Done, Row

\* A row whose job failed, with an attempt to lose.
LEMMA FailedRow ==
  ASSUME NEW r \in Row, r.retries > 0, now \in Nat
  PROVE  LET n == Failed(r) IN
         /\ n \in Row
         /\ n.status = "error" /\ n.token = r.token
         /\ n.input = r.input /\ n.success = r.success
<1>1. now + RetryDelay \in Nat /\ r.retries - 1 \in Nat
  BY Durations DEF Row
<1>2. Failed(r) \in Row
  BY <1>1 DEF Failed, Row
<1> QED
  BY <1>2 DEF Failed, Row

\* The global row after an enqueue: it is dirtier than before, whoever runs it.
LEMMA EnqueuedRow ==
  ASSUME NEW g \in Row, NEW watermark \in Nat
  PROVE  LET n == Enqueued(g, watermark) IN
         /\ n \in Row
         /\ n.status = "running" <=> g.status = "running"
         /\ n.token = g.token /\ n.retries > 0 /\ n.success = g.success
         /\ n.input > g.input /\ n.input >= watermark
<1> DEFINE status == IF g.status = "running" THEN "running" ELSE "pending"
           retry_at == IF g.status = "running" THEN g.retry_at ELSE 0
           retries == IF g.retries > Retries THEN g.retries ELSE Retries
           input == IF watermark > g.input THEN watermark ELSE g.input + 1
           n == [g EXCEPT !.status = status, !.retry_at = retry_at, !.retries = retries,
                          !.input = input]
<1>1. /\ retries \in Nat /\ retries > 0
      /\ input \in Nat /\ input > g.input /\ input >= watermark
      /\ status \in {"pending", "running"} /\ retry_at \in Nat
      /\ status = "running" <=> g.status = "running"
  BY Durations DEF Row
<1>2. n = Enqueued(g, watermark)
  BY DEF Enqueued
<1> HIDE DEF status, retry_at, retries, input
<1>3. /\ n \in Row
      /\ n.status = status /\ n.token = g.token /\ n.retries = retries
      /\ n.success = g.success /\ n.input = input
  BY <1>1 DEF Row
<1> HIDE DEF n
<1> QED
  BY <1>1, <1>2, <1>3

\* A row that is not there.
LEMMA AbsentRow ==
  /\ NoRow \in Row /\ NoRow.status = "absent" /\ NoRow.token = None
  /\ NoRow.input = 0 /\ NoRow.success = 0
  /\ NoOutput \in Output /\ NoOutput.src = 0 /\ NoOutput.selected = 0
  BY DEF NoRow, Row, NoOutput, Output

------------------------------------------------------------------------------
(* Types.                                                                    *)

\* What a selection makes of the watermark of its worker.
LEMMA SelectedWatermark ==
  ASSUME TypeOK, WatermarkInv, NEW w \in Worker, NEW S \in SUBSET Thread
  PROVE  LET m == Max({wm[w]} \cup {out[t].src : t \in S}) IN
         m \in Nat /\ (m = wm[w] \/ m <= global.input)
<1> DEFINE M == {wm[w]} \cup {out[t].src : t \in S}
<1>1. wm[w] \in Nat /\ global.input \in Nat
  BY DEF TypeOK, Row
<1>2. \A t \in Thread : out[t].src \in Nat /\ out[t].src <= global.input
  BY DEF TypeOK, WatermarkInv, Output
<1>3. M \in SUBSET Nat /\ M # {}
  BY <1>1, <1>2
<1>4. wm[w] + global.input \in Nat /\ \A x \in M : x <= wm[w] + global.input
  BY <1>1, <1>2
<1>5. Max(M) \in M
  BY <1>3, <1>4, MaxOfBounded
<1> QED
  BY <1>1, <1>2, <1>3, <1>5

\* The types of a worker's claims, which an extraction that ends changes.
LEMMA ExtractedType ==
  ASSUME TypeOK, NEW w \in Worker, NEW t \in Thread, Extracted(w, t)
  PROVE  /\ claimed' \in [Worker -> [Thread -> Nat]]
         /\ claimed[w][t] \in Nat /\ row[t] \in Row /\ out[t] \in Output
  BY DEF TypeOK, Extracted

\* The types after a worker left phase 2.
LEMMA LeavesType ==
  ASSUME TypeOK, NEW w \in Worker, Leaves(w)
  PROVE  /\ pc' \in [Worker -> Label] /\ wm' \in [Worker -> Nat]
         /\ chosen' \in [Worker -> [Thread -> Nat]] /\ seen' \in [Worker -> SUBSET Thread]
  BY DEF TypeOK, Leaves, Go, Label, Nothing

\* The global row after a failure.
LEMMA FailsType ==
  ASSUME TypeOK, RetriesLeft, NEW w \in Worker, Fails(w)
  PROVE  TypeOK'
<1>1. global' \in Row
  <2>1. global \in Row /\ now \in Nat
    BY DEF TypeOK
  <2>2. CASE global.status = "running" /\ global.token \in {w, None}
    <3>1. global.retries > 0
      BY <2>2 DEF RetriesLeft
    <3>2. Failed(global) \in Row
      BY <2>1, <3>1, FailedRow
    <3> QED
      BY <2>2, <3>2 DEF Fails
  <2>3. CASE ~(global.status = "running" /\ global.token \in {w, None})
    BY <2>1, <2>3 DEF Fails
  <2> QED
    BY <2>2, <2>3
<1>2. Leaves(w)
  BY DEF Fails
<1> QED
  BY <1>1, <1>2, LeavesType DEF TypeOK, Fails

\* ... and after a success.
LEMMA SucceedsType ==
  ASSUME TypeOK, NEW w \in Worker, Succeeds(w)
  PROVE  TypeOK'
<1>1. Leaves(w)
  BY DEF Succeeds
<1>2. CASE Owns(w, global)
  <2>1. global.success \in Nat /\ wm[w] \in Nat /\ global \in Row
    BY DEF TypeOK, Row
  <2>2. Max({global.success, wm[w]}) \in Nat
    BY <2>1, MaxOfTwo
  <2>3. global' \in Row
    BY <1>2, <2>1, <2>2, DoneRow DEF Succeeds
  <2>4. out' \in [Thread -> Output]
    <3>1. \A t \in Thread : out[t] \in Output /\ out[t].src \in Nat
      BY DEF TypeOK, Output
    <3>2. \A t \in Thread : \A n \in Nat : [out[t] EXCEPT !.selected = n] \in Output
      BY <3>1 DEF Output
    <3> DEFINE mark(t) == IF chosen[w][t] # 0 /\ out[t].src = chosen[w][t] THEN out[t].src ELSE 0
    <3>3. out' = [t \in Thread |-> [out[t] EXCEPT !.selected = mark(t)]]
      BY <1>2 DEF Succeeds
    <3>4. \A t \in Thread : mark(t) \in Nat
      BY <3>1
    <3> HIDE DEF mark
    <3> QED
      BY <3>2, <3>3, <3>4
  <2>5. owed' \subseteq Thread
    BY <1>2 DEF Succeeds, TypeOK
  <2> QED
    BY <1>1, <2>3, <2>4, <2>5, LeavesType DEF TypeOK, Succeeds
<1>3. CASE ~Owns(w, global)
  BY <1>1, <1>3, LeavesType DEF TypeOK, Succeeds
<1> QED
  BY <1>2, <1>3

\* Every step keeps the types.  A failure subtracts from the retries of a row that
\* is running, which therefore must have one left.
LEMMA TypeStep ==
  ASSUME TypeOK, RetriesLeft, WatermarkInv, [Next]_vars
  PROVE  TypeOK'
<1> USE DEF dbVars, localVars
<1>0. now \in Nat /\ global \in Row
  BY DEF TypeOK
<1>1. ASSUME NEW w \in Worker, Prune(w) PROVE TypeOK'
  <2>1. out' \in [Thread -> Output]
    BY <1>1, AbsentRow DEF TypeOK, Prune
  <2> QED
    BY <1>1, <2>1 DEF TypeOK, Prune, Go, Label
<1>2. ASSUME NEW w \in Worker, Scan(w) PROVE TypeOK'
  <2>1. found' \in [Worker -> [Thread -> Nat]]
    <3>1. [t \in Thread |-> IF Stale(t) THEN updated[t] ELSE 0] \in [Thread -> Nat]
      BY DEF TypeOK
    <3> QED
      BY <1>2, <3>1 DEF TypeOK, Scan
  <2>2. pc' \in [Worker -> Label]
    BY <1>2 DEF TypeOK, Scan, Go, Label
  <2> QED
    BY <1>2, <2>1, <2>2 DEF TypeOK, Scan
<1>3. ASSUME NEW w \in Worker, ClaimNext(w) PROVE TypeOK'
  <2>1. PICK t \in Thread :
          /\ found' = [found EXCEPT ![w][t] = 0]
          /\ \/ /\ claimed' = [claimed EXCEPT ![w][t] = found[w][t]]
                /\ row' = [row EXCEPT ![t] = RunningAt(w, row[t], found[w][t])]
             \/ UNCHANGED <<claimed, row>>
    BY <1>3 DEF ClaimNext
  <2>2. found[w][t] \in Nat /\ row[t] \in Row
    BY DEF TypeOK
  <2>3. found' \in [Worker -> [Thread -> Nat]]
    BY <2>1 DEF TypeOK
  <2>4. claimed' \in [Worker -> [Thread -> Nat]]
    <3>1. claimed' = claimed \/ claimed' = [claimed EXCEPT ![w][t] = found[w][t]]
      BY <2>1
    <3>2. [claimed EXCEPT ![w][t] = found[w][t]] \in [Worker -> [Thread -> Nat]]
      BY <2>2 DEF TypeOK
    <3> QED
      BY <3>1, <3>2 DEF TypeOK
  <2>5. RunningAt(w, row[t], found[w][t]) \in Row
    BY <1>0, <2>2, ClaimedRow
  <2>6. row' \in [Thread -> Row]
    BY <2>1, <2>5 DEF TypeOK
  <2> QED
    BY <1>3, <2>3, <2>4, <2>6 DEF TypeOK, ClaimNext
<1>4. ASSUME NEW w \in Worker, ClaimsEnd(w) PROVE TypeOK'
  <2>1. Nothing \in [Thread -> Nat]
    BY DEF Nothing
  <2>2. found' \in [Worker -> [Thread -> Nat]] /\ claimed' \in [Worker -> [Thread -> Nat]]
    BY <1>4, <2>1 DEF TypeOK, ClaimsEnd
  <2>3. pc' \in [Worker -> Label]
    BY <1>4 DEF TypeOK, ClaimsEnd, Go, Label
  <2> QED
    BY <1>4, <2>2, <2>3 DEF TypeOK, ClaimsEnd
<1>5. ASSUME NEW w \in Worker, NEW t \in Thread, StageOneSucceeds(w, t) PROVE TypeOK'
  <2>1. Extracted(w, t) /\ row[t] \in Row /\ row[t].input \in Nat /\ claimed[w][t] \in Nat
        /\ claimed' \in [Worker -> [Thread -> Nat]]
    BY <1>5, ExtractedType DEF StageOneSucceeds, Row
  <2>2. row' \in [Thread -> Row]
    BY <1>5, <2>1, DoneRow DEF TypeOK, StageOneSucceeds
  <2>3. global' \in Row
    BY <1>0, <1>5, <2>1, EnqueuedRow DEF StageOneSucceeds
  <2>4. out' \in [Thread -> Output]
    BY <1>5, <2>1 DEF TypeOK, StageOneSucceeds, Output
  <2>5. owed' \subseteq Thread /\ seen' \in [Worker -> SUBSET Thread]
    BY <1>5 DEF TypeOK, StageOneSucceeds, Changed
  <2> QED
    BY <2>1, <2>2, <2>3, <2>4, <2>5 DEF TypeOK, Extracted
<1>6. ASSUME NEW w \in Worker, NEW t \in Thread, StageOneNoOutput(w, t) PROVE TypeOK'
  <2>1. Extracted(w, t) /\ row[t] \in Row /\ row[t].input \in Nat
        /\ claimed' \in [Worker -> [Thread -> Nat]]
    BY <1>6, ExtractedType DEF StageOneNoOutput, Row
  <2>2. row' \in [Thread -> Row]
    BY <1>6, <2>1, DoneRow DEF TypeOK, StageOneNoOutput
  <2>3. global' \in Row
    BY <1>0, <1>6, <2>1, EnqueuedRow DEF StageOneNoOutput
  <2>4. out' \in [Thread -> Output]
    BY <1>6, AbsentRow DEF TypeOK, StageOneNoOutput
  <2>5. owed' \subseteq Thread /\ seen' \in [Worker -> SUBSET Thread]
    BY <1>6 DEF TypeOK, StageOneNoOutput, Changed
  <2> QED
    BY <2>1, <2>2, <2>3, <2>4, <2>5 DEF TypeOK, Extracted
<1>7. ASSUME NEW w \in Worker, NEW t \in Thread, StageOneFails(w, t) PROVE TypeOK'
  <2>1. Extracted(w, t) /\ row[t] \in Row /\ claimed' \in [Worker -> [Thread -> Nat]]
    BY <1>7, ExtractedType DEF StageOneFails
  <2>2. row[t].retries > 0
    BY <1>7 DEF StageOneFails, Owns, RetriesLeft
  <2>3. row' \in [Thread -> Row]
    BY <1>0, <1>7, <2>1, <2>2, FailedRow DEF TypeOK, StageOneFails
  <2> QED
    BY <1>7, <2>1, <2>3 DEF TypeOK, Extracted, StageOneFails
<1>8. ASSUME NEW w \in Worker, NEW t \in Thread, StageOneLost(w, t) PROVE TypeOK'
  <2>1. Extracted(w, t) /\ claimed' \in [Worker -> [Thread -> Nat]]
    BY <1>8, ExtractedType DEF StageOneLost
  <2> QED
    BY <1>8, <2>1 DEF TypeOK, Extracted, StageOneLost
<1>9. ASSUME NEW w \in Worker, ClaimGlobal(w) PROVE TypeOK'
  <2>1. global' \in Row
    BY <1>0, <1>9, RunningRow DEF ClaimGlobal
  <2>2. wm' \in [Worker -> Nat]
    BY <1>0, <1>9 DEF TypeOK, ClaimGlobal, Row
  <2>3. pc' \in [Worker -> Label]
    BY <1>9 DEF TypeOK, ClaimGlobal, Go, Label
  <2> QED
    BY <1>9, <2>1, <2>2, <2>3 DEF TypeOK, ClaimGlobal
<1>10. ASSUME NEW w \in Worker, Select(w) PROVE TypeOK'
  <2>1. PICK S \in SUBSET Thread :
          /\ chosen' = [chosen EXCEPT ![w] = [t \in Thread |-> IF t \in S THEN out[t].src ELSE 0]]
          /\ wm' = [wm EXCEPT ![w] = Max({@} \cup {out[t].src : t \in S})]
    BY <1>10 DEF Select
  <2>2. wm' \in [Worker -> Nat]
    BY <2>1, SelectedWatermark DEF TypeOK
  <2>3. \A t \in Thread : out[t].src \in Nat
    BY DEF TypeOK, Output
  <2>4. chosen' \in [Worker -> [Thread -> Nat]]
    BY <2>1, <2>3 DEF TypeOK
  <2>5. seen' \in [Worker -> SUBSET Thread] /\ pc' \in [Worker -> Label]
    BY <1>10 DEF TypeOK, Select, Go, Label
  <2> QED
    BY <1>10, <2>2, <2>4, <2>5 DEF TypeOK, Select
<1>11. ASSUME NEW w \in Worker, Sync(w) PROVE TypeOK'
  <2>1. CASE Succeeds(w)
    BY <2>1, SucceedsType
  <2>2. CASE ~Succeeds(w)
    BY <1>11, <2>2 DEF TypeOK, Sync, Go, Label
  <2> QED
    BY <2>1, <2>2
<1>12. ASSUME NEW w \in Worker, Heartbeat(w) PROVE TypeOK'
  <2>1. CASE Fails(w)
    BY <2>1, FailsType
  <2>2. CASE ~Fails(w)
    <3>1. now + Lease \in Nat
      BY <1>0, Durations
    <3>2. [global EXCEPT !.lease = now + Lease] \in Row
      BY <1>0, <3>1 DEF Row
    <3> QED
      BY <1>12, <2>2, <3>2 DEF TypeOK, Heartbeat
  <2> QED
    BY <2>1, <2>2
<1>13. ASSUME NEW w \in Worker, AgentCompletes(w) PROVE TypeOK'
  BY <1>13, SucceedsType DEF AgentCompletes
<1>14. ASSUME NEW w \in Worker, PhaseTwoFails(w) PROVE TypeOK'
  BY <1>14, FailsType DEF PhaseTwoFails
<1>15. ASSUME NEW w \in Worker, Crash(w) PROVE TypeOK'
  <2>1. Leaves(w)
    BY <1>15 DEF Crash
  <2>2. Nothing \in [Thread -> Nat]
    BY DEF Nothing
  <2> QED
    BY <1>15, <2>1, <2>2, LeavesType DEF TypeOK, Crash
<1>16. CASE Tick
  BY <1>16 DEF TypeOK, Tick
<1>17. ASSUME NEW t \in Thread, Touch(t) PROVE TypeOK'
  BY <1>17 DEF TypeOK, Touch
<1>18. ASSUME NEW t \in Thread, RecordUsage(t) PROVE TypeOK'
  BY <1>18 DEF TypeOK, RecordUsage, Output
<1>19. ASSUME NEW t \in Thread, Pollute(t) PROVE TypeOK'
  <2>1. global' \in Row
    BY <1>0, <1>19, EnqueuedRow DEF Pollute
  <2>2. owed' \subseteq Thread /\ seen' \in [Worker -> SUBSET Thread]
    BY <1>19 DEF TypeOK, Pollute, Changed
  <2> QED
    BY <1>19, <2>1, <2>2 DEF TypeOK, Pollute
<1>20. ASSUME NEW t \in Thread, Reconcile(t) PROVE TypeOK'
  BY <1>20 DEF TypeOK, Reconcile
<1>21. ASSUME NEW disable \in BOOLEAN, Clear(disable) PROVE TypeOK'
  <2>1. mode' \in [Thread -> {"enabled", "disabled", "polluted"}]
    BY <1>21 DEF TypeOK, Clear
  <2> QED
    BY <1>21, <2>1, AbsentRow DEF TypeOK, Clear
<1>22. CASE UNCHANGED vars
  BY <1>22 DEF TypeOK, vars
<1> QED
  BY <1>1, <1>2, <1>3, <1>4, <1>5, <1>6, <1>7, <1>8, <1>9, <1>10, <1>11, <1>12, <1>13, <1>14,
     <1>15, <1>16, <1>17, <1>18, <1>19, <1>20, <1>21, <1>22
  DEF Next, Environment, Pipeline

------------------------------------------------------------------------------
(* The parts of the invariant.                                               *)

\* Every step keeps what a worker has in memory.
LEMMA LocalStep ==
  ASSUME TypeOK, LocalInv, [Next]_vars
  PROVE  LocalInv'
<1> USE DEF dbVars, localVars
<1>1. ASSUME NEW w \in Worker, Prune(w) PROVE LocalInv'
  BY <1>1 DEF TypeOK, LocalInv, Prune, Go
<1>2. ASSUME NEW w \in Worker, Scan(w) PROVE LocalInv'
  <2>1. CASE pc' = [pc EXCEPT ![w] = "claim"]
                /\ found' = [found EXCEPT ![w] = [t \in Thread |-> IF Stale(t) THEN updated[t] ELSE 0]]
    <3>1. claimed[w] = Nothing /\ claimed' = claimed
      BY <1>2 DEF LocalInv, Scan
    <3>2. \A v \in Worker : v # w => found'[v] = found[v] /\ pc'[v] = pc[v]
      BY <2>1 DEF TypeOK
    <3>3. pc'[w] = "claim" /\ \A t \in Thread : claimed'[w][t] = 0
      BY <2>1, <3>1 DEF TypeOK, Nothing
    <3> QED
      BY <3>1, <3>2, <3>3 DEF LocalInv
  <2>2. CASE pc' = [pc EXCEPT ![w] = "extract"] /\ found' = found
    BY <1>2, <2>2 DEF TypeOK, LocalInv, Scan
  <2> QED
    BY <1>2, <2>1, <2>2 DEF Scan, Go
<1>3. ASSUME NEW w \in Worker, ClaimNext(w) PROVE LocalInv'
  <2>1. PICK t \in Thread :
          /\ found' = [found EXCEPT ![w][t] = 0]
          /\ claimed' = claimed \/ claimed' = [claimed EXCEPT ![w][t] = found[w][t]]
    BY <1>3 DEF ClaimNext
  <2>2. pc[w] = "claim" /\ pc' = pc
    BY <1>3 DEF ClaimNext
  <2>3. \A v \in Worker : v # w => found'[v] = found[v] /\ claimed'[v] = claimed[v]
    BY <2>1 DEF TypeOK
  <2>4. \A u \in Thread : found'[w][u] # 0 => claimed'[w][u] = 0
    <3>1. ASSUME NEW u \in Thread, u # t
          PROVE  found'[w][u] = found[w][u] /\ claimed'[w][u] = claimed[w][u]
      BY <2>1, <3>1 DEF TypeOK
    <3>2. found'[w][t] = 0
      BY <2>1 DEF TypeOK
    <3> QED
      BY <3>1, <3>2 DEF LocalInv
  <2> QED
    BY <2>2, <2>3, <2>4 DEF LocalInv
<1>4. ASSUME NEW w \in Worker, ClaimsEnd(w) PROVE LocalInv'
  <2>1. \A v \in Worker : v # w => found'[v] = found[v] /\ claimed'[v] = claimed[v] /\ pc'[v] = pc[v]
    BY <1>4 DEF TypeOK, ClaimsEnd, Go
  <2>2. found'[w] = Nothing /\ pc'[w] = "extract"
    BY <1>4 DEF TypeOK, ClaimsEnd, Go
  <2> QED
    BY <2>1, <2>2 DEF LocalInv, Nothing
<1>5. ASSUME NEW w \in Worker, NEW t \in Thread, Extracted(w, t) PROVE LocalInv'
  <2>1. pc[w] = "extract" /\ pc' = pc /\ found' = found
    BY <1>5 DEF Extracted
  <2>2. \A v \in Worker : v # w => claimed'[v] = claimed[v]
    BY <1>5 DEF TypeOK, Extracted
  <2>3. \A u \in Thread : claimed'[w][u] = 0 \/ claimed'[w][u] = claimed[w][u]
    BY <1>5 DEF TypeOK, Extracted
  <2> QED
    BY <2>1, <2>2, <2>3 DEF LocalInv
<1>6. ASSUME NEW w \in Worker, ClaimGlobal(w) PROVE LocalInv'
  BY <1>6 DEF TypeOK, LocalInv, ClaimGlobal, Go
<1>7. ASSUME NEW w \in Worker, Select(w) PROVE LocalInv'
  BY <1>7 DEF TypeOK, LocalInv, Select, Go
<1>8. ASSUME NEW w \in Worker, Leaves(w), UNCHANGED <<found, claimed>>,
             pc[w] \in {"select", "sync", "agent"}
      PROVE  LocalInv'
  BY <1>8 DEF TypeOK, LocalInv, Leaves, Go
<1>9. ASSUME NEW w \in Worker, Sync(w) PROVE LocalInv'
  <2>1. CASE Succeeds(w)
    BY <1>8, <1>9, <2>1 DEF Sync, Succeeds
  <2>2. CASE ~Succeeds(w)
    BY <1>9, <2>2 DEF TypeOK, LocalInv, Sync, Go
  <2> QED
    BY <2>1, <2>2
<1>10. ASSUME NEW w \in Worker, Heartbeat(w) PROVE LocalInv'
  <2>1. CASE Fails(w)
    BY <1>8, <1>10, <2>1 DEF Heartbeat, Fails
  <2>2. CASE ~Fails(w)
    BY <1>10, <2>2 DEF LocalInv, Heartbeat
  <2> QED
    BY <2>1, <2>2
<1>11. ASSUME NEW w \in Worker, AgentCompletes(w) \/ PhaseTwoFails(w) PROVE LocalInv'
  BY <1>8, <1>11 DEF AgentCompletes, PhaseTwoFails, Succeeds, Fails
<1>12. ASSUME NEW w \in Worker, Crash(w) PROVE LocalInv'
  <2>1. \A v \in Worker : v # w => found'[v] = found[v] /\ claimed'[v] = claimed[v] /\ pc'[v] = pc[v]
    BY <1>12 DEF TypeOK, Crash, Leaves, Go
  <2>2. found'[w] = Nothing /\ claimed'[w] = Nothing
    BY <1>12 DEF TypeOK, Crash
  <2> QED
    BY <2>1, <2>2 DEF LocalInv, Nothing
<1>13. CASE UNCHANGED <<pc, found, claimed>>
  BY <1>13 DEF LocalInv
<1>14. Environment => UNCHANGED <<pc, found, claimed>>
  BY DEF Environment, Tick, Touch, RecordUsage, Pollute, Reconcile, Clear
<1> QED
  BY <1>1, <1>2, <1>3, <1>4, <1>5, <1>6, <1>7, <1>9, <1>10, <1>11, <1>12, <1>13, <1>14
  DEF Next, Pipeline, StageOneSucceeds, StageOneNoOutput, StageOneFails, StageOneLost, vars

\* A step that claims and finishes no job of phase 1 keeps what the rows say of
\* outputs and claims: it may drop either.
LEMMA RowKept ==
  ASSUME TypeOK, ClaimInv, SuccessHasItsOutput,
         UNCHANGED row,
         \A t \in Thread : out'[t].src \in {0, out[t].src},
         \A w \in Worker, t \in Thread : claimed'[w][t] \in {0, claimed[w][t]}
  PROVE  ClaimInv' /\ SuccessHasItsOutput'
<1>1. \A t \in Thread : row[t].input \in Nat /\ row[t].success \in Nat
  BY DEF TypeOK, Row
<1> QED
  BY <1>1 DEF ClaimInv, SuccessHasItsOutput

\* A step that takes a row out of running, with its output gone or at the update the
\* row then counts as done.
LEMMA RowFinished ==
  ASSUME TypeOK, ClaimInv, SuccessHasItsOutput, NEW w \in Worker, NEW t \in Thread, NEW r \in Row,
         row' = [row EXCEPT ![t] = r], r.status # "running",
         Extracted(w, t),
         \A u \in Thread \ {t} : out'[u] = out[u],
         out'[t].src \in {0, r.success} \/ (r.success = row[t].success /\ out'[t] = out[t])
  PROVE  ClaimInv' /\ SuccessHasItsOutput'
<1>1. row'[t] = r /\ \A u \in Thread \ {t} : row'[u] = row[u]
  BY DEF TypeOK
<1>2. \A v \in Worker, u \in Thread : claimed'[v][u] \in {0, claimed[v][u]}
  BY DEF TypeOK, Extracted
<1>3. ClaimInv'
  BY <1>1, <1>2 DEF ClaimInv
<1>4. SuccessHasItsOutput'
  BY <1>1 DEF SuccessHasItsOutput
<1> QED
  BY <1>3, <1>4

\* The rows of phase 1, their outputs and their owners agree.  It rests on the lease
\* being asked for in the statement that writes: who is not the owner writes nothing.
LEMMA RowStep ==
  ASSUME TypeOK, ClaimInv, SuccessHasItsOutput, RetriesLeft, [Next]_vars
  PROVE  ClaimInv' /\ SuccessHasItsOutput'
<1> USE DEF dbVars, localVars
<1>0. \A t \in Thread : /\ row[t] \in Row /\ row[t].input \in Nat /\ row[t].success \in Nat
                        /\ out[t] \in Output /\ out[t].src \in Nat
  BY DEF TypeOK, Row, Output
<1>1. ASSUME NEW w \in Worker, Prune(w) PROVE ClaimInv' /\ SuccessHasItsOutput'
  <2>1. \A t \in Thread : out'[t].src \in {0, out[t].src}
    BY <1>1, AbsentRow DEF Prune
  <2> QED
    BY <1>1, <2>1, RowKept DEF Prune
<1>2. ASSUME NEW w \in Worker, ClaimNext(w) PROVE ClaimInv' /\ SuccessHasItsOutput'
  <2>1. PICK t \in Thread :
          \/ /\ Claimable(t, found[w][t])
             /\ claimed' = [claimed EXCEPT ![w][t] = found[w][t]]
             /\ row' = [row EXCEPT ![t] = RunningAt(w, row[t], found[w][t])]
          \/ UNCHANGED <<claimed, row>>
    BY <1>2 DEF ClaimNext
  <2>2. out' = out
    BY <1>2 DEF ClaimNext
  <2>3. CASE UNCHANGED <<claimed, row>>
    BY <2>2, <2>3, RowKept
  <2>4. CASE ~UNCHANGED <<claimed, row>>
    <3> DEFINE r == RunningAt(w, row[t], found[w][t])
    <3>1. found[w][t] \in Nat /\ now \in Nat /\ row[t] \in Row
      BY DEF TypeOK
    <3>2. r.token = w /\ r.input = found[w][t] /\ r.success = row[t].success
      BY <3>1, ClaimedRow
    <3>3. out[t].src < found[w][t] /\ row[t].success < found[w][t]
      BY <2>1, <2>4 DEF Claimable
    <3>4. row' = [row EXCEPT ![t] = r] /\ claimed' = [claimed EXCEPT ![w][t] = found[w][t]]
      BY <2>1, <2>4
    <3> HIDE DEF r
    <3>5. row'[t] = r /\ \A u \in Thread \ {t} : row'[u] = row[u]
      BY <3>4 DEF TypeOK
    <3>6. /\ claimed'[w][t] = found[w][t]
          /\ \A v \in Worker, u \in Thread : v # w \/ u # t => claimed'[v][u] = claimed[v][u]
      BY <3>4 DEF TypeOK
    <3>7. ClaimInv'
      <4> SUFFICES ASSUME NEW u \in Thread, row'[u].status = "running"
                   PROVE  /\ out'[u].src < row'[u].input /\ row'[u].success < row'[u].input
                          /\ \A v \in Worker : row'[u].token = v /\ claimed'[v][u] # 0
                               => claimed'[v][u] = row'[u].input
        BY DEF ClaimInv
      <4>1. CASE u = t
        BY <2>2, <3>2, <3>3, <3>5, <3>6, <4>1
      <4>2. CASE u # t
        BY <2>2, <3>5, <3>6, <4>2 DEF ClaimInv
      <4> QED
        BY <4>1, <4>2
    <3>8. SuccessHasItsOutput'
      BY <2>2, <3>2, <3>5 DEF SuccessHasItsOutput
    <3> QED
      BY <3>7, <3>8
  <2> QED
    BY <2>3, <2>4
<1>3. ASSUME NEW w \in Worker, ClaimsEnd(w) PROVE ClaimInv' /\ SuccessHasItsOutput'
  <2>1. \A v \in Worker, t \in Thread : claimed'[v][t] \in {0, claimed[v][t]}
    <3>1. claimed' = claimed \/ claimed' = [claimed EXCEPT ![w] = Nothing]
      BY <1>3 DEF ClaimsEnd
    <3>2. \A t \in Thread : Nothing[t] = 0
      BY DEF Nothing
    <3> QED
      BY <3>1, <3>2 DEF TypeOK
  <2> QED
    BY <1>3, <2>1, RowKept DEF ClaimsEnd
<1>4. ASSUME NEW w \in Worker, NEW t \in Thread, StageOneSucceeds(w, t)
      PROVE  ClaimInv' /\ SuccessHasItsOutput'
  <2>1. Extracted(w, t) /\ claimed[w][t] # 0 /\ row[t].status = "running" /\ row[t].token = w
    BY <1>4 DEF StageOneSucceeds, Owns, Extracted
  <2>2. claimed[w][t] = row[t].input /\ out[t].src < row[t].input
    BY <2>1 DEF ClaimInv
  <2>3. out' = [out EXCEPT ![t].src = row[t].input]
    BY <1>0, <1>4, <2>2 DEF StageOneSucceeds
  <2>4. out'[t].src = row[t].input /\ \A u \in Thread \ {t} : out'[u] = out[u]
    BY <2>3 DEF TypeOK, Output
  <2>5. row' = [row EXCEPT ![t] = Done(row[t], row[t].input)]
    BY <1>4 DEF StageOneSucceeds
  <2>6. /\ Done(row[t], row[t].input) \in Row /\ Done(row[t], row[t].input).status = "done"
        /\ Done(row[t], row[t].input).success = row[t].input
    BY <1>0, DoneRow
  <2> QED
    BY <2>1, <2>4, <2>5, <2>6, RowFinished
<1>5. ASSUME NEW w \in Worker, NEW t \in Thread, StageOneNoOutput(w, t)
      PROVE  ClaimInv' /\ SuccessHasItsOutput'
  <2>1. Extracted(w, t)
    BY <1>5 DEF StageOneNoOutput
  <2>2. out'[t].src = 0 /\ \A u \in Thread \ {t} : out'[u] = out[u]
    BY <1>5, AbsentRow DEF TypeOK, StageOneNoOutput
  <2>3. row' = [row EXCEPT ![t] = Done(row[t], row[t].input)]
    BY <1>5 DEF StageOneNoOutput
  <2>4. Done(row[t], row[t].input) \in Row /\ Done(row[t], row[t].input).status = "done"
    BY <1>0, DoneRow
  <2> QED
    BY <2>1, <2>2, <2>3, <2>4, RowFinished
<1>6. ASSUME NEW w \in Worker, NEW t \in Thread, StageOneFails(w, t)
      PROVE  ClaimInv' /\ SuccessHasItsOutput'
  <2>1. Extracted(w, t) /\ out' = out /\ row[t].retries > 0 /\ now \in Nat
    BY <1>6 DEF StageOneFails, Owns, RetriesLeft, TypeOK
  <2>2. row' = [row EXCEPT ![t] = Failed(row[t])]
    BY <1>6 DEF StageOneFails
  <2>3. Failed(row[t]) \in Row /\ Failed(row[t]).status = "error"
        /\ Failed(row[t]).success = row[t].success
    BY <1>0, <2>1, FailedRow
  <2> QED
    BY <2>1, <2>2, <2>3, RowFinished
<1>7. ASSUME NEW w \in Worker, NEW t \in Thread, StageOneLost(w, t)
      PROVE  ClaimInv' /\ SuccessHasItsOutput'
  <2>1. \A v \in Worker, u \in Thread : claimed'[v][u] \in {0, claimed[v][u]}
    BY <1>7 DEF TypeOK, StageOneLost, Extracted
  <2> QED
    BY <1>7, <2>1, RowKept DEF StageOneLost
<1>8. ASSUME NEW w \in Worker, Succeeds(w) PROVE ClaimInv' /\ SuccessHasItsOutput'
  <2>1. \A t \in Thread : out'[t].src = out[t].src
    BY <1>0, <1>8 DEF Succeeds, Output
  <2> QED
    BY <1>8, <2>1, RowKept DEF Succeeds
<1>9. ASSUME NEW w \in Worker, Crash(w) PROVE ClaimInv' /\ SuccessHasItsOutput'
  <2>1. \A v \in Worker, t \in Thread : claimed'[v][t] \in {0, claimed[v][t]}
    BY <1>9 DEF TypeOK, Crash, Nothing
  <2> QED
    BY <1>9, <2>1, RowKept DEF Crash
<1>10. ASSUME NEW t \in Thread, RecordUsage(t) PROVE ClaimInv' /\ SuccessHasItsOutput'
  <2>1. \A u \in Thread : out'[u].src = out[u].src
    BY <1>10 DEF TypeOK, RecordUsage, Output
  <2> QED
    BY <1>10, <2>1, RowKept DEF RecordUsage
<1>11. ASSUME NEW disable \in BOOLEAN, Clear(disable) PROVE ClaimInv' /\ SuccessHasItsOutput'
  BY <1>11, AbsentRow DEF Clear, ClaimInv, SuccessHasItsOutput
<1>12. CASE UNCHANGED <<row, out, claimed>>
  BY <1>12, RowKept
<1>13. ASSUME NEW w \in Worker,
              Scan(w) \/ ClaimGlobal(w) \/ Select(w) \/ Fails(w) \/ (Sync(w) /\ ~Succeeds(w))
                \/ (Heartbeat(w) /\ ~Fails(w))
       PROVE  UNCHANGED <<row, out, claimed>>
  BY <1>13 DEF Scan, ClaimGlobal, Select, Fails, Sync, Heartbeat
<1>14. ASSUME NEW t \in Thread, Touch(t) \/ Pollute(t) \/ Reconcile(t)
       PROVE  UNCHANGED <<row, out, claimed>>
  BY <1>14 DEF Touch, Pollute, Reconcile
<1>15. ASSUME Tick \/ UNCHANGED vars PROVE UNCHANGED <<row, out, claimed>>
  BY <1>15 DEF Tick, vars
<1> QED
  BY <1>1, <1>2, <1>3, <1>4, <1>5, <1>6, <1>7, <1>8, <1>9, <1>10, <1>11, <1>12, <1>13, <1>14, <1>15
  DEF Next, Pipeline, Environment, AgentCompletes, PhaseTwoFails

\* The retries of a row are checked where it is claimed and counted down where its
\* owner fails, which ends the claim.
LEMMA RetriesStep ==
  ASSUME TypeOK, RetriesLeft, [Next]_vars
  PROVE  RetriesLeft'
<1> USE DEF dbVars, localVars
<1>0. now \in Nat /\ global \in Row /\ \A t \in Thread : row[t] \in Row /\ row[t].input \in Nat
  BY DEF TypeOK, Row
<1>1. /\ global.status = "running" => global.retries > 0
      /\ \A t \in Thread : row[t].status = "running" => row[t].retries > 0
  BY DEF RetriesLeft
<1>2. SUFFICES /\ global'.status = "running" => global'.retries > 0
               /\ \A t \in Thread : row'[t].status = "running" => row'[t].retries > 0
  BY DEF RetriesLeft
<1>3. global'.status = "running" => global'.retries > 0
  <2>1. ASSUME NEW watermark \in Nat, global' = Enqueued(global, watermark)
        PROVE  global'.retries > 0
    BY <1>0, <2>1, EnqueuedRow
  <2>2. ASSUME NEW w \in Worker, NEW t \in Thread, StageOneSucceeds(w, t)
        PROVE  global'.retries > 0
    <3>1. claimed[w][t] \in Nat
      BY DEF TypeOK
    <3> QED
      BY <2>1, <2>2, <3>1 DEF StageOneSucceeds
  <2>3. ASSUME NEW w \in Worker, NEW t \in Thread, StageOneNoOutput(w, t)
        PROVE  UNCHANGED global \/ global'.retries > 0
    BY <1>0, <2>1, <2>3 DEF StageOneNoOutput
  <2>4. ASSUME NEW t \in Thread, Pollute(t) PROVE UNCHANGED global \/ global'.retries > 0
    BY <1>0, <2>1, <2>4 DEF Pollute
  <2>5. ASSUME NEW w \in Worker, ClaimGlobal(w) PROVE UNCHANGED global \/ global'.retries > 0
    BY <1>0, <2>5, RunningRow DEF ClaimGlobal, GlobalClaimable
  <2>6. ASSUME NEW w \in Worker, Succeeds(w) PROVE UNCHANGED global \/ global'.status = "done"
    <3>1. global.success \in Nat /\ wm[w] \in Nat
      BY DEF TypeOK, Row
    <3>2. Max({global.success, wm[w]}) \in Nat
      BY <3>1, MaxOfTwo
    <3> QED
      BY <1>0, <2>6, <3>2, DoneRow DEF Succeeds
  <2>7. ASSUME NEW w \in Worker, Fails(w) PROVE UNCHANGED global \/ global'.status = "error"
    BY <1>0, <1>1, <2>7, FailedRow DEF Fails
  <2>8. ASSUME NEW w \in Worker, Heartbeat(w), ~Fails(w)
        PROVE  global'.retries > 0
    BY <1>0, <1>1, <2>8 DEF Heartbeat, Owns, Row
  <2>9. ASSUME NEW disable \in BOOLEAN, Clear(disable) PROVE global'.status = "absent"
    BY <2>9, AbsentRow DEF Clear
  <2>10. ASSUME NEW w \in Worker,
                Prune(w) \/ Scan(w) \/ ClaimNext(w) \/ ClaimsEnd(w) \/ Select(w) \/ Crash(w)
                  \/ (Sync(w) /\ ~Succeeds(w))
         PROVE  UNCHANGED global
    BY <2>10 DEF Prune, Scan, ClaimNext, ClaimsEnd, Select, Crash, Sync
  <2>11. ASSUME NEW w \in Worker, NEW t \in Thread, StageOneFails(w, t) \/ StageOneLost(w, t)
         PROVE  UNCHANGED global
    BY <2>11 DEF StageOneFails, StageOneLost
  <2>12. ASSUME NEW t \in Thread, Touch(t) \/ RecordUsage(t) \/ Reconcile(t) PROVE UNCHANGED global
    BY <2>12 DEF Touch, RecordUsage, Reconcile
  <2>13. ASSUME Tick \/ UNCHANGED vars PROVE UNCHANGED global
    BY <2>13 DEF Tick, vars
  <2> QED
    BY <1>1, <2>2, <2>3, <2>4, <2>5, <2>6, <2>7, <2>8, <2>9, <2>10, <2>11, <2>12, <2>13
    DEF Next, Pipeline, Environment, AgentCompletes, PhaseTwoFails
<1>4. ASSUME NEW u \in Thread PROVE row'[u].status = "running" => row'[u].retries > 0
  <2>1. ASSUME NEW w \in Worker, ClaimNext(w) PROVE row'[u] = row[u] \/ row'[u].retries > 0
    <3>1. PICK t \in Thread :
            \/ /\ Claimable(t, found[w][t])
               /\ row' = [row EXCEPT ![t] = RunningAt(w, row[t], found[w][t])]
            \/ UNCHANGED row
      BY <2>1 DEF ClaimNext
    <3>2. found[w][t] \in Nat /\ row[t] \in Row
      BY DEF TypeOK
    <3>3. RunningAt(w, row[t], found[w][t]).retries
            = (IF found[w][t] > row[t].input THEN Retries ELSE row[t].retries)
      BY <1>0, <3>2, ClaimedRow
    <3>4. Claimable(t, found[w][t]) => RunningAt(w, row[t], found[w][t]).retries > 0
      BY <3>3, Durations DEF Claimable
    <3> QED
      BY <3>1, <3>4 DEF TypeOK
  <2>2. ASSUME NEW w \in Worker, NEW t \in Thread, StageOneSucceeds(w, t) \/ StageOneNoOutput(w, t)
        PROVE  row'[u] = row[u] \/ row'[u].status = "done"
    <3>1. row' = [row EXCEPT ![t] = Done(row[t], row[t].input)]
      BY <2>2 DEF StageOneSucceeds, StageOneNoOutput
    <3>2. Done(row[t], row[t].input).status = "done"
      BY <1>0, DoneRow
    <3> QED
      BY <3>1, <3>2 DEF TypeOK
  <2>3. ASSUME NEW w \in Worker, NEW t \in Thread, StageOneFails(w, t)
        PROVE  row'[u] = row[u] \/ row'[u].status = "error"
    <3>1. row' = [row EXCEPT ![t] = Failed(row[t])] /\ row[t].status = "running"
      BY <2>3 DEF StageOneFails, Owns
    <3>2. Failed(row[t]).status = "error"
      BY <1>0, <1>1, <3>1, FailedRow
    <3> QED
      BY <3>1, <3>2 DEF TypeOK
  <2>4. ASSUME NEW disable \in BOOLEAN, Clear(disable) PROVE row'[u].status = "absent"
    BY <2>4, AbsentRow DEF Clear
  <2>5. ASSUME NEW w \in Worker, NEW t \in Thread, StageOneLost(w, t) PROVE UNCHANGED row
    BY <2>5 DEF StageOneLost
  <2>6. ASSUME NEW w \in Worker,
               Prune(w) \/ Scan(w) \/ ClaimsEnd(w) \/ ClaimGlobal(w) \/ Select(w) \/ Sync(w)
                 \/ Heartbeat(w) \/ AgentCompletes(w) \/ PhaseTwoFails(w) \/ Crash(w)
        PROVE  UNCHANGED row
    BY <2>6 DEF Prune, Scan, ClaimsEnd, ClaimGlobal, Select, Sync, Heartbeat, AgentCompletes,
                PhaseTwoFails, Succeeds, Fails, Crash
  <2>7. ASSUME NEW t \in Thread, Touch(t) \/ RecordUsage(t) \/ Pollute(t) \/ Reconcile(t)
        PROVE  UNCHANGED row
    BY <2>7 DEF Touch, RecordUsage, Pollute, Reconcile
  <2>8. ASSUME Tick \/ UNCHANGED vars PROVE UNCHANGED row
    BY <2>8 DEF Tick, vars
  <2> QED
    BY <1>1, <2>1, <2>2, <2>3, <2>4, <2>5, <2>6, <2>7, <2>8 DEF Next, Pipeline, Environment
<1> QED
  BY <1>3, <1>4

\* The leases that run.
LiveRows == {t \in Thread : Live(row[t])}

\* Leases are only given by a claim; anything else, the clock included, can end them.
LEMMA BoundKept ==
  ASSUME RunningBounded, LiveRows' \subseteq LiveRows
  PROVE  RunningBounded'
<1>1. IsFiniteSet(LiveRows)
  <2>1. LiveRows \in SUBSET Thread
    BY DEF LiveRows
  <2> QED
    BY <2>1, SetAssumption, FS_Subset
<1>2. IsFiniteSet(LiveRows') /\ Cardinality(LiveRows') <= Cardinality(LiveRows)
  BY <1>1, FS_Subset
<1>3. Cardinality(LiveRows) \in Nat /\ Cardinality(LiveRows') \in Nat
  BY <1>1, <1>2, FS_CardinalityType
<1> QED
  BY <1>2, <1>3, Durations DEF RunningBounded, LiveRows

\* Every step keeps the cap on the leased extractions.
LEMMA BoundStep ==
  ASSUME TypeOK, RetriesLeft, RunningBounded, [Next]_vars
  PROVE  RunningBounded'
<1> USE DEF dbVars, localVars
<1>0. now \in Nat /\ \A t \in Thread : row[t] \in Row /\ row[t].input \in Nat /\ row[t].lease \in Nat
  BY DEF TypeOK, Row
<1>1. CASE UNCHANGED <<row, now>>
  BY <1>1, BoundKept DEF LiveRows, Live
<1>2. ASSUME NEW t \in Thread, NEW r, r.status # "running", row' = [row EXCEPT ![t] = r], now' = now
      PROVE  RunningBounded'
  <2>1. LiveRows' \subseteq LiveRows
    BY <1>2 DEF TypeOK, LiveRows, Live
  <2> QED
    BY <2>1, BoundKept
<1>3. ASSUME NEW w \in Worker, ClaimNext(w) PROVE RunningBounded'
  <2>1. PICK t \in Thread :
          \/ /\ Claimable(t, found[w][t])
             /\ row' = [row EXCEPT ![t] = RunningAt(w, row[t], found[w][t])]
          \/ UNCHANGED row
    BY <1>3 DEF ClaimNext
  <2>2. now' = now
    BY <1>3 DEF ClaimNext
  <2>3. CASE ~UNCHANGED row
    <3> DEFINE others == {u \in Thread \ {t} : Live(row[u])}
    <3>1. Cardinality(others) < MaxClaimed
      BY <2>1, <2>3 DEF Claimable
    <3>2. IsFiniteSet(others)
      <4>1. others \in SUBSET Thread
        OBVIOUS
      <4> QED
        BY <4>1, SetAssumption, FS_Subset
    <3>3. LiveRows' \in SUBSET (others \cup {t})
      <4>1. \A u \in Thread \ {t} : row'[u] = row[u]
        BY <2>1, <2>3 DEF TypeOK
      <4> QED
        BY <2>2, <4>1 DEF LiveRows, Live
    <3> HIDE DEF others
    <3>4. /\ IsFiniteSet(others \cup {t})
          /\ Cardinality(others \cup {t}) <= Cardinality(others) + 1
          /\ Cardinality(others) \in Nat /\ Cardinality(others \cup {t}) \in Nat
      <4>1. Cardinality(others) \in Nat
        BY <3>2, FS_CardinalityType
      <4>2. /\ IsFiniteSet(others \cup {t})
            /\ Cardinality(others \cup {t})
                 = IF t \in others THEN Cardinality(others) ELSE Cardinality(others) + 1
        BY <3>2, FS_AddElement
      <4> QED
        BY <4>1, <4>2
    <3>5. IsFiniteSet(LiveRows') /\ Cardinality(LiveRows') <= Cardinality(others \cup {t})
      BY <3>3, <3>4, FS_Subset
    <3>6. Cardinality(LiveRows') \in Nat
      BY <3>5, FS_CardinalityType
    <3> QED
      BY <3>1, <3>4, <3>5, <3>6, Durations DEF RunningBounded, LiveRows
  <2> QED
    BY <1>1, <2>1, <2>2, <2>3
<1>4. ASSUME NEW w \in Worker, NEW t \in Thread, StageOneSucceeds(w, t) \/ StageOneNoOutput(w, t)
      PROVE  RunningBounded'
  <2>1. row' = [row EXCEPT ![t] = Done(row[t], row[t].input)] /\ now' = now
    BY <1>4 DEF StageOneSucceeds, StageOneNoOutput, Extracted
  <2>2. Done(row[t], row[t].input).status # "running"
    BY <1>0, DoneRow
  <2> QED
    BY <1>2, <2>1, <2>2
<1>5. ASSUME NEW w \in Worker, NEW t \in Thread, StageOneFails(w, t) PROVE RunningBounded'
  <2>1. row' = [row EXCEPT ![t] = Failed(row[t])] /\ now' = now /\ row[t].status = "running"
    BY <1>5 DEF StageOneFails, Extracted, Owns
  <2>2. row[t].retries > 0
    BY <2>1 DEF RetriesLeft
  <2>3. Failed(row[t]).status # "running"
    BY <1>0, <2>2, FailedRow
  <2> QED
    BY <1>2, <2>1, <2>3
<1>6. CASE Tick
  <2>1. LiveRows' \subseteq LiveRows
    BY <1>0, <1>6 DEF Tick, LiveRows, Live
  <2> QED
    BY <2>1, BoundKept
<1>7. ASSUME NEW disable \in BOOLEAN, Clear(disable) PROVE RunningBounded'
  <2>1. LiveRows' \subseteq LiveRows
    BY <1>7, AbsentRow DEF Clear, LiveRows, Live
  <2> QED
    BY <2>1, BoundKept
<1>8. ASSUME NEW w \in Worker, NEW t \in Thread, StageOneLost(w, t) PROVE UNCHANGED <<row, now>>
  BY <1>8 DEF StageOneLost, Extracted
<1>9. ASSUME NEW w \in Worker,
             Prune(w) \/ Scan(w) \/ ClaimsEnd(w) \/ ClaimGlobal(w) \/ Select(w) \/ Sync(w)
               \/ Heartbeat(w) \/ AgentCompletes(w) \/ PhaseTwoFails(w) \/ Crash(w)
      PROVE  UNCHANGED <<row, now>>
  BY <1>9 DEF Prune, Scan, ClaimsEnd, ClaimGlobal, Select, Sync, Heartbeat, AgentCompletes,
              PhaseTwoFails, Succeeds, Fails, Crash
<1>10. ASSUME NEW t \in Thread, Touch(t) \/ RecordUsage(t) \/ Pollute(t) \/ Reconcile(t)
       PROVE  UNCHANGED <<row, now>>
  BY <1>10 DEF Touch, RecordUsage, Pollute, Reconcile
<1>11. ASSUME UNCHANGED vars PROVE UNCHANGED <<row, now>>
  BY <1>11 DEF vars
<1> QED
  BY <1>1, <1>3, <1>4, <1>5, <1>6, <1>7, <1>8, <1>9, <1>10, <1>11 DEF Next, Pipeline, Environment

\* An enqueue of a change leaves the global row dirty and its input watermark past
\* whatever its owner has read.
LEMMA EnqueueKept ==
  ASSUME TypeOK, WatermarkInv, NEW watermark \in Nat,
         global' = Enqueued(global, watermark), UNCHANGED <<pc, wm>>,
         \A t \in Thread : out'[t].src \in {0, out[t].src, watermark}
  PROVE  WatermarkInv' /\ NoLostChange'
<1>1. global \in Row /\ global.input \in Nat /\ global.success \in Nat
  BY DEF TypeOK, Row
<1>2. /\ global' \in Row
      /\ global'.status = "running" <=> global.status = "running"
      /\ global'.token = global.token /\ global'.success = global.success
      /\ global'.input > global.input /\ global'.input >= watermark
  BY <1>1, EnqueuedRow
<1>3. global'.input \in Nat
  BY <1>2 DEF Row
<1>4. global'.success <= global'.input /\ Dirty'
  BY <1>1, <1>2, <1>3 DEF WatermarkInv, Dirty
<1>5. ASSUME NEW t \in Thread PROVE out'[t].src <= global'.input
  <2>1. out[t].src \in Nat /\ out[t].src <= global.input
    BY DEF TypeOK, Output, WatermarkInv
  <2> QED
    BY <1>1, <1>2, <1>3, <2>1
<1>6. ASSUME NEW w \in Worker, Owns(w, global)', pc'[w] \in {"select", "sync", "agent"}
      PROVE  wm'[w] < global'.input
  <2>1. wm[w] \in Nat /\ wm[w] <= global.input
    BY <1>2, <1>6 DEF TypeOK, Owns, WatermarkInv
  <2> QED
    BY <1>1, <1>2, <1>3, <2>1
<1>7. \A w \in Worker : wm'[w] \in Nat
  BY DEF TypeOK
<1>8. WatermarkInv'
  BY <1>3, <1>4, <1>5, <1>6, <1>7 DEF WatermarkInv
<1> QED
  BY <1>4, <1>8 DEF NoLostChange

\* A step that enqueues nothing and gives the global row no new owner.
LEMMA WatermarkKept ==
  ASSUME TypeOK, WatermarkInv, NoLostChange,
         global'.input = global.input, global'.success = global.success,
         \A t \in Thread : out'[t].src \in {0, out[t].src},
         \A w \in Worker : Owns(w, global)' => Owns(w, global),
         \A w \in Worker : pc'[w] = "done" \/ (pc'[w] = pc[w] /\ wm'[w] = wm[w] /\ seen'[w] = seen[w]),
         UNCHANGED owed
  PROVE  WatermarkInv' /\ NoLostChange'
<1>1. global.input \in Nat
  BY DEF TypeOK, Row
<1>2. WatermarkInv'
  BY <1>1 DEF WatermarkInv
<1> QED
  BY <1>2 DEF NoLostChange, Dirty

\* The success of a consolidation moves the success watermark up to what it has read,
\* which is below the input watermark if a change came after that.
LEMMA SuccessKept ==
  ASSUME TypeOK, WatermarkInv, NoLostChange, NEW w \in Worker, Succeeds(w),
         pc[w] \in {"sync", "agent"}
  PROVE  WatermarkInv' /\ NoLostChange'
<1>0. /\ global \in Row /\ global.success \in Nat /\ global.input \in Nat /\ wm[w] \in Nat
      /\ \A t \in Thread : out[t] \in Output /\ out[t].src \in Nat
  BY DEF TypeOK, Row, Output
<1>1. \A v \in Worker : /\ v # w => pc'[v] = pc[v] /\ wm'[v] = wm[v] /\ seen'[v] = seen[v]
                        /\ pc'[w] = "done"
  BY DEF TypeOK, Succeeds, Leaves, Go
<1>2. CASE ~Owns(w, global)
  <2>1. UNCHANGED <<global, out, owed>>
    BY <1>2 DEF Succeeds
  <2> QED
    BY <1>1, <2>1, WatermarkKept DEF Owns
<1>3. CASE Owns(w, global)
  <2> DEFINE m == Max({global.success, wm[w]})
  <2>1. m \in {global.success, wm[w]}
    BY <1>0, MaxOfTwo
  <2>2. wm[w] <= global.input /\ global.success <= global.input
    BY <1>3 DEF WatermarkInv
  <2>3. global' = Done(global, m) /\ m \in Nat
    BY <1>0, <1>3, <2>1 DEF Succeeds
  <2> HIDE DEF m
  <2>4. global'.status = "done" /\ global'.input = global.input /\ global'.success = m
    BY <1>0, <2>3, DoneRow
  <2>5. \A t \in Thread : out'[t].src = out[t].src
    BY <1>0, <1>3 DEF Succeeds, Output
  <2>6. WatermarkInv'
    BY <1>0, <2>1, <2>2, <2>4, <2>5 DEF WatermarkInv, Owns
  <2>7. NoLostChange'
    <3> SUFFICES ASSUME owed' # {} PROVE global'.input > global'.success
      BY DEF NoLostChange, Dirty
    <3>1. owed' = owed \ seen[w]
      BY <1>3 DEF Succeeds
    <3>2. global.input > global.success
      BY <3>1 DEF NoLostChange, Dirty
    <3>3. wm[w] < global.input
      BY <1>3, <3>1 DEF WatermarkInv
    <3> QED
      BY <1>0, <2>1, <2>4, <3>2, <3>3
  <2> QED
    BY <2>6, <2>7
<1> QED
  BY <1>2, <1>3

\* A failure of phase 2 gives the row up or leaves it.
LEMMA FailureKept ==
  ASSUME TypeOK, WatermarkInv, NoLostChange, RetriesLeft, NEW w \in Worker, Fails(w)
  PROVE  WatermarkInv' /\ NoLostChange'
<1>1. \A v \in Worker : /\ v # w => pc'[v] = pc[v] /\ wm'[v] = wm[v] /\ seen'[v] = seen[v]
                        /\ pc'[w] = "done"
  BY DEF TypeOK, Fails, Leaves, Go
<1>2. UNCHANGED <<out, owed>>
  BY DEF Fails
<1>3. /\ global'.input = global.input /\ global'.success = global.success
      /\ global'.status = "running" => global' = global
  <2>1. CASE global.status = "running" /\ global.token \in {w, None}
    <3>1. global \in Row /\ now \in Nat /\ global.retries > 0
      BY <2>1 DEF TypeOK, RetriesLeft
    <3> QED
      BY <2>1, <3>1, FailedRow DEF Fails
  <2>2. CASE ~(global.status = "running" /\ global.token \in {w, None})
    BY <2>2 DEF Fails
  <2> QED
    BY <2>1, <2>2
<1>4. \A v \in Worker : Owns(v, global)' => Owns(v, global)
  BY <1>3 DEF Owns
<1> QED
  BY <1>1, <1>2, <1>3, <1>4, WatermarkKept

\* No step forgets a change.
LEMMA WatermarkStep ==
  ASSUME TypeOK, WatermarkInv, NoLostChange, RetriesLeft, [Next]_vars
  PROVE  WatermarkInv' /\ NoLostChange'
<1> USE DEF dbVars, localVars
<1>0. /\ now \in Nat /\ global \in Row /\ global.input \in Nat /\ global.success \in Nat
      /\ \A t \in Thread : /\ row[t] \in Row /\ row[t].input \in Nat
                           /\ out[t] \in Output /\ out[t].src \in Nat
      /\ \A w \in Worker : wm[w] \in Nat /\ \A t \in Thread : claimed[w][t] \in Nat
  BY DEF TypeOK, Row, Output
<1>1. ASSUME NEW w \in Worker, Prune(w) PROVE WatermarkInv' /\ NoLostChange'
  <2>1. \A t \in Thread : out'[t].src \in {0, out[t].src}
    BY <1>1, AbsentRow DEF Prune
  <2>2. pc'[w] = "scan" /\ \A v \in Worker \ {w} : pc'[v] = pc[v]
    BY <1>1 DEF TypeOK, Prune, Go
  <2>3. WatermarkInv'
    BY <1>0, <1>1, <2>1, <2>2 DEF WatermarkInv, Prune, Owns
  <2> QED
    BY <1>1, <2>3 DEF NoLostChange, Dirty, Prune
<1>2. ASSUME NEW w \in Worker, Scan(w) \/ ClaimsEnd(w) PROVE WatermarkInv' /\ NoLostChange'
  <2>1. pc'[w] \in {"claim", "extract"} /\ \A v \in Worker \ {w} : pc'[v] = pc[v]
    BY <1>2 DEF TypeOK, Scan, ClaimsEnd, Go
  <2>2. UNCHANGED <<global, out, wm, owed, seen>>
    BY <1>2 DEF Scan, ClaimsEnd
  <2>3. WatermarkInv'
    BY <2>1, <2>2 DEF WatermarkInv, Owns
  <2> QED
    BY <2>2, <2>3 DEF NoLostChange, Dirty
<1>3. ASSUME NEW w \in Worker, ClaimNext(w) PROVE WatermarkInv' /\ NoLostChange'
  BY <1>3, WatermarkKept DEF ClaimNext, Owns
<1>4. ASSUME NEW w \in Worker, NEW t \in Thread, StageOneSucceeds(w, t)
      PROVE  WatermarkInv' /\ NoLostChange'
  <2>1. \A u \in Thread : out'[u].src \in {0, out[u].src, claimed[w][t]}
    BY <1>0, <1>4 DEF TypeOK, StageOneSucceeds, Output
  <2> QED
    BY <1>0, <1>4, <2>1, EnqueueKept DEF StageOneSucceeds, Extracted
<1>5. ASSUME NEW w \in Worker, NEW t \in Thread, StageOneNoOutput(w, t)
      PROVE  WatermarkInv' /\ NoLostChange'
  <2>1. \A u \in Thread : out'[u].src \in {0, out[u].src}
    BY <1>5, AbsentRow DEF TypeOK, StageOneNoOutput
  <2>2. UNCHANGED <<pc, wm>>
    BY <1>5 DEF StageOneNoOutput, Extracted
  <2>3. CASE out[t].src = 0
    BY <1>5, <2>1, <2>2, <2>3, WatermarkKept DEF StageOneNoOutput, Owns
  <2>4. CASE out[t].src # 0
    BY <1>0, <1>5, <2>1, <2>2, <2>4, EnqueueKept DEF StageOneNoOutput
  <2> QED
    BY <2>3, <2>4
<1>6. ASSUME NEW w \in Worker, NEW t \in Thread, StageOneFails(w, t) \/ StageOneLost(w, t)
      PROVE  WatermarkInv' /\ NoLostChange'
  BY <1>6, WatermarkKept DEF StageOneFails, StageOneLost, Extracted, Owns
<1>7. ASSUME NEW w \in Worker, ClaimGlobal(w) PROVE WatermarkInv' /\ NoLostChange'
  <2>1. \A v \in Worker \ {w} : pc'[v] = pc[v] /\ wm'[v] = wm[v]
    BY <1>7 DEF TypeOK, ClaimGlobal, Go
  <2>2. UNCHANGED <<out, owed, seen>>
    BY <1>7 DEF ClaimGlobal
  <2>3. CASE global' = global /\ pc'[w] = "done"
    BY <2>1, <2>2, <2>3, WatermarkKept DEF Owns
  <2>4. CASE ~(global' = global /\ pc'[w] = "done")
    <3>1. global' = Running(w, global) /\ wm'[w] = global.input /\ pc'[w] = "select"
      BY <1>7, <2>4 DEF TypeOK, ClaimGlobal, Go
    <3>2. /\ global'.token = w /\ global'.input = global.input
          /\ global'.success = global.success
      BY <1>0, <3>1, RunningRow
    <3>3. WatermarkInv'
      BY <1>0, <2>1, <2>2, <3>1, <3>2 DEF WatermarkInv, Owns
    <3> QED
      BY <2>2, <3>2, <3>3 DEF NoLostChange, Dirty
  <2> QED
    BY <2>3, <2>4
<1>8. ASSUME NEW w \in Worker, Select(w) PROVE WatermarkInv' /\ NoLostChange'
  <2>1. PICK S \in SUBSET Thread : wm' = [wm EXCEPT ![w] = Max({@} \cup {out[t].src : t \in S})]
    BY <1>8 DEF Select
  <2>2. wm'[w] = wm[w] \/ wm'[w] <= global.input
    BY <2>1, SelectedWatermark DEF TypeOK
  <2>3. pc[w] = "select" /\ pc'[w] = "sync" /\ seen'[w] = owed
    BY <1>8 DEF TypeOK, Select, Go
  <2>4. \A v \in Worker \ {w} : pc'[v] = pc[v] /\ wm'[v] = wm[v] /\ seen'[v] = seen[v]
    BY <1>8, <2>1 DEF TypeOK, Select, Go
  <2>5. UNCHANGED <<global, out, owed>>
    BY <1>8 DEF Select
  <2>6. WatermarkInv'
    BY <1>0, <2>2, <2>3, <2>4, <2>5 DEF WatermarkInv, Owns
  <2> QED
    BY <2>5, <2>6 DEF NoLostChange, Dirty
<1>9. ASSUME NEW w \in Worker, Sync(w) PROVE WatermarkInv' /\ NoLostChange'
  <2>1. CASE Succeeds(w)
    BY <1>9, <2>1, SuccessKept DEF Sync
  <2>2. CASE ~Succeeds(w)
    <3>1. pc[w] = "sync" /\ pc'[w] = "agent" /\ \A v \in Worker \ {w} : pc'[v] = pc[v]
      BY <1>9, <2>2 DEF TypeOK, Sync, Go
    <3>2. UNCHANGED <<global, out, wm, owed, seen>>
      BY <1>9, <2>2 DEF Sync
    <3>3. WatermarkInv'
      BY <3>1, <3>2 DEF WatermarkInv, Owns
    <3> QED
      BY <3>2, <3>3 DEF NoLostChange, Dirty
  <2> QED
    BY <2>1, <2>2
<1>10. ASSUME NEW w \in Worker, Heartbeat(w) PROVE WatermarkInv' /\ NoLostChange'
  <2>1. CASE Fails(w)
    BY <2>1, FailureKept
  <2>2. CASE ~Fails(w)
    <3>1. /\ global'.input = global.input /\ global'.success = global.success
          /\ global'.status = global.status /\ global'.token = global.token
      BY <1>0, <1>10, <2>2 DEF Heartbeat, Row
    <3> QED
      BY <1>10, <2>2, <3>1, WatermarkKept DEF Heartbeat, Owns
  <2> QED
    BY <2>1, <2>2
<1>11. ASSUME NEW w \in Worker, AgentCompletes(w) PROVE WatermarkInv' /\ NoLostChange'
  BY <1>11, SuccessKept DEF AgentCompletes
<1>12. ASSUME NEW w \in Worker, PhaseTwoFails(w) PROVE WatermarkInv' /\ NoLostChange'
  BY <1>12, FailureKept DEF PhaseTwoFails
<1>13. ASSUME NEW w \in Worker, Crash(w) PROVE WatermarkInv' /\ NoLostChange'
  <2>1. \A v \in Worker : /\ v # w => pc'[v] = pc[v] /\ wm'[v] = wm[v] /\ seen'[v] = seen[v]
                          /\ pc'[w] = "done"
    BY <1>13 DEF TypeOK, Crash, Leaves, Go
  <2> QED
    BY <1>13, <2>1, WatermarkKept DEF Crash, Owns
<1>14. ASSUME NEW t \in Thread, RecordUsage(t) PROVE WatermarkInv' /\ NoLostChange'
  <2>1. \A u \in Thread : out'[u].src = out[u].src
    BY <1>14 DEF TypeOK, RecordUsage, Output
  <2> QED
    BY <1>14, <2>1, WatermarkKept DEF RecordUsage, Owns
<1>15. ASSUME NEW t \in Thread, Pollute(t) PROVE WatermarkInv' /\ NoLostChange'
  <2>1. CASE out[t].selected # 0
    BY <1>0, <1>15, <2>1, EnqueueKept DEF Pollute
  <2>2. CASE out[t].selected = 0
    BY <1>15, <2>2, WatermarkKept DEF Pollute, Owns
  <2> QED
    BY <2>1, <2>2
<1>16. ASSUME NEW t \in Thread, Touch(t) \/ Reconcile(t) PROVE WatermarkInv' /\ NoLostChange'
  BY <1>16, WatermarkKept DEF Touch, Reconcile, Owns
<1>17. CASE Tick \/ UNCHANGED vars
  BY <1>17, WatermarkKept DEF Tick, vars, Owns
<1>18. ASSUME NEW disable \in BOOLEAN, Clear(disable) PROVE WatermarkInv' /\ NoLostChange'
  BY <1>18, AbsentRow DEF Clear, WatermarkInv, NoLostChange, Owns
<1> QED
  BY <1>1, <1>2, <1>3, <1>4, <1>5, <1>6, <1>7, <1>8, <1>9, <1>10, <1>11, <1>12, <1>13, <1>14,
     <1>15, <1>16, <1>17, <1>18
  DEF Next, Pipeline, Environment

------------------------------------------------------------------------------
(* The invariant, and what follows from it.                                  *)

\* The invariant holds before the first startup.
LEMMA Initially == Init => IndInv
<1> SUFFICES ASSUME Init PROVE IndInv
  OBVIOUS
<1>1. TypeOK
  BY AbsentRow DEF Init, TypeOK, Label, Nothing
<1>2. \A t \in Thread : row[t].status = "absent" /\ row[t].success = 0 /\ out[t].src = 0
  BY AbsentRow DEF Init
<1>3. /\ global.status = "absent" /\ global.input = 0 /\ global.success = 0
  BY AbsentRow DEF Init
<1>4. LocalInv
  BY DEF Init, LocalInv, Nothing
<1>5. ClaimInv /\ WatermarkInv /\ NoLostChange /\ SuccessHasItsOutput /\ RetriesLeft
  BY <1>2, <1>3 DEF Init, ClaimInv, WatermarkInv, Owns, NoLostChange, SuccessHasItsOutput, RetriesLeft
<1>6. RunningBounded
  <2>1. {t \in Thread : Live(row[t])} = {}
    BY <1>2 DEF Live
  <2> QED
    BY <2>1, FS_EmptySet, Durations DEF RunningBounded
<1> QED
  BY <1>1, <1>4, <1>5, <1>6 DEF IndInv

\* Every step keeps it.
LEMMA Inductive == IndInv /\ [Next]_vars => IndInv'
  BY TypeStep, LocalStep, RowStep, WatermarkStep, BoundStep, RetriesStep DEF IndInv

\* It holds in every state.
LEMMA Invariance == Spec => []IndInv
  BY Initially, Inductive, PTL DEF Spec

\* Every variable keeps its type: no retry counter of try_claim_..., mark_..._failed
\* and their fallback is counted below zero.
THEOREM TypeCorrect == Spec => []TypeOK
  BY Invariance, PTL DEF IndInv

\* As long as a change of a memory has not been read by a consolidation that then
\* succeeded, the global job is dirty and will be given to a later worker.
THEOREM ChangesKept == Spec => []NoLostChange
  BY Invariance, PTL DEF IndInv

\* The success watermark of a thread's job and its output are of the same update,
\* whoever lost a lease and reported late.
THEOREM OutputsMatch == Spec => []SuccessHasItsOutput
  BY Invariance, PTL DEF IndInv

\* No more than max_running_jobs extractions are leased at a time.
THEOREM CapKept == Spec => []RunningBounded
  BY Invariance, PTL DEF IndInv

\* A running job has an attempt left to lose.
THEOREM AttemptsLeft == Spec => []RetriesLeft
  BY Invariance, PTL DEF IndInv

------------------------------------------------------------------------------
(* The rows implement FencedJobs.                                            *)

\* The variables of FencedJobs, as the rows and the workers show them.
Job == Thread \cup {Global}
Holder(j) == IF JobRow(j).status = "running" THEN JobRow(j).token ELSE None
State(j, w) == IF TakesUp(w, j) THEN "working" ELSE IF MayTakeUp(w, j) THEN "new" ELSE "over"

\* A step that does nothing about a job.
LEMMA JobRests ==
  ASSUME NEW j \in Job, Holder(j)' = Holder(j), JobRow(j).success' = JobRow(j).success,
         \A w \in Worker : State(j, w)' = State(j, w)
  PROVE  Jobs!Step(j)
  BY DEF Jobs!Step, Jobs!Rests, Job, Holder, State

\* A step that is a claim of a job.
LEMMA JobAcquired ==
  ASSUME NEW j \in Job, NEW w \in Worker,
         State(j, w) = "new", State(j, w)' = "working",
         \A v \in Worker \ {w} : State(j, v)' = State(j, v),
         Holder(j)' = w, JobRow(j).success' = JobRow(j).success
  PROVE  Jobs!Step(j)
<1>1. Jobs!Acquire(j, w)
  BY DEF Jobs!Acquire, Jobs!Moves, Job, Holder, State
<1> QED
  BY <1>1 DEF Jobs!Step

\* A step that is the success of a job's owner.
LEMMA JobCommitted ==
  ASSUME NEW j \in Job, NEW w \in Worker,
         State(j, w) = "working", State(j, w)' = "over",
         \A v \in Worker \ {w} : State(j, v)' = State(j, v),
         Holder(j) = w, Holder(j)' = None, JobRow(j).success' >= JobRow(j).success
  PROVE  Jobs!Step(j)
<1>1. Jobs!Commit(j, w)
  BY DEF Jobs!Commit, Jobs!Moves, Job, Holder, State
<1> QED
  BY <1>1 DEF Jobs!Step

\* A step in which a worker is through with a job without success.
LEMMA JobLeft ==
  ASSUME NEW j \in Job, NEW w \in Worker,
         State(j, w) \in {"new", "working"}, State(j, w)' = "over",
         \A v \in Worker \ {w} : State(j, v)' = State(j, v),
         Holder(j)' = Holder(j) \/ (Holder(j) = w /\ Holder(j)' = None),
         JobRow(j).success' = JobRow(j).success
  PROVE  Jobs!Step(j)
<1>1. Jobs!Leave(j, w)
  BY DEF Jobs!Leave, Jobs!Moves, Job, Holder, State
<1> QED
  BY <1>1 DEF Jobs!Step

\* What the mapping is for a thread's job, before and after a step ...
LEMMA ThreadJob ==
  ASSUME NEW t \in Thread
  PROVE  /\ JobRow(t) = row[t] /\ JobRow(t)' = row'[t]
         /\ Holder(t) = IF row[t].status = "running" THEN row[t].token ELSE None
         /\ Holder(t)' = IF row'[t].status = "running" THEN row'[t].token ELSE None
         /\ \A w \in Worker :
              /\ State(t, w) = IF claimed[w][t] # 0 THEN "working"
                               ELSE IF pc[w] \in {"off", "scan"} \/ found[w][t] # 0 THEN "new"
                               ELSE "over"
              /\ State(t, w)' = IF claimed'[w][t] # 0 THEN "working"
                                ELSE IF pc'[w] \in {"off", "scan"} \/ found'[w][t] # 0 THEN "new"
                                ELSE "over"
<1>1. t # Global
  BY SetAssumption
<1> QED
  BY <1>1 DEF JobRow, Holder, State, TakesUp, MayTakeUp

\* ... and for the global one.
LEMMA GlobalJob ==
  /\ JobRow(Global) = global /\ JobRow(Global)' = global'
  /\ Holder(Global) = IF global.status = "running" THEN global.token ELSE None
  /\ Holder(Global)' = IF global'.status = "running" THEN global'.token ELSE None
  /\ \A w \in Worker :
       /\ State(Global, w) = IF pc[w] \in {"select", "sync", "agent"} THEN "working"
                             ELSE IF pc[w] # "done" THEN "new" ELSE "over"
       /\ State(Global, w)' = IF pc'[w] \in {"select", "sync", "agent"} THEN "working"
                              ELSE IF pc'[w] # "done" THEN "new" ELSE "over"
  BY DEF JobRow, Holder, State, TakesUp, MayTakeUp

\* A step that leaves the rows of phase 1 and the workers' lists alone, and every worker
\* on the same side of the scan.
LEMMA ThreadRests ==
  ASSUME NEW t \in Thread,
         row'[t].status = row[t].status, row'[t].token = row[t].token,
         row'[t].success = row[t].success,
         \A w \in Worker : /\ claimed'[w][t] = claimed[w][t] /\ found'[w][t] = found[w][t]
                           /\ pc'[w] \in {"off", "scan"} <=> pc[w] \in {"off", "scan"}
  PROVE  Jobs!Step(t)
  BY ThreadJob, JobRests DEF Job

\* A step in which no worker takes up or ends phase 2, and nobody gets the global row.
LEMMA GlobalRests ==
  ASSUME global'.status = "running" <=> global.status = "running",
         global'.token = global.token, global'.success = global.success,
         \A w \in Worker : pc'[w] = pc[w] \/ {pc[w], pc'[w]} \subseteq {"off", "scan", "claim", "extract"}
                             \/ {pc[w], pc'[w]} \subseteq {"select", "sync", "agent"}
  PROVE  Jobs!Step(Global)
  BY GlobalJob, JobRests DEF Job

\* A thread's job when a worker drops it from its lists: it had it there, or had nothing
\* to do with it.
LEMMA ThreadLeft ==
  ASSUME NEW t \in Thread, NEW w \in Worker,
         claimed'[w][t] = 0, found'[w][t] = 0, pc'[w] \notin {"off", "scan"},
         \A v \in Worker \ {w} : claimed'[v][t] = claimed[v][t] /\ found'[v][t] = found[v][t]
                                   /\ pc'[v] = pc[v],
         row'[t] = row[t]
  PROVE  Jobs!Step(t)
<1>1. State(t, w)' = "over" /\ Holder(t)' = Holder(t) /\ JobRow(t).success' = JobRow(t).success
  BY ThreadJob
<1>2. \A v \in Worker \ {w} : State(t, v)' = State(t, v)
  BY ThreadJob
<1>3. State(t, w) \in {"working", "new", "over"}
  BY ThreadJob
<1>4. CASE State(t, w) = "over"
  BY <1>1, <1>2, <1>4, JobRests DEF Job
<1>5. CASE State(t, w) # "over"
  BY <1>1, <1>2, <1>3, <1>5, JobLeft DEF Job
<1> QED
  BY <1>4, <1>5

\* Each job takes its own step.
LEMMA JobsStep ==
  ASSUME Jobs!Step(Global), \A t \in Thread : Jobs!Step(t)
  PROVE  Jobs!Next
<1>1. \A j \in Thread \cup {Global} : Jobs!Step(j)
  OBVIOUS
<1> QED
  BY <1>1 DEF Jobs!Next

\* An extraction that ends: its worker is through with that job, and nothing else
\* happens to the others.
LEMMA ExtractionEnds ==
  ASSUME TypeOK, LocalInv, NEW w \in Worker, NEW t \in Thread, Extracted(w, t),
         \A u \in Thread \ {t} : row'[u] = row[u]
  PROVE  /\ \A u \in Thread \ {t} : Jobs!Step(u)
         /\ State(t, w) = "working" /\ State(t, w)' = "over"
         /\ \A v \in Worker \ {w} : State(t, v)' = State(t, v)
<1>1. pc' = pc /\ found' = found /\ pc[w] = "extract" /\ claimed[w][t] # 0
  BY DEF Extracted
<1>2. claimed'[w][t] = 0 /\ \A v \in Worker, u \in Thread : v # w \/ u # t => claimed'[v][u] = claimed[v][u]
  BY DEF TypeOK, Extracted
<1>3. found[w][t] = 0
  BY <1>1 DEF LocalInv
<1>4. ASSUME NEW u \in Thread \ {t} PROVE Jobs!Step(u)
  BY <1>1, <1>2, ThreadRests
<1>5. State(t, w) = "working" /\ State(t, w)' = "over"
  BY <1>1, <1>2, <1>3, ThreadJob
<1>6. \A v \in Worker \ {w} : State(t, v)' = State(t, v)
  BY <1>1, <1>2, ThreadJob
<1> QED
  BY <1>4, <1>5, <1>6

\* A failure in phase 2 gives up the global row if it is the worker's own.
LEMMA FailureLeaves ==
  ASSUME TypeOK, RetriesLeft, NEW w \in Worker, Fails(w), pc[w] \in {"select", "sync", "agent"}
  PROVE  Jobs!Next
<1>1. pc'[w] = "done" /\ (\A v \in Worker \ {w} : pc'[v] = pc[v]) /\ UNCHANGED <<row, found, claimed>>
  BY DEF TypeOK, Fails, Leaves, Go
<1>2. ASSUME NEW t \in Thread PROVE Jobs!Step(t)
  BY <1>1, ThreadRests
<1>3. State(Global, w) = "working" /\ State(Global, w)' = "over"
      /\ \A v \in Worker \ {w} : State(Global, v)' = State(Global, v)
  BY <1>1, GlobalJob
<1>4. /\ Holder(Global)' = Holder(Global) \/ (Holder(Global) = w /\ Holder(Global)' = None)
      /\ JobRow(Global).success' = JobRow(Global).success
  <2>1. CASE global.status = "running" /\ global.token \in {w, None}
    <3>1. global \in Row /\ now \in Nat /\ global.retries > 0
      BY <2>1 DEF TypeOK, RetriesLeft
    <3>2. global'.status = "error" /\ global'.success = global.success
      BY <2>1, <3>1, FailedRow DEF Fails
    <3> QED
      BY <2>1, <3>2, GlobalJob
  <2>2. CASE ~(global.status = "running" /\ global.token \in {w, None})
    <3>1. global' = global
      BY <2>2 DEF Fails
    <3> QED
      BY <3>1, GlobalJob
  <2> QED
    BY <2>1, <2>2
<1>5. Jobs!Step(Global)
  BY <1>3, <1>4, JobLeft DEF Job
<1> QED
  BY <1>2, <1>5, JobsStep

\* A success in phase 2 counts if the global row is the worker's own, and then moves
\* its watermark up or leaves it.
LEMMA SuccessCommits ==
  ASSUME TypeOK, NEW w \in Worker, Succeeds(w), pc[w] \in {"select", "sync", "agent"}
  PROVE  Jobs!Next
<1>1. pc'[w] = "done" /\ (\A v \in Worker \ {w} : pc'[v] = pc[v]) /\ UNCHANGED <<row, found, claimed>>
  BY DEF TypeOK, Succeeds, Leaves, Go
<1>2. ASSUME NEW t \in Thread PROVE Jobs!Step(t)
  BY <1>1, ThreadRests
<1>3. State(Global, w) = "working" /\ State(Global, w)' = "over"
      /\ \A v \in Worker \ {w} : State(Global, v)' = State(Global, v)
  BY <1>1, GlobalJob
<1>4. Jobs!Step(Global)
  <2>1. CASE Owns(w, global)
    <3>1. global \in Row /\ global.success \in Nat /\ wm[w] \in Nat
      BY DEF TypeOK, Row
    <3>2. /\ Max({global.success, wm[w]}) \in Nat
          /\ global.success <= Max({global.success, wm[w]})
      BY <3>1, MaxOfTwo
    <3>3. global' = Done(global, Max({global.success, wm[w]}))
      BY <2>1 DEF Succeeds
    <3>4. global'.status = "done" /\ global'.success >= global.success
      BY <3>1, <3>2, <3>3, DoneRow
    <3>5. Holder(Global) = w /\ Holder(Global)' = None
      BY <2>1, <3>4, GlobalJob DEF Owns
    <3> QED
      BY <1>3, <3>4, <3>5, GlobalJob, JobCommitted DEF Job
  <2>2. CASE ~Owns(w, global)
    <3>1. global' = global
      BY <2>2 DEF Succeeds
    <3> QED
      BY <1>3, <3>1, GlobalJob, JobLeft DEF Job
  <2> QED
    BY <2>1, <2>2
<1> QED
  BY <1>2, <1>4, JobsStep

\* Every step of the pipeline, of a crash or of the environment is a step of FencedJobs.
LEMMA RefinedStep ==
  ASSUME IndInv, [Next]_vars
  PROVE  [Jobs!Next]_(Jobs!fencedVars)
<1> USE DEF dbVars, localVars
<1>0. TypeOK /\ LocalInv /\ ClaimInv /\ RetriesLeft
  BY DEF IndInv
<1>1. /\ now \in Nat /\ global \in Row /\ global.input \in Nat /\ global.success \in Nat
      /\ \A t \in Thread : /\ row[t] \in Row /\ row[t].input \in Nat /\ row[t].success \in Nat
      /\ \A w \in Worker, t \in Thread : claimed[w][t] \in Nat /\ found[w][t] \in Nat
  BY <1>0 DEF TypeOK, Row
<1>2. ASSUME NEW w \in Worker, Prune(w) PROVE Jobs!Next
  <2>1. pc[w] = "off" /\ pc'[w] = "scan" /\ \A v \in Worker \ {w} : pc'[v] = pc[v]
    BY <1>0, <1>2 DEF TypeOK, Prune, Go
  <2>2. UNCHANGED <<row, global, found, claimed>>
    BY <1>2 DEF Prune
  <2>3. ASSUME NEW t \in Thread PROVE Jobs!Step(t)
    BY <2>1, <2>2, ThreadRests
  <2>4. Jobs!Step(Global)
    BY <2>1, <2>2, GlobalRests
  <2> QED
    BY <2>3, <2>4, JobsStep
<1>3. ASSUME NEW w \in Worker, Scan(w) PROVE Jobs!Next
  <2>1. pc[w] = "scan" /\ pc'[w] \in {"claim", "extract"} /\ \A v \in Worker \ {w} : pc'[v] = pc[v]
    BY <1>0, <1>3 DEF TypeOK, Scan, Go
  <2>2. UNCHANGED <<row, global, claimed>> /\ \A v \in Worker \ {w} : found'[v] = found[v]
    BY <1>0, <1>3 DEF TypeOK, Scan
  <2>3. ASSUME NEW t \in Thread PROVE Jobs!Step(t)
    <3>1. claimed[w][t] = 0
      BY <1>0, <2>1 DEF LocalInv, Nothing
    <3>2. CASE found'[w][t] = 0
      BY <2>1, <2>2, <3>1, <3>2, ThreadLeft
    <3>3. CASE found'[w][t] # 0
      <4>1. \A v \in Worker : State(t, v)' = State(t, v)
        BY <2>1, <2>2, <3>1, <3>3, ThreadJob
      <4> QED
        BY <2>2, <4>1, ThreadJob, JobRests DEF Job
    <3> QED
      BY <3>2, <3>3
  <2>4. Jobs!Step(Global)
    BY <2>1, <2>2, GlobalRests
  <2> QED
    BY <2>3, <2>4, JobsStep
<1>4. ASSUME NEW w \in Worker, ClaimNext(w) PROVE Jobs!Next
  <2>1. PICK t \in Thread :
          /\ found[w][t] # 0
          /\ found' = [found EXCEPT ![w][t] = 0]
          /\ \/ /\ claimed' = [claimed EXCEPT ![w][t] = found[w][t]]
                /\ row' = [row EXCEPT ![t] = RunningAt(w, row[t], found[w][t])]
             \/ UNCHANGED <<claimed, row>>
    BY <1>4 DEF ClaimNext, NextItem
  <2>2. pc[w] = "claim" /\ UNCHANGED <<pc, global>>
    BY <1>4 DEF ClaimNext
  <2>3. claimed[w][t] = 0
    BY <1>0, <2>1 DEF LocalInv
  <2>4. /\ found'[w][t] = 0
        /\ \A v \in Worker, u \in Thread : v # w \/ u # t => found'[v][u] = found[v][u]
    BY <1>0, <2>1 DEF TypeOK
  <2>5. \A v \in Worker, u \in Thread : v # w \/ u # t => claimed'[v][u] = claimed[v][u]
    <3>1. claimed' = claimed \/ claimed' = [claimed EXCEPT ![w][t] = found[w][t]]
      BY <2>1
    <3> QED
      BY <1>0, <3>1 DEF TypeOK
  <2>6. \A u \in Thread \ {t} : row'[u] = row[u]
    BY <1>0, <2>1 DEF TypeOK
  <2>7. ASSUME NEW u \in Thread \ {t} PROVE Jobs!Step(u)
    BY <2>2, <2>4, <2>5, <2>6, ThreadRests
  <2>8. Jobs!Step(t)
    <3>1. CASE UNCHANGED <<claimed, row>>
      BY <2>2, <2>3, <2>4, <3>1, ThreadLeft
    <3>2. CASE ~UNCHANGED <<claimed, row>>
      <4>1. row'[t] = RunningAt(w, row[t], found[w][t]) /\ claimed'[w][t] = found[w][t]
        BY <1>0, <2>1, <3>2 DEF TypeOK
      <4>2. row[t] \in Row /\ found[w][t] \in Nat /\ now \in Nat
        BY <1>1
      <4>3. row'[t].status = "running" /\ row'[t].token = w /\ row'[t].success = row[t].success
        BY <4>1, <4>2, ClaimedRow
      <4>4. State(t, w) = "new" /\ State(t, w)' = "working"
        BY <2>1, <2>3, <4>1, ThreadJob
      <4>5. \A v \in Worker \ {w} : State(t, v)' = State(t, v)
        BY <2>2, <2>4, <2>5, ThreadJob
      <4> QED
        BY <4>3, <4>4, <4>5, ThreadJob, JobAcquired DEF Job
    <3> QED
      BY <3>1, <3>2
  <2>9. Jobs!Step(Global)
    BY <2>2, GlobalRests
  <2> QED
    BY <2>7, <2>8, <2>9, JobsStep
<1>5. ASSUME NEW w \in Worker, ClaimsEnd(w) PROVE Jobs!Next
  <2>1. pc[w] = "claim" /\ pc'[w] = "extract" /\ \A v \in Worker \ {w} : pc'[v] = pc[v]
    BY <1>0, <1>5 DEF TypeOK, ClaimsEnd, Go
  <2>2. /\ UNCHANGED <<row, global>> /\ found'[w] = Nothing
        /\ claimed'[w] = claimed[w] \/ claimed'[w] = Nothing
        /\ \A v \in Worker \ {w} : found'[v] = found[v] /\ claimed'[v] = claimed[v]
    BY <1>0, <1>5 DEF TypeOK, ClaimsEnd
  <2>3. ASSUME NEW t \in Thread PROVE Jobs!Step(t)
    <3>1. found'[w][t] = 0 /\ claimed'[w][t] \in {0, claimed[w][t]}
      BY <2>2 DEF Nothing
    <3>2. CASE claimed'[w][t] = 0
      BY <2>1, <2>2, <3>1, <3>2, ThreadLeft
    <3>3. CASE claimed'[w][t] # 0
      <4>1. \A v \in Worker : State(t, v)' = State(t, v)
        BY <2>1, <2>2, <3>1, <3>3, ThreadJob
      <4> QED
        BY <2>2, <4>1, ThreadJob, JobRests DEF Job
    <3> QED
      BY <3>2, <3>3
  <2>4. Jobs!Step(Global)
    BY <2>1, <2>2, GlobalRests
  <2> QED
    BY <2>3, <2>4, JobsStep
<1>6. ASSUME NEW w \in Worker, NEW t \in Thread, StageOneSucceeds(w, t) \/ StageOneNoOutput(w, t)
      PROVE  Jobs!Next
  <2>1. /\ Extracted(w, t) /\ row[t].status = "running" /\ row[t].token = w
        /\ row' = [row EXCEPT ![t] = Done(row[t], row[t].input)]
    BY <1>6 DEF StageOneSucceeds, StageOneNoOutput, Owns
  <2>2. row'[t] = Done(row[t], row[t].input) /\ \A u \in Thread \ {t} : row'[u] = row[u]
    BY <1>0, <2>1 DEF TypeOK
  <2>3. row'[t].status = "done" /\ row'[t].success = row[t].input
    BY <1>1, <2>2, DoneRow
  <2>4. row[t].success < row[t].input
    BY <1>0, <2>1 DEF ClaimInv
  <2>5. /\ \A u \in Thread \ {t} : Jobs!Step(u)
        /\ State(t, w) = "working" /\ State(t, w)' = "over"
        /\ \A v \in Worker \ {w} : State(t, v)' = State(t, v)
    BY <1>0, <2>1, <2>2, ExtractionEnds
  <2>6. /\ Holder(t) = w /\ Holder(t)' = None
        /\ JobRow(t).success' >= JobRow(t).success
    BY <1>1, <2>1, <2>3, <2>4, ThreadJob
  <2>7. Jobs!Step(t)
    BY <2>5, <2>6, JobCommitted DEF Job
  <2>8. Jobs!Step(Global)
    <3>1. global' = global \/ \E watermark \in Nat : global' = Enqueued(global, watermark)
      BY <1>1, <1>6 DEF StageOneSucceeds, StageOneNoOutput
    <3>2. /\ global'.status = "running" <=> global.status = "running"
          /\ global'.token = global.token /\ global'.success = global.success
      BY <1>1, <3>1, EnqueuedRow
    <3> QED
      BY <2>1, <3>2, GlobalRests DEF Extracted
  <2> QED
    BY <2>5, <2>7, <2>8, JobsStep
<1>7. ASSUME NEW w \in Worker, NEW t \in Thread, StageOneFails(w, t) PROVE Jobs!Next
  <2>1. /\ Extracted(w, t) /\ row[t].status = "running" /\ row[t].token = w
        /\ row' = [row EXCEPT ![t] = Failed(row[t])] /\ global' = global
    BY <1>7 DEF StageOneFails, Owns
  <2>2. row'[t] = Failed(row[t]) /\ \A u \in Thread \ {t} : row'[u] = row[u]
    BY <1>0, <2>1 DEF TypeOK
  <2>3. row[t].retries > 0
    BY <1>0, <2>1 DEF RetriesLeft
  <2>4. row'[t].status = "error" /\ row'[t].success = row[t].success
    BY <1>1, <2>2, <2>3, FailedRow
  <2>5. /\ \A u \in Thread \ {t} : Jobs!Step(u)
        /\ State(t, w) = "working" /\ State(t, w)' = "over"
        /\ \A v \in Worker \ {w} : State(t, v)' = State(t, v)
    BY <1>0, <2>1, <2>2, ExtractionEnds
  <2>6. Jobs!Step(t)
    BY <2>1, <2>4, <2>5, ThreadJob, JobLeft DEF Job
  <2>7. Jobs!Step(Global)
    BY <2>1, GlobalRests DEF Extracted
  <2> QED
    BY <2>5, <2>6, <2>7, JobsStep
<1>8. ASSUME NEW w \in Worker, NEW t \in Thread, StageOneLost(w, t) PROVE Jobs!Next
  <2>1. Extracted(w, t) /\ UNCHANGED <<row, global>>
    BY <1>8 DEF StageOneLost
  <2>2. /\ \A u \in Thread \ {t} : Jobs!Step(u)
        /\ State(t, w) = "working" /\ State(t, w)' = "over"
        /\ \A v \in Worker \ {w} : State(t, v)' = State(t, v)
    BY <1>0, <2>1, ExtractionEnds
  <2>3. Jobs!Step(t)
    BY <2>1, <2>2, ThreadJob, JobLeft DEF Job
  <2>4. Jobs!Step(Global)
    BY <2>1, GlobalRests DEF Extracted
  <2> QED
    BY <2>2, <2>3, <2>4, JobsStep
<1>9. ASSUME NEW w \in Worker, ClaimGlobal(w) PROVE Jobs!Next
  <2>1. pc[w] = "extract" /\ pc'[w] \in {"select", "done"} /\ \A v \in Worker \ {w} : pc'[v] = pc[v]
    BY <1>0, <1>9 DEF TypeOK, ClaimGlobal, Go
  <2>2. UNCHANGED <<row, found, claimed>>
    BY <1>9 DEF ClaimGlobal
  <2>3. ASSUME NEW t \in Thread PROVE Jobs!Step(t)
    BY <2>1, <2>2, ThreadRests
  <2>4. State(Global, w) = "new" /\ \A v \in Worker \ {w} : State(Global, v)' = State(Global, v)
    BY <2>1, GlobalJob
  <2>5. Jobs!Step(Global)
    <3>1. CASE pc'[w] = "select"
      <4>1. global' = Running(w, global)
        BY <1>0, <1>9, <3>1 DEF TypeOK, ClaimGlobal, Go
      <4>2. global'.status = "running" /\ global'.token = w /\ global'.success = global.success
        BY <1>1, <4>1, RunningRow
      <4> QED
        BY <2>4, <3>1, <4>2, GlobalJob, JobAcquired DEF Job
    <3>2. CASE pc'[w] = "done"
      <4>1. global' = global
        BY <1>0, <1>9, <3>2 DEF TypeOK, ClaimGlobal, Go
      <4> QED
        BY <2>4, <3>2, <4>1, GlobalJob, JobLeft DEF Job
    <3> QED
      BY <2>1, <3>1, <3>2
  <2> QED
    BY <2>3, <2>5, JobsStep
<1>10. ASSUME NEW w \in Worker, Select(w) \/ (Sync(w) /\ ~Succeeds(w)) PROVE Jobs!Next
  <2>1. /\ pc[w] \in {"select", "sync"} /\ pc'[w] \in {"sync", "agent"}
        /\ \A v \in Worker \ {w} : pc'[v] = pc[v]
    BY <1>0, <1>10 DEF TypeOK, Select, Sync, Go
  <2>2. UNCHANGED <<row, global, found, claimed>>
    BY <1>10 DEF Select, Sync
  <2>3. ASSUME NEW t \in Thread PROVE Jobs!Step(t)
    BY <2>1, <2>2, ThreadRests
  <2>4. Jobs!Step(Global)
    BY <2>1, <2>2, GlobalRests
  <2> QED
    BY <2>3, <2>4, JobsStep
<1>11. ASSUME NEW w \in Worker, (Sync(w) \/ AgentCompletes(w)) /\ Succeeds(w) PROVE Jobs!Next
  BY <1>0, <1>11, SuccessCommits DEF Sync, AgentCompletes
<1>12. ASSUME NEW w \in Worker, (Heartbeat(w) \/ PhaseTwoFails(w)) /\ Fails(w) PROVE Jobs!Next
  BY <1>0, <1>12, FailureLeaves DEF Heartbeat, PhaseTwoFails
<1>13. ASSUME NEW w \in Worker, Heartbeat(w), ~Fails(w) PROVE Jobs!Next
  <2>1. UNCHANGED <<row, found, claimed, pc>>
    BY <1>13 DEF Heartbeat
  <2>2. /\ global'.status = global.status /\ global'.token = global.token
        /\ global'.success = global.success
    BY <1>1, <1>13 DEF Heartbeat, Row
  <2>3. ASSUME NEW t \in Thread PROVE Jobs!Step(t)
    BY <2>1, ThreadRests
  <2>4. Jobs!Step(Global)
    BY <2>1, <2>2, GlobalRests
  <2> QED
    BY <2>3, <2>4, JobsStep
<1>14. ASSUME NEW w \in Worker, Crash(w) PROVE Jobs!Next
  <2>1. pc[w] # "done" /\ pc'[w] = "done" /\ \A v \in Worker \ {w} : pc'[v] = pc[v]
    BY <1>0, <1>14 DEF TypeOK, Crash, Leaves, Go
  <2>2. /\ UNCHANGED <<row, global>> /\ found'[w] = Nothing /\ claimed'[w] = Nothing
        /\ \A v \in Worker \ {w} : found'[v] = found[v] /\ claimed'[v] = claimed[v]
    BY <1>0, <1>14 DEF TypeOK, Crash
  <2>3. ASSUME NEW t \in Thread PROVE Jobs!Step(t)
    <3>1. found'[w][t] = 0 /\ claimed'[w][t] = 0
      BY <2>2 DEF Nothing
    <3> QED
      BY <2>1, <2>2, <3>1, ThreadLeft
  <2>4. Jobs!Step(Global)
    <3>1. State(Global, w) \in {"new", "working"} /\ State(Global, w)' = "over"
          /\ \A v \in Worker \ {w} : State(Global, v)' = State(Global, v)
      BY <2>1, GlobalJob
    <3> QED
      BY <2>2, <3>1, GlobalJob, JobLeft DEF Job
  <2> QED
    BY <2>3, <2>4, JobsStep
<1>15. ASSUME NEW t \in Thread, Pollute(t) PROVE Jobs!Next
  <2>1. UNCHANGED <<row, found, claimed, pc>>
    BY <1>15 DEF Pollute
  <2>2. global' = global \/ global' = Enqueued(global, now)
    BY <1>15 DEF Pollute
  <2>3. /\ global'.status = "running" <=> global.status = "running"
        /\ global'.token = global.token /\ global'.success = global.success
    BY <1>1, <2>2, EnqueuedRow
  <2>4. ASSUME NEW u \in Thread PROVE Jobs!Step(u)
    BY <2>1, ThreadRests
  <2>5. Jobs!Step(Global)
    BY <2>1, <2>3, GlobalRests
  <2> QED
    BY <2>4, <2>5, JobsStep
<1>16. ASSUME UNCHANGED <<row, global, found, claimed, pc>> PROVE Jobs!Next
  <2>1. ASSUME NEW t \in Thread PROVE Jobs!Step(t)
    BY <1>16, ThreadRests
  <2>2. Jobs!Step(Global)
    BY <1>16, GlobalRests
  <2> QED
    BY <2>1, <2>2, JobsStep
<1>17. ASSUME NEW t \in Thread, Touch(t) \/ RecordUsage(t) \/ Reconcile(t)
       PROVE  UNCHANGED <<row, global, found, claimed, pc>>
  BY <1>17 DEF Touch, RecordUsage, Reconcile
<1>18. ASSUME Tick \/ UNCHANGED vars PROVE UNCHANGED <<row, global, found, claimed, pc>>
  BY <1>18 DEF Tick, vars
<1>19. ASSUME NEW disable \in BOOLEAN, Clear(disable) PROVE Jobs!Next
  <2>1. /\ \A t \in Thread : row'[t].status = "absent" /\ row'[t].success = 0
        /\ global'.status = "absent" /\ global'.success = 0
        /\ UNCHANGED <<pc, found, claimed>>
    BY <1>19, AbsentRow DEF Clear
  <2>2. ASSUME NEW j \in Job PROVE Jobs!Step(j)
    <3>1. /\ Holder(j)' = None /\ JobRow(j).success' = 0
          /\ \A w \in Worker : State(j, w)' = State(j, w)
      <4>1. CASE j = Global
        BY <2>1, <4>1, GlobalJob
      <4>2. CASE j \in Thread
        BY <2>1, <4>2, ThreadJob
      <4> QED
        BY <4>1, <4>2 DEF Job
    <3>2. Jobs!Wipe(j)
      BY <3>1 DEF Jobs!Wipe, Job, Holder, State
    <3> QED
      BY <3>2 DEF Jobs!Step
  <2> QED
    BY <2>2, JobsStep DEF Job
<1>20. Jobs!Next
  BY <1>2, <1>3, <1>4, <1>5, <1>6, <1>7, <1>8, <1>9, <1>10, <1>11, <1>12, <1>13, <1>14, <1>15,
     <1>16, <1>17, <1>18, <1>19
  DEF Next, Pipeline, Environment, AgentCompletes, PhaseTwoFails
<1> QED
  BY <1>20

\* The rows of the memory pipeline implement fenced jobs: a worker that lost a row to
\* another one or to a reset neither moves its success watermark nor gives it up.
THEOREM JobsAreFenced == Spec => JobsFenced
<1>1. Init => Jobs!Init
  <2> SUFFICES ASSUME Init PROVE Jobs!Init
    OBVIOUS
  <2>1. ASSUME NEW t \in Thread
        PROVE  Holder(t) = None /\ JobRow(t).success = 0 /\ \A w \in Worker : State(t, w) = "new"
    BY AbsentRow, ThreadJob DEF Init, Nothing
  <2>2. Holder(Global) = None /\ JobRow(Global).success = 0 /\ \A w \in Worker : State(Global, w) = "new"
    BY AbsentRow, GlobalJob DEF Init
  <2>3. \A j \in Job : Holder(j) = None /\ JobRow(j).success = 0 /\ \A w \in Worker : State(j, w) = "new"
    BY <2>1, <2>2 DEF Job
  <2> QED
    BY <2>3 DEF Jobs!Init, Job, Holder, State
<1>2. IndInv /\ [Next]_vars => [Jobs!Next]_(Jobs!fencedVars)
  BY RefinedStep
<1> QED
  BY <1>1, <1>2, Invariance, PTL DEF Spec, JobsFenced, Jobs!Spec
==============================================================================
