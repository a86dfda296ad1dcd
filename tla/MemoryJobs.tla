------------------------------ MODULE MemoryJobs ------------------------------
(***************************************************************************)
(* state/runtime/memories.rs and core/memories: the startup pipeline that   *)
(* turns idle threads into memories.  Every root session runs it once, and  *)
(* the sessions of several processes meet in one SQLite database:           *)
(*   phase 1  claims a job row per stale thread and extracts its memory;    *)
(*   phase 2  claims the one global row, selects outputs and has an agent   *)
(*            consolidate them.                                            *)
(* One step is one transaction or statement of the database.  A job is      *)
(* leased: its owner's token is on the row until the lease has run out and  *)
(* another worker claims it.  SQL's NULL is 0: timestamps start at 1.       *)
(***************************************************************************)
EXTENDS Integers, FiniteSets, FiniteSetsExt

CONSTANTS
  Thread,            \* conversations with a rollout
  Worker,            \* root sessions, each starting the pipeline once; also ...
  None,              \* ... the ownership tokens, None for NULL
  Global,            \* the key of the one job of phase 2
  Lease,             \* JOB_LEASE_SECONDS of both phases
  RetryDelay,        \* JOB_RETRY_DELAY_SECONDS of both phases
  Retries,           \* DEFAULT_RETRY_REMAINING
  Idle,              \* min_rollout_idle_hours
  MaxAge,            \* max_rollout_age_days
  MaxUnused,         \* max_unused_days
  MaxClaimed,        \* max_rollouts_per_startup, which is also max_running_jobs
  MaxRaw,            \* max_raw_memories_for_consolidation
  HeartbeatsOnTime,  \* whether no process sleeps through the lease it is renewing
  MaxTime,           \* bound: the clock
  MaxInput           \* bound: the input watermark of the global row

ASSUME SetAssumption == IsFiniteSet(Thread) /\ IsFiniteSet(Worker) /\ None \notin Worker
                          /\ Global \notin Thread
ASSUME DurationAssumption ==
  /\ {Lease, RetryDelay, Retries, Idle, MaxClaimed, MaxRaw, MaxTime, MaxInput} \subseteq Nat \ {0}
  /\ {MaxAge, MaxUnused} \subseteq Nat
  /\ HeartbeatsOnTime \in BOOLEAN

VARIABLES
  now,       \* Utc::now().timestamp()
  updated,   \* threads.updated_at
  mode,      \* threads.memory_mode
  row,       \* jobs of kind memory_stage1, by thread
  global,    \* the job memory_consolidate_global
  out,       \* stage1_outputs, by thread; src is source_updated_at, 0 when there is no row
  pc,
  found,     \* `items` not tried yet: their updated_at when scanned
  claimed,   \* `claimed` not finished yet: their updated_at when scanned
  wm,        \* the claimed watermark, then new_watermark
  chosen,    \* the selected outputs: their source_updated_at when read
  owed,      \* history: threads with a change no consolidation has processed
  seen       \* history: those of them a running consolidation has read

dbVars == <<updated, mode, row, global, out>>
localVars == <<found, claimed, wm, chosen>>
vars == <<now, updated, mode, row, global, out, pc, found, claimed, wm, chosen, owed, seen>>

Label == {"off", "scan", "claim", "extract", "select", "sync", "agent", "done"}
Row == [status : {"absent", "pending", "running", "done", "error"}, token : Worker \cup {None},
        lease : Nat, retry_at : Nat, retries : Nat, input : Nat, success : Nat]
Output == [src : Nat, last_usage : Nat, selected : Nat]
NoRow == [status |-> "absent", token |-> None, lease |-> 0, retry_at |-> 0, retries |-> 0,
          input |-> 0, success |-> 0]
NoOutput == [src |-> 0, last_usage |-> 0, selected |-> 0]
Nothing == [t \in Thread |-> 0]

TypeOK ==
  /\ now \in Nat
  /\ updated \in [Thread -> Nat]
  /\ mode \in [Thread -> {"enabled", "disabled", "polluted"}]
  /\ row \in [Thread -> Row]
  /\ global \in Row
  /\ out \in [Thread -> Output]
  /\ pc \in [Worker -> Label]
  /\ found \in [Worker -> [Thread -> Nat]]
  /\ claimed \in [Worker -> [Thread -> Nat]]
  /\ wm \in [Worker -> Nat]
  /\ chosen \in [Worker -> [Thread -> Nat]]
  /\ owed \subseteq Thread
  /\ seen \in [Worker -> SUBSET Thread]

Init ==
  /\ now = 1
  /\ updated = [t \in Thread |-> 1]
  /\ mode = [t \in Thread |-> "enabled"]
  /\ row = [t \in Thread |-> NoRow]
  /\ global = NoRow
  /\ out = [t \in Thread |-> NoOutput]
  /\ pc = [w \in Worker |-> "off"]
  /\ found = [w \in Worker |-> Nothing]
  /\ claimed = [w \in Worker |-> Nothing]
  /\ wm = [w \in Worker |-> 0]
  /\ chosen = [w \in Worker |-> Nothing]
  /\ owed = {}
  /\ seen = [w \in Worker |-> {}]

------------------------------------------------------------------------------
(* The job rows.                                                             *)

Live(r) == r.status = "running" /\ r.lease > now

\* Faulty: whoever ran the job last finishes it.
OwnsAny(w, r) == r.status = "running"

\* The condition of every statement that finishes or extends a claim.
Owns(w, r) == r.status = "running" /\ r.token = w
Dirty == global.input > global.success

Running(w, r) ==
  [r EXCEPT !.status = "running", !.token = w, !.lease = now + Lease, !.retry_at = 0]

\* The claim of an extraction, for the update `at` of its thread: a new one restores
\* the retries.
RunningAt(w, r, at) ==
  [Running(w, r) EXCEPT !.retries = IF at > r.input THEN Retries ELSE @, !.input = at]
Done(r, watermark) == [r EXCEPT !.status = "done", !.lease = 0, !.success = watermark]
Failed(r) ==
  [r EXCEPT !.status = "error", !.lease = 0, !.retry_at = now + RetryDelay, !.retries = @ - 1]

\* Faulty: an enqueue that is not newer than the last one leaves the watermark.
EnqueuedNewest(g, watermark) ==
  [g EXCEPT
    !.status = IF g.status = "running" THEN "running" ELSE "pending",
    !.retry_at = IF g.status = "running" THEN g.retry_at ELSE 0,
    !.retries = IF g.retries > Retries THEN g.retries ELSE Retries,
    !.input = IF watermark > g.input THEN watermark ELSE g.input]

\* enqueue_global_consolidation: every enqueue moves the input watermark, even
\* one that is older than it.  The upsert inserts or updates the row.
Enqueued(g, watermark) ==
  [g EXCEPT
    !.status = IF g.status = "running" THEN "running" ELSE "pending",
    !.retry_at = IF g.status = "running" THEN g.retry_at ELSE 0,
    !.retries = IF g.retries > Retries THEN g.retries ELSE Retries,
    !.input = IF watermark > g.input THEN watermark ELSE g.input + 1]

\* The output of t changed, or t must be forgotten: the next consolidation owes
\* that a reading, whatever the ones under way have read of t before.
Changed(t) ==
  /\ owed' = owed \cup {t}
  /\ seen' = [w \in Worker |-> seen[w] \ {t}]

\* Bound: the watermark moves by one at least with every enqueue.
RoomToEnqueue == global.input < MaxInput

------------------------------------------------------------------------------
(* Phase 1: prune, scan, claim, extract.                                     *)

Go(w, label) == pc' = [pc EXCEPT ![w] = label]

\* COALESCE(last_usage, source_updated_at)
Recency(o) == IF o.last_usage # 0 THEN o.last_usage ELSE o.src

\* prune_stage1_outputs_for_retention; an error of it is only logged.
Prune(w) ==
  /\ pc[w] = "off"
  /\ Go(w, "scan")
  /\ \/ out' = [t \in Thread |->
                  IF /\ out[t].selected = 0
                     /\ Recency(out[t]) < now - MaxUnused
                    THEN NoOutput ELSE out[t]]
     \/ UNCHANGED out
  /\ UNCHANGED <<now, updated, mode, row, global, localVars, owed, seen>>

Stale(t) ==
  /\ mode[t] = "enabled"
  /\ updated[t] >= now - MaxAge /\ updated[t] <= now - Idle
  /\ out[t].src < updated[t] /\ row[t].success < updated[t]

\* The query of claim_stage1_jobs_for_startup; an error ends phase 1.
Scan(w) ==
  /\ pc[w] = "scan"
  /\ \/ /\ found' = [found EXCEPT ![w] = [t \in Thread |-> IF Stale(t) THEN updated[t] ELSE 0]]
        /\ Go(w, "claim")
     \/ UNCHANGED found /\ Go(w, "extract")
  /\ UNCHANGED <<now, dbVars, claimed, wm, chosen, owed, seen>>

\* The claims a worker still tries, the latest thread first.
Full(w) == Cardinality({t \in Thread : claimed[w][t] # 0}) >= MaxClaimed
NextItem(w, t) == found[w][t] # 0 /\ \A u \in Thread : found[w][u] <= found[w][t]

\* Faulty: the cap counts the rows before this claim as if it were one of them.
ClaimableOverCap(t, at) ==
  LET advanced == at > row[t].input IN
  /\ out[t].src < at /\ row[t].success < at
  /\ ~Live(row[t])
  /\ row[t].retry_at <= now \/ advanced
  /\ row[t].retries > 0 \/ advanced
  /\ Cardinality({u \in Thread \ {t} : Live(row[u])}) <= MaxClaimed

\* Faulty: a backoff that has elapsed is reason enough to try again.
ClaimableExhausted(t, at) ==
  LET advanced == at > row[t].input IN
  /\ out[t].src < at /\ row[t].success < at
  /\ ~Live(row[t])
  /\ row[t].retry_at <= now \/ advanced
  /\ Cardinality({u \in Thread \ {t} : Live(row[u])}) < MaxClaimed

\* The conditions of try_claim_stage1_job's upsert.
Claimable(t, at) ==
  LET advanced == at > row[t].input IN
  /\ out[t].src < at /\ row[t].success < at
  /\ ~Live(row[t])
  /\ row[t].retry_at <= now \/ advanced
  /\ row[t].retries > 0 \/ advanced
  /\ Cardinality({u \in Thread \ {t} : Live(row[u])}) < MaxClaimed

\* One turn of the loop: try_claim_stage1_job on what the scan found, which may
\* be out of date by now.
ClaimNext(w) ==
  /\ pc[w] = "claim"
  /\ ~Full(w)
  /\ \E t \in Thread :
       /\ NextItem(w, t)
       /\ found' = [found EXCEPT ![w][t] = 0]
       /\ \/ /\ Claimable(t, found[w][t])
             /\ claimed' = [claimed EXCEPT ![w][t] = found[w][t]]
             /\ row' = [row EXCEPT ![t] = RunningAt(w, @, found[w][t])]
          \/ ~Claimable(t, found[w][t]) /\ UNCHANGED <<claimed, row>>
  /\ UNCHANGED <<now, updated, mode, global, out, pc, wm, chosen, owed, seen>>

\* The loop ends.  On an error of one claim `?` returns without the claims made
\* before it: their rows stay running until the lease ends.
ClaimsEnd(w) ==
  /\ pc[w] = "claim"
  /\ \/ (Full(w) \/ found[w] = Nothing) /\ UNCHANGED claimed
     \/ found[w] # Nothing /\ claimed' = [claimed EXCEPT ![w] = Nothing]
  /\ found' = [found EXCEPT ![w] = Nothing]
  /\ Go(w, "extract")
  /\ UNCHANGED <<now, dbVars, wm, chosen, owed, seen>>

\* job::run of one claim ends; the extractions of a worker run concurrently.
Extracted(w, t) ==
  /\ pc[w] = "extract" /\ claimed[w][t] # 0
  /\ claimed' = [claimed EXCEPT ![w][t] = 0]
  /\ UNCHANGED <<now, updated, mode, pc, found, wm, chosen>>

\* mark_stage1_job_succeeded.  (The upsert's own test, that the output is not
\* older than the one it replaces, is part of it.)
StageOneSucceeds(w, t) ==
  /\ Extracted(w, t)
  /\ Owns(w, row[t]) /\ RoomToEnqueue
  /\ row' = [row EXCEPT ![t] = Done(@, @.input)]
  /\ out' = IF claimed[w][t] >= out[t].src
              THEN [out EXCEPT ![t].src = claimed[w][t]] ELSE out
  /\ global' = Enqueued(global, claimed[w][t])
  /\ Changed(t)

\* mark_stage1_job_succeeded_no_output: the old output goes.
StageOneNoOutput(w, t) ==
  /\ Extracted(w, t)
  /\ Owns(w, row[t]) /\ RoomToEnqueue
  /\ row' = [row EXCEPT ![t] = Done(@, @.input)]
  /\ out' = [out EXCEPT ![t] = NoOutput]
  /\ IF out[t].src = 0 THEN UNCHANGED <<global, owed, seen>>
       ELSE global' = Enqueued(global, row[t].input) /\ Changed(t)

\* mark_stage1_job_failed.
StageOneFails(w, t) ==
  /\ Extracted(w, t)
  /\ Owns(w, row[t])
  /\ row' = [row EXCEPT ![t] = Failed(@)]
  /\ UNCHANGED <<global, out, owed, seen>>

\* The row is not this worker's any more, or the database call failed.
StageOneLost(w, t) ==
  /\ Extracted(w, t)
  /\ UNCHANGED <<row, global, out, owed, seen>>

------------------------------------------------------------------------------
(* Phase 2: claim, select, sync the files, have the agent consolidate.       *)

\* Faulty: retries that are used up do not keep the job from being claimed.
GlobalClaimableExhausted ==
  /\ Dirty
  /\ global.retry_at <= now
  /\ ~Live(global)

\* try_claim_global_phase2_job.
GlobalClaimable ==
  /\ Dirty
  /\ global.retries > 0 /\ global.retry_at <= now
  /\ ~Live(global)

ClaimGlobal(w) ==
  /\ pc[w] = "extract" /\ claimed[w] = Nothing
  /\ \/ /\ GlobalClaimable
        /\ global' = Running(w, global)
        /\ wm' = [wm EXCEPT ![w] = global.input]
        /\ Go(w, "select")
     \/ ~GlobalClaimable /\ UNCHANGED <<global, wm>> /\ Go(w, "done")
  /\ UNCHANGED <<now, updated, mode, row, out, found, claimed, chosen, owed, seen>>

Selectable(t) ==
  /\ out[t].src # 0 /\ mode[t] = "enabled"
  /\ Recency(out[t]) >= now - MaxUnused

\* get_phase2_input_selection and get_watermark.  The ranking by usage_count,
\* which this model does not keep, may put any of them first.
Select(w) ==
  /\ pc[w] = "select"
  /\ \E S \in SUBSET {t \in Thread : Selectable(t)} :
       /\ Cardinality(S) = MaxRaw \/ (Cardinality(S) < MaxRaw /\ S = {t \in Thread : Selectable(t)})
       /\ chosen' = [chosen EXCEPT ![w] = [t \in Thread |-> IF t \in S THEN out[t].src ELSE 0]]
       /\ wm' = [wm EXCEPT ![w] = Max({@} \cup {out[t].src : t \in S})]
  /\ seen' = [seen EXCEPT ![w] = owed]
  /\ Go(w, "sync")
  /\ UNCHANGED <<now, dbVars, found, claimed, owed>>

\* The worker is through with phase 2.
Leaves(w) ==
  /\ Go(w, "done")
  /\ wm' = [wm EXCEPT ![w] = 0]
  /\ chosen' = [chosen EXCEPT ![w] = Nothing]
  /\ seen' = [seen EXCEPT ![w] = {}]

\* job::succeed, mark_global_phase2_job_succeeded: the rows that still are the
\* snapshots selected become the baseline.  The result is not looked at.
Succeeds(w) ==
  /\ IF Owns(w, global)
       THEN /\ global' = Done(global, Max({global.success, wm[w]}))
            /\ out' = [t \in Thread |->
                 [out[t] EXCEPT !.selected =
                    IF chosen[w][t] # 0 /\ out[t].src = chosen[w][t] THEN out[t].src ELSE 0]]
            /\ owed' = owed \ seen[w]
       ELSE UNCHANGED <<global, out, owed>>
  /\ Leaves(w)
  /\ UNCHANGED <<now, updated, mode, row, found, claimed>>

\* Faulty: the fallback does not ask whose the running row is.
FailsAnyones(w) ==
  /\ global' = IF global.status = "running" THEN Failed(global) ELSE global
  /\ Leaves(w)
  /\ UNCHANGED <<now, updated, mode, row, out, found, claimed, owed>>

\* job::failed: mark_global_phase2_job_failed, then ..._failed_if_unowned.
Fails(w) ==
  /\ global' = IF global.status = "running" /\ global.token \in {w, None}
                 THEN Failed(global) ELSE global
  /\ Leaves(w)
  /\ UNCHANGED <<now, updated, mode, row, out, found, claimed, owed>>

\* The files are synced; the agent is spawned if there is anything to consolidate.
Sync(w) ==
  /\ pc[w] = "sync"
  /\ \/ chosen[w] = Nothing /\ Succeeds(w)
     \/ /\ chosen[w] # Nothing
        /\ Go(w, "agent")
        /\ UNCHANGED <<now, dbVars, localVars, owed, seen>>

\* heartbeat_global_phase2_job; loop_agent gives up when the row is not its own.
Heartbeat(w) ==
  /\ pc[w] = "agent"
  /\ \/ /\ Owns(w, global)
        /\ global' = [global EXCEPT !.lease = now + Lease]
        /\ UNCHANGED <<now, updated, mode, row, out, pc, localVars, owed, seen>>
     \/ ~Owns(w, global) /\ Fails(w)

\* The agent reaches the status Completed.
AgentCompletes(w) == pc[w] = "agent" /\ Succeeds(w)

\* No agent config, the query, the files, the spawn, the subscription, a
\* heartbeat's statement or the agent itself fails.
PhaseTwoFails(w) == pc[w] \in {"select", "sync", "agent"} /\ Fails(w)

------------------------------------------------------------------------------
(* The processes and the rest of the system.                                *)

\* The session's process ends, with its agent; or the last statement of phase 2
\* fails, which leaves the same behind.
Crash(w) ==
  /\ pc[w] \notin {"off", "done"}
  /\ found' = [found EXCEPT ![w] = Nothing]
  /\ claimed' = [claimed EXCEPT ![w] = Nothing]
  /\ Leaves(w)
  /\ UNCHANGED <<now, dbVars, owed>>

\* A worker renews its lease every JOB_HEARTBEAT_SECONDS, a fraction of it.
Tick ==
  /\ now < MaxTime
  /\ HeartbeatsOnTime => \A w \in Worker :
       pc[w] = "agent" /\ Owns(w, global) => global.lease > now + 1
  /\ now' = now + 1
  /\ UNCHANGED <<dbVars, pc, localVars, owed, seen>>

\* The thread is resumed and written to.
Touch(t) ==
  /\ updated[t] # now
  /\ updated' = [updated EXCEPT ![t] = now]
  /\ UNCHANGED <<now, mode, row, global, out, pc, localVars, owed, seen>>

\* record_stage1_output_usage.
RecordUsage(t) ==
  /\ out[t].src # 0
  /\ out' = [out EXCEPT ![t].last_usage = now]
  /\ UNCHANGED <<now, updated, mode, row, global, pc, localVars, owed, seen>>

\* mark_thread_memory_mode_polluted.
Pollute(t) ==
  /\ mode[t] # "polluted"
  /\ RoomToEnqueue
  /\ mode' = [mode EXCEPT ![t] = "polluted"]
  /\ IF out[t].selected # 0 THEN global' = Enqueued(global, now) /\ Changed(t)
       ELSE UNCHANGED <<global, owed, seen>>
  /\ UNCHANGED <<now, updated, row, out, pc, localVars>>

\* reconcile_rollout writes the mode that the rollout file has, which is not
\* told of a pollution.
Reconcile(t) ==
  /\ mode' = [mode EXCEPT ![t] = "enabled"]
  /\ UNCHANGED <<now, updated, row, global, out, pc, localVars, owed, seen>>

\* clear_memory_data and reset_memory_data_for_fresh_start.
Clear(disable) ==
  /\ out' = [t \in Thread |-> NoOutput]
  /\ row' = [t \in Thread |-> NoRow]
  /\ global' = NoRow
  /\ mode' = IF disable
               THEN [t \in Thread |-> IF mode[t] = "enabled" THEN "disabled" ELSE mode[t]]
               ELSE mode
  /\ owed' = {}
  /\ UNCHANGED <<now, updated, pc, localVars, seen>>

Pipeline(w) ==
  \/ Prune(w) \/ Scan(w) \/ ClaimNext(w) \/ ClaimsEnd(w)
  \/ \E t \in Thread : StageOneSucceeds(w, t) \/ StageOneNoOutput(w, t)
                         \/ StageOneFails(w, t) \/ StageOneLost(w, t)
  \/ ClaimGlobal(w) \/ Select(w) \/ Sync(w) \/ Heartbeat(w) \/ AgentCompletes(w)
  \/ PhaseTwoFails(w) \/ Crash(w)

Environment ==
  \/ Tick
  \/ \E t \in Thread : Touch(t) \/ RecordUsage(t) \/ Pollute(t) \/ Reconcile(t)
  \/ \E disable \in BOOLEAN : Clear(disable)

Next == Environment \/ \E w \in Worker : Pipeline(w)

Spec == Init /\ [][Next]_vars

------------------------------------------------------------------------------
(* Properties.                                                               *)

\* No change is lost: as long as the change of a thread's memory (a new output,
\* a deleted one, a thread of the baseline to forget) has not been read by a
\* consolidation that then succeeded, the global job is dirty, so that
\* try_claim_global_phase2_job gives it to a later worker.  The watermarks are
\* timestamps: a change that is older than the last one, or that comes between
\* the claim, the selection and the success of a consolidation, must count too.
NoLostChange == owed # {} => Dirty

\* A thread is up to date only with the output of that very update: the success
\* watermark of its job and the output it has are of the same scan, however late
\* a worker whose lease ran out reports its result.
SuccessHasItsOutput ==
  \A t \in Thread : row[t].success # 0 /\ out[t].src # 0 => out[t].src = row[t].success

\* Whatever the crashes, expired leases and scans that are out of date, no more
\* than max_running_jobs extractions are leased at a time.
RunningBounded == Cardinality({t \in Thread : Live(row[t])}) <= MaxClaimed

\* A running job has an attempt left to lose, also after its lease ran out and
\* another worker took it over: retry_remaining never gets below 0.
RetriesLeft ==
  \A r \in {global} \cup {row[t] : t \in Thread} : r.status = "running" => r.retries > 0

\* The job rows as their workers know them: the global one and one per thread.
TakesUp(w, j) ==
  IF j = Global THEN pc[w] \in {"select", "sync", "agent"} ELSE claimed[w][j] # 0
MayTakeUp(w, j) ==
  IF j = Global THEN pc[w] # "done" ELSE pc[w] \in {"off", "scan"} \/ found[w][j] # 0
JobRow(j) == IF j = Global THEN global ELSE row[j]
Jobs == INSTANCE FencedJobs WITH
  Job <- Thread \cup {Global},
  Client <- Worker,
  holder <- [j \in Thread \cup {Global} |->
               IF JobRow(j).status = "running" THEN JobRow(j).token ELSE None],
  client <- [j \in Thread \cup {Global} |-> [w \in Worker |->
               IF TakesUp(w, j) THEN "working" ELSE IF MayTakeUp(w, j) THEN "new" ELSE "over"]],
  done <- [j \in Thread \cup {Global} |-> JobRow(j).success]

\* Jobs are fenced: a worker that lost a row to another one or to a reset neither
\* moves its success watermark nor gives it up, and a watermark never goes back.
JobsFenced == Jobs!Spec

\* core/src/memories/README.md: the claim of the global row is there "so only one
\* consolidation runs at a time".
OneConsolidation ==
  \A v, w \in Worker : pc[v] = "agent" /\ pc[w] = "agent" => v = w
==============================================================================
