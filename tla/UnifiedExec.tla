------------------------------ MODULE UnifiedExec ------------------------------
(***************************************************************************)
(* core: the background processes of a session.                             *)
(*   tools/handlers/unified_exec.rs   exec_command and write_stdin          *)
(*   unified_exec/process_manager.rs  the bounded store, its ids, pruning   *)
(*   unified_exec/process.rs          a process, terminated when it is told *)
(*                                    to or when its last owner drops it    *)
(*   unified_exec/async_watcher.rs    the task that reports its end         *)
(* exec_command calls of a turn run in parallel; write_stdin runs alone.    *)
(* Output is left out: a call collects it until its deadline or the end of  *)
(* the process, so it may go on at any time.                                *)
(***************************************************************************)
EXTENDS Integers, FiniteSets

CONSTANTS
  MaxCalls,      \* bound: calls of exec_command
  RemoteCall,    \* those that run on an exec server
  MaxProcesses,  \* MAX_UNIFIED_EXEC_PROCESSES
  Protected,     \* how many recently used processes are not pruned
  None,
  MaxPolls,      \* bound: calls of write_stdin
  MaxFaults      \* bound: calls that are interrupted, and cleanups of all processes

ASSUME StoreAssumption ==
  /\ MaxProcesses \in Nat /\ Protected \in Nat /\ Protected < MaxProcesses
  /\ None \notin Nat
  /\ MaxCalls \in Nat /\ RemoteCall \subseteq 1..MaxCalls /\ MaxPolls \in Nat /\ MaxFaults \in Nat

VARIABLES
  store,      \* ProcessStore::processes, by id
  reserved,   \* ProcessStore::reserved_process_ids
  lastUsed,   \* ProcessEntry::last_used
  clock,      \* Instant::now
  pc,         \* of an exec_command call
  id,         \* the id it allocated
  victim,     \* the entry it pruned, until it has terminated it
  poll,       \* the call of write_stdin in flight: its id, its process, where it is
  polls,      \* how many there were
  faults,     \* how many interrupts and cleanups
  proc,       \* the process of a call
  failed,     \* the processes with a failure_message
  killed,     \* those that were told to terminate
  watched,    \* those whose exit watcher waits, and owns them
  ends,       \* ExecCommandEnd events sent for a call
  used,       \* history: when a process was last started or written to
  stale,      \* history: calls in flight when all ids were given up
  clash,      \* history: calls whose id was given to another while they used it
  abandoned   \* history: entries pruned by a call that ended before terminating them

callVars == <<pc, id, victim>>
pollVars == <<poll, polls>>
procVars == <<proc, failed>>
useVars == <<lastUsed, clock, used>>
history == <<stale, clash>>
vars == <<store, reserved, lastUsed, clock, pc, id, victim, poll, polls, faults, proc, failed, killed,
          watched, ends, used, stale, clash, abandoned>>

Call == 1..MaxCalls   \* a call, in the order they are made, and the process it starts
Id == 1..MaxCalls     \* process ids, numbered in the order they are first given out
Label == {"idle", "allocated", "storing", "pruned", "watch", "yield", "short", "done"}
InFlight == {c \in Call : pc[c] \notin {"idle", "done"}}
Idle == [pc |-> "idle", id |-> None, proc |-> None]
Time == 0..(MaxCalls + MaxPolls)

TypeOK ==
  /\ store \in [Id -> Call \cup {None}]
  /\ reserved \subseteq Id
  /\ lastUsed \in [Call -> Time] /\ clock \in Time /\ used \in [Call -> Time]
  /\ pc \in [Call -> Label]
  /\ id \in [Call -> Id \cup {None}]
  /\ victim \in [Call -> Call \cup {None}]
  /\ \A c \in Call : victim[c] # None => pc[c] = "pruned"
  /\ poll \in [pc : {"idle", "writing", "polling"}, id : Id \cup {None}, proc : Call \cup {None}]
  /\ polls \in 0..MaxPolls /\ faults \in 0..MaxFaults
  /\ proc \in [Call -> {"none", "alive", "exited"}]
  /\ failed \cup killed \cup watched \cup stale \cup clash \cup abandoned \subseteq Call
  /\ ends \in [Call -> Nat]

Init ==
  /\ store = [i \in Id |-> None] /\ reserved = {}
  /\ lastUsed = [c \in Call |-> 0] /\ used = [c \in Call |-> 0] /\ clock = 0
  /\ pc = [c \in Call |-> "idle"]
  /\ id = [c \in Call |-> None]
  /\ victim = [c \in Call |-> None]
  /\ poll = Idle /\ polls = 0 /\ faults = 0
  /\ proc = [c \in Call |-> "none"]
  /\ failed = {} /\ killed = {} /\ watched = {}
  /\ ends = [c \in Call |-> 0]
  /\ stale = {} /\ clash = {} /\ abandoned = {}

------------------------------------------------------------------------------
(* Processes and who owns them.                                              *)

Stored == {store[i] : i \in Id} \ {None}

\* Arc<UnifiedExecProcess>: the store, the call that started it or that pruned it,
\* write_stdin and the exit watcher.
Held(p) ==
  \/ p \in Stored \/ p \in watched
  \/ p \in InFlight \/ \E c \in InFlight : victim[c] = p
  \/ poll.proc = p

\* terminate(): told to, or dropped by the last owner.
Terminates(told) ==
  killed' = killed \cup {p \in Call : proc[p] = "alive" /\ (p \in told \/ ~Held(p)')}

\* The process ends, by itself or because it was told to, and the task that waits for
\* that cancels its token.  A remote one may also fail.
Exits(p) ==
  /\ proc[p] = "alive"
  /\ proc' = [proc EXCEPT ![p] = "exited"]
  /\ failed' \in {failed, failed \cup ({p} \cap RemoteCall)}
  /\ UNCHANGED <<store, reserved, useVars, callVars, pollVars, killed, watched, ends,
                 history, abandoned, faults>>

\* spawn_exit_watcher, once the output is drained: it sends the end, and lets go of
\* the process.
WatcherReports(p) ==
  /\ p \in watched /\ (proc[p] = "exited" \/ p \in killed)
  /\ watched' = watched \ {p}
  /\ ends' = [ends EXCEPT ![p] = @ + 1]
  /\ UNCHANGED <<store, reserved, useVars, callVars, pollVars, procVars, history, abandoned, faults>>
  /\ Terminates({})

------------------------------------------------------------------------------
(* The store.                                                                *)

Fault == faults < MaxFaults /\ faults' = faults + 1
Go(c, to) == pc' = [pc EXCEPT ![c] = to]

\* Faulty: only the reservation is given up.
RemoveReservation(i) ==
  /\ reserved' = reserved \ {i}
  /\ UNCHANGED store

\* ProcessStore::remove, whatever the id denotes now.
Remove(i) ==
  /\ store' = [store EXCEPT ![i] = None]
  /\ reserved' = reserved \ {i}

\* refresh_process_state: an entry whose process has exited is removed.
Refresh(i) ==
  IF store[i] # None /\ proc[store[i]] = "exited" THEN Remove(i) ELSE UNCHANGED <<store, reserved>>

\* allocate_process_id: any id that is not reserved, an old one or a new one.
Allocate(c, i) ==
  /\ pc[c] = "idle" /\ \A d \in 1..(c - 1) : pc[d] # "idle"
  /\ poll = Idle
  /\ i \notin reserved
  /\ 1..(i - 1) \subseteq {id[d] : d \in Call}
  /\ reserved' = reserved \cup {i}
  /\ id' = [id EXCEPT ![c] = i]
  /\ Go(c, "allocated")
  /\ clash' = LET before == {d \in InFlight \cup Stored : id[d] = i}
              IN IF before = {} THEN clash ELSE clash \cup before \cup {c}
  /\ UNCHANGED <<store, useVars, victim, pollVars, procVars, killed, watched, ends, stale,
                 abandoned, faults>>

\* The handler returns before it opens a process: it gives the id back, except when
\* the command or an intercepted patch is in error.
Reject(c) ==
  /\ pc[c] = "allocated"
  /\ Go(c, "done")
  /\ Remove(id[c]) \/ UNCHANGED <<store, reserved>>
  /\ UNCHANGED <<useVars, id, victim, pollVars, procVars, watched, ends, history, abandoned, faults>>
  /\ Terminates({})

\* open_session_with_sandbox, and the begin is announced.  A process that is over by
\* then is not stored.
OpenSession(c) ==
  /\ pc[c] = "allocated"
  /\ clock' = clock + 1
  /\ lastUsed' = [lastUsed EXCEPT ![c] = clock']
  /\ used' = [used EXCEPT ![c] = clock']
  /\ \/ proc' = [proc EXCEPT ![c] = "alive"] /\ Go(c, "storing")
     \/ proc' = [proc EXCEPT ![c] = "exited"] /\ Go(c, "short")
  /\ UNCHANGED <<store, reserved, id, victim, pollVars, failed, killed, watched, ends,
                 history, abandoned, faults>>

OpenFails(c) ==
  /\ pc[c] = "allocated"
  /\ Go(c, "done")
  /\ Remove(id[c])
  /\ UNCHANGED <<useVars, id, victim, pollVars, procVars, watched, ends, history, abandoned, faults>>
  /\ Terminates({})

\* process_id_to_prune_from_meta: the least recently used of the exited processes
\* that are not protected; without one, the least recently used of the others.
Recent == {p \in Stored : Cardinality({q \in Stored : lastUsed[q] > lastUsed[p]}) < Protected}
ToPrune ==
  LET unprotected == Stored \ Recent
      exited == {p \in unprotected : proc[p] = "exited"}
      from == IF exited # {} THEN exited ELSE unprotected IN
  CHOOSE p \in from : \A q \in from : lastUsed[p] <= lastUsed[q]

\* Faulty: the store is pruned once it is over its limit.
MustPruneLate == Cardinality({i \in Id : store[i] # None}) > MaxProcesses

\* prune_processes_if_needed.
MustPrune == Cardinality({i \in Id : store[i] # None}) >= MaxProcesses

\* store_process, under the lock: prune, then insert.
StoreProcess(c) ==
  LET pruned == IF MustPrune THEN {i \in Id : store[i] # None /\ store[i] = ToPrune} ELSE {} IN
  /\ pc[c] = "storing"
  /\ store' = [i \in Id |-> IF i = id[c] THEN c ELSE IF i \in pruned THEN None ELSE store[i]]
  /\ reserved' = reserved \ pruned
  /\ victim' = [victim EXCEPT ![c] = IF pruned = {} THEN None ELSE ToPrune]
  /\ Go(c, IF pruned = {} THEN "watch" ELSE "pruned")
  /\ UNCHANGED <<useVars, id, pollVars, procVars, watched, ends, history, abandoned, faults>>
  /\ Terminates({})

\* Faulty: the pruned entry is left to its Drop.
TerminatePrunedDrops(c) ==
  /\ pc[c] = "pruned"
  /\ Go(c, "watch")
  /\ victim' = [victim EXCEPT ![c] = None]
  /\ UNCHANGED <<store, reserved, useVars, id, pollVars, procVars, watched, ends, history, abandoned,
                 faults>>
  /\ Terminates({})

\* Faulty: the pruned entry is kept.
TerminatePrunedKeeps(c) ==
  /\ pc[c] = "pruned"
  /\ Go(c, "watch")
  /\ UNCHANGED <<store, reserved, useVars, id, victim, pollVars, procVars, watched, ends, history, abandoned,
                 faults>>
  /\ Terminates({victim[c]} \ {None})

\* ... without it: the pruned process is terminated ...
TerminatePruned(c) ==
  /\ pc[c] = "pruned"
  /\ Go(c, "watch")
  /\ victim' = [victim EXCEPT ![c] = None]
  /\ UNCHANGED <<store, reserved, useVars, id, pollVars, procVars, watched, ends, history, abandoned,
                 faults>>
  /\ Terminates({victim[c]} \ {None})

\* ... the model warned, and the watcher started.
SpawnWatcher(c) ==
  /\ pc[c] = "watch"
  /\ Go(c, "yield")
  /\ watched' = watched \cup {c}
  /\ UNCHANGED <<store, reserved, useVars, id, victim, pollVars, procVars, killed, ends, history,
                 abandoned, faults>>

\* Faulty: the end of a process that exited meanwhile is reported here too.
ReturnReports(c) ==
  /\ pc[c] = "yield"
  /\ Go(c, "done")
  /\ IF c \in failed THEN Remove(id[c]) ELSE Refresh(id[c])
  /\ ends' = IF proc[c] = "exited" THEN [ends EXCEPT ![c] = @ + 1] ELSE ends
  /\ UNCHANGED <<useVars, id, victim, pollVars, procVars, watched, history, abandoned, faults>>
  /\ Terminates({})

\* exec_command after it has yielded.
Return(c) ==
  /\ pc[c] = "yield"
  /\ Go(c, "done")
  /\ IF c \in failed THEN Remove(id[c]) ELSE Refresh(id[c])
  /\ UNCHANGED <<useVars, id, victim, pollVars, procVars, watched, ends, history, abandoned, faults>>
  /\ Terminates({})

\* The same for a short-lived command: it reports the end itself.
ReturnShort(c) ==
  /\ pc[c] = "short"
  /\ Go(c, "done")
  /\ ends' = [ends EXCEPT ![c] = @ + 1]
  /\ Remove(id[c])
  /\ UNCHANGED <<useVars, id, victim, pollVars, procVars, watched, history, abandoned, faults>>
  /\ Terminates({})

\* The turn is aborted, and the call is dropped at the await it is in.
Interrupt(c) ==
  /\ c \in InFlight
  /\ Fault
  /\ Go(c, "done")
  /\ victim' = [victim EXCEPT ![c] = None]
  /\ abandoned' = abandoned \cup ({victim[c]} \ {None})
  /\ UNCHANGED <<store, reserved, useVars, id, pollVars, procVars, watched, ends, history>>
  /\ Terminates({})

\* terminate_all_processes, for CleanBackgroundTerminals and at shutdown.
TerminateAll ==
  /\ Stored # {} \/ reserved # {}
  /\ Fault
  /\ store' = [i \in Id |-> None]
  /\ reserved' = {}
  /\ stale' = stale \cup InFlight
  /\ UNCHANGED <<useVars, callVars, pollVars, procVars, watched, ends, clash, abandoned>>
  /\ Terminates(Stored)

------------------------------------------------------------------------------
(* write_stdin.                                                              *)

\* Faulty: a write does not count as a use.
PrepareUntouched(i) ==
  /\ InFlight = {} /\ poll = Idle /\ polls < MaxPolls
  /\ store[i] # None
  /\ clock' = clock + 1
  /\ used' = [used EXCEPT ![store[i]] = clock']
  /\ poll' = [pc |-> "writing", id |-> i, proc |-> store[i]]
  /\ polls' = polls + 1
  /\ UNCHANGED <<store, reserved, lastUsed, callVars, procVars, killed, watched, ends, history,
                 abandoned, faults>>

\* prepare_process_handles; an unknown id is an error.
Prepare(i) ==
  /\ InFlight = {} /\ poll = Idle /\ polls < MaxPolls
  /\ store[i] # None
  /\ clock' = clock + 1
  /\ lastUsed' = [lastUsed EXCEPT ![store[i]] = clock']
  /\ used' = [used EXCEPT ![store[i]] = clock']
  /\ poll' = [pc |-> "writing", id |-> i, proc |-> store[i]]
  /\ polls' = polls + 1
  /\ UNCHANGED <<store, reserved, callVars, procVars, killed, watched, ends, history,
                 abandoned, faults>>

\* The input is taken, or there is none.
Write ==
  /\ poll.pc = "writing"
  /\ poll' = [poll EXCEPT !.pc = "polling"]
  /\ UNCHANGED <<store, reserved, useVars, callVars, polls, procVars, killed, watched, ends,
                 history, abandoned, faults>>

\* It is not: the process has exited, cannot take it, or (remote) has failed.
WriteFails ==
  /\ poll.pc = "writing"
  /\ poll' = Idle
  /\ UNCHANGED <<useVars, callVars, polls, procVars, watched, ends, history, abandoned, faults>>
  /\ \/ Refresh(poll.id) /\ Terminates({})
     \/ /\ proc[poll.proc] = "alive"
        /\ Remove(poll.id)
        /\ Terminates({poll.proc})

PollEnds ==
  /\ poll.pc = "polling"
  /\ poll' = Idle
  /\ IF poll.proc \in failed THEN Remove(poll.id) ELSE Refresh(poll.id)
  /\ UNCHANGED <<useVars, callVars, polls, procVars, watched, ends, history, abandoned, faults>>
  /\ Terminates({})

PollInterrupted ==
  /\ poll # Idle
  /\ Fault
  /\ poll' = Idle
  /\ UNCHANGED <<store, reserved, useVars, callVars, polls, procVars, watched, ends, history,
                 abandoned>>
  /\ Terminates({})

CallStep(c) ==
  \/ \E i \in Id : Allocate(c, i)
  \/ Reject(c) \/ OpenSession(c) \/ OpenFails(c) \/ StoreProcess(c)
  \/ TerminatePruned(c) \/ SpawnWatcher(c) \/ Return(c) \/ ReturnShort(c) \/ Interrupt(c)
ProcessStep(p) == Exits(p) \/ WatcherReports(p)
PollStep == (\E i \in Id : Prepare(i)) \/ Write \/ WriteFails \/ PollEnds \/ PollInterrupted

Next ==
  \/ \E c \in Call : CallStep(c) \/ ProcessStep(c)
  \/ PollStep
  \/ TerminateAll

Spec == Init /\ [][Next]_vars

------------------------------------------------------------------------------
(* Properties.                                                               *)

\* The store never holds more than its limit, with calls that store in parallel.
StoreBounded == Cardinality({i \in Id : store[i] # None}) <= MaxProcesses

\* The id of a stored process is reserved, so that no other call is given it, unless
\* all ids were given up while its call was between taking the id and storing, or
\* the id was given out twice.
StoredIdReserved ==
  \A i \in Id : store[i] # None => i \in reserved \/ store[i] \in stale \cup clash

\* A process that runs can be reached or is on its way out: it is stored, in the
\* hands of a call, or told to terminate.  What is known to break this: an abort
\* between pruning a process and terminating it, and an id given out twice.
NoOrphan ==
  \A p \in Call : proc[p] = "alive" =>
    \/ p \in Stored \/ p \in InFlight \/ p \in killed
    \/ \E c \in InFlight : victim[c] = p
    \/ p \in abandoned \/ p \in clash

\* At most one end is reported for a call: by the call itself for a process that was
\* over before it was stored, by the watcher for any other.
OneEnd == \A c \in Call : ends[c] <= 1

\* A running process is pruned only when at least Protected stored ones were started
\* or written to after it, and none of the others had exited.
PrunesIdle(c) ==
  victim'[c] # victim[c] /\ victim'[c] # None =>
    LET p == victim'[c]
        newer(q) == {r \in Stored : used[r] > used[q]} IN
    /\ Cardinality(newer(p)) >= Protected
    /\ proc[p] = "alive" =>
         \A q \in Stored : proc[q] = "exited" => Cardinality(newer(q)) < Protected

\* prune_processes_if_needed, whichever call stores, takes an idle one.
PrunesTheIdle == [][\A c \in Call : PrunesIdle(c)]_vars
==============================================================================
