------------------------------- MODULE ToolCalls -------------------------------
(***************************************************************************)
(* core: the tool calls of a turn and the questions they ask the user.      *)
(*   tools/parallel.rs    every call is a task of its own, under a read or  *)
(*                        a write guard, and ends when its turn is cancelled *)
(*   tools/registry.rs    a mutating call waits for the turn's gate, which  *)
(*                        the ghost snapshot opens                          *)
(*   codex.rs             request_* leaves a one-shot sender in the state of *)
(*                        the active turn, notify_* takes it out by its key *)
(*   tasks/mod.rs         an abort takes the turn, cancels, kills, clears   *)
(* The life of turns is the part of TurnLifecycle that matters here: one    *)
(* task per turn, and a turn may start as soon as there is no active one,   *)
(* while the tasks of the turn that was taken still run.                    *)
(***************************************************************************)
EXTENDS Integers, Sequences, FiniteSets

CONSTANTS
  MaxTurns,        \* bound: turns 1..MaxTurns, in the order they begin
  Call,            \* tool calls, each made and asking at most once
  MaxCalls,        \* bound: how many of them are made
  PermissionCall,  \* those that ask with request_permissions,
  InputCall,       \* request_user_input; the others ask to approve a command or a patch
  ParallelCall,    \* those of tools that support parallel calls
  MutatingCall,    \* those whose handler is_mutating
  Snapshots,       \* Feature::GhostCommit
  None

ASSUME CallAssumption ==
  /\ PermissionCall \cup InputCall \cup ParallelCall \cup MutatingCall \subseteq Call
  /\ PermissionCall \cap InputCall = {}
  /\ Call \cap Nat = {} /\ None \notin Nat \cup Call
  /\ MaxTurns \in Nat /\ MaxCalls \in Nat
  /\ Snapshots \in BOOLEAN
\* request_user_input and the tools of MCP servers, which ask with it, are
\* registered without support for parallel calls.
ASSUME InputIsExclusive == InputCall \cap ParallelCall = {}

VARIABLES
  active,    \* Session::active_turn
  phase,     \* how far a turn and its abort are
  gate,      \* TurnContext::tool_call_gate
  snapshot,  \* the ghost snapshot of a turn
  queue,     \* calls waiting for parallel_execution, first come first served
  pending,   \* TurnState::pending_*, by key
  granted,   \* TurnState::granted_permissions, as the calls that asked for them
  turn,      \* the turn a call belongs to
  pc,        \* of a call
  asked,     \* the turn whose state got the call's sender, once it has asked
  open,      \* the calls whose question the client has and may answer
  answerTo   \* the question the answer it got was given to; None if it got none

turnVars == <<active, phase, gate, snapshot>>
vars == <<active, phase, gate, snapshot, queue, pending, granted, turn, pc, asked, open, answerTo>>

Turn == 1..MaxTurns
Key == Call \cup Turn
Phase == {"new", "running", "taken", "cancelled", "killed", "over"}
Label == {"idle", "queued", "gate", "running", "waiting", "answered", "done"}

TypeOK ==
  /\ active \in Turn \cup {None}
  /\ phase \in [Turn -> Phase]
  /\ gate \in [Turn -> {"fresh", "pending", "ready"}]
  /\ snapshot \in [Turn -> {"none", "off", "running", "done", "abandoned"}]
  /\ queue \in [Turn -> Seq(Call)]
  /\ pending \in [Turn -> [Key -> Call \cup {None}]]
  /\ granted \in [Turn -> SUBSET PermissionCall]
  /\ turn \in [Call -> Turn \cup {None}]
  /\ pc \in [Call -> Label]
  /\ asked \in [Call -> Turn \cup {None}]
  /\ open \subseteq Call
  /\ answerTo \in [Call -> Call \cup {None}]

Init ==
  /\ active = None
  /\ phase = [k \in Turn |-> "new"]
  /\ gate = [k \in Turn |-> "fresh"]
  /\ snapshot = [k \in Turn |-> "none"]
  /\ queue = [k \in Turn |-> <<>>]
  /\ pending = [k \in Turn |-> [q \in Key |-> None]]
  /\ granted = [k \in Turn |-> {}]
  /\ turn = [c \in Call |-> None]
  /\ pc = [c \in Call |-> "idle"]
  /\ asked = [c \in Call |-> None]
  /\ open = {}
  /\ answerTo = [c \in Call |-> None]

------------------------------------------------------------------------------
(* A call: spawned by the stream, dispatched under the guard and the gate.   *)

CallsOf(k) == {c \in Call : turn[c] = k}
Holding == {"gate", "running", "waiting", "answered"}   \* the guard of parallel_execution
Cancelled(k) == phase[k] \in {"cancelled", "killed", "over"}

\* Faulty: the stream is opened before the snapshot is started.
SpawnCallEarly(c, k) ==
  /\ pc[c] = "idle"
  /\ phase[k] \in {"running", "taken", "cancelled"}
  /\ Cardinality({d \in Call : pc[d] # "idle"}) < MaxCalls
  /\ turn' = [turn EXCEPT ![c] = k]
  /\ pc' = [pc EXCEPT ![c] = "queued"]
  /\ queue' = [queue EXCEPT ![k] = Append(@, c)]
  /\ UNCHANGED <<turnVars, pending, granted, asked, open, answerTo>>

\* handle_tool_call: a response item of the model's stream, which is opened after
\* the turn's snapshot was started.
SpawnCall(c, k) ==
  /\ pc[c] = "idle"
  /\ phase[k] \in {"running", "taken", "cancelled"}
  /\ snapshot[k] # "none"
  /\ Cardinality({d \in Call : pc[d] # "idle"}) < MaxCalls
  /\ turn' = [turn EXCEPT ![c] = k]
  /\ pc' = [pc EXCEPT ![c] = "queued"]
  /\ queue' = [queue EXCEPT ![k] = Append(@, c)]
  /\ UNCHANGED <<turnVars, pending, granted, asked, open, answerTo>>

\* Faulty: every call takes a read guard.
AdmitsAll(c, k) == TRUE

\* The RwLock is fair: a guard is given to the first in the queue.
Admits(c, k) ==
  \A d \in CallsOf(k) : pc[d] \in Holding => {c, d} \subseteq ParallelCall
AcquireGuard(c) ==
  LET k == turn[c] IN
  /\ pc[c] = "queued"
  /\ queue[k] # <<>> /\ Head(queue[k]) = c /\ Admits(c, k)
  /\ queue' = [queue EXCEPT ![k] = Tail(@)]
  /\ pc' = [pc EXCEPT ![c] = IF c \in MutatingCall THEN "gate" ELSE "running"]
  /\ UNCHANGED <<turnVars, pending, granted, turn, asked, open, answerTo>>

\* tool_call_gate.wait_ready: asked before anybody subscribed, the flag is ready.
PassGate(c) ==
  /\ pc[c] = "gate"
  /\ gate[turn[c]] # "pending"
  /\ gate' = [gate EXCEPT ![turn[c]] = "ready"]
  /\ pc' = [pc EXCEPT ![c] = "running"]
  /\ UNCHANGED <<active, phase, snapshot, queue, pending, granted, turn, asked, open, answerTo>>

\* The handler is through; its output is recorded for the model.
FinishCall(c) ==
  /\ pc[c] \in {"running", "answered"}
  /\ pc' = [pc EXCEPT ![c] = "done"]
  /\ UNCHANGED <<turnVars, queue, pending, granted, turn, asked, open, answerTo>>

\* A queue without c, which is in it at most once.
Without(s, c) ==
  LET places == {i \in 1..Len(s) : s[i] = c}
      i == CHOOSE i \in places : TRUE IN
  IF places = {} THEN s ELSE SubSeq(s, 1, i - 1) \o SubSeq(s, i + 1, Len(s))

\* Faulty: an answer is awaited outside the select!.
CallCancelledUnlessWaiting(c) ==
  /\ pc[c] \notin {"idle", "waiting", "done"}
  /\ Cancelled(turn[c])
  /\ pc' = [pc EXCEPT ![c] = "done"]
  /\ queue' = [queue EXCEPT ![turn[c]] = Without(@, c)]
  /\ UNCHANGED <<turnVars, pending, granted, turn, asked, open, answerTo>>

\* The select! of the call's task sees the cancellation, or its handle is dropped.
CallCancelled(c) ==
  /\ pc[c] \notin {"idle", "done"}
  /\ Cancelled(turn[c])
  /\ pc' = [pc EXCEPT ![c] = "done"]
  /\ queue' = [queue EXCEPT ![turn[c]] = Without(@, c)]
  /\ UNCHANGED <<turnVars, pending, granted, turn, asked, open, answerTo>>

------------------------------------------------------------------------------
(* Questions and answers.                                                    *)

\* The key of a call's sender: its call id, but the turn's sub_id for user input.
KeyOf(c) == IF c \in InputCall THEN turn[c] ELSE c

\* The calls D, as far as they still wait, find their sender dropped, and go on with
\* an answer that nobody gave: Abort, none, or (a patch) the default, Denied.
Drop(D) == pc' = [c \in Call |-> IF c \in D /\ pc[c] = "waiting" THEN "answered" ELSE pc[c]]
Senders(k) == {pending[k][q] : q \in Key} \ {None}

\* request_*: the sender goes to whatever turn is active; without one it is
\* dropped.  The event goes to the client in any case.  The task of a call whose
\* turn is cancelled sees that in the same poll, and is gone.
Ask(c) ==
  LET old == IF active = None THEN None ELSE pending[active][KeyOf(c)] IN
  /\ pc[c] = "running"
  /\ asked' = [asked EXCEPT ![c] = active]
  /\ open' = open \cup {c}
  /\ pending' = IF active = None THEN pending
                ELSE [pending EXCEPT ![active][KeyOf(c)] = c]
  /\ pc' = [d \in Call |->
              CASE d = c -> IF Cancelled(turn[c]) THEN "done"
                            ELSE IF active = None THEN "answered" ELSE "waiting"
                [] d = old /\ pc[d] = "waiting" -> "answered"
                [] OTHER -> pc[d]]
  /\ UNCHANGED <<turnVars, queue, granted, turn, answerTo>>

\* The submission loop, which takes the client's answers, is in abort_all_tasks.
Aborting == \E k \in Turn : phase[k] \in {"taken", "cancelled", "killed"}

\* Faulty: the permissions are recorded whether or not the turn has the request.
NotifyGrantsAnyway(c, grants) ==
  LET d == IF active = None THEN None ELSE pending[active][KeyOf(c)]
      delivered == d # None /\ pc[d] = "waiting" IN
  /\ c \in open /\ ~Aborting
  /\ grants => c \in PermissionCall
  /\ open' = open \ {c}
  /\ pending' = IF d = None THEN pending ELSE [pending EXCEPT ![active][KeyOf(c)] = None]
  /\ granted' = IF grants /\ active # None THEN [granted EXCEPT ![active] = @ \cup {c}]
                ELSE granted
  /\ IF delivered
       THEN /\ pc' = [pc EXCEPT ![d] = "answered"]
            /\ answerTo' = [answerTo EXCEPT ![d] = c]
       ELSE UNCHANGED <<pc, answerTo>>
  /\ UNCHANGED <<turnVars, queue, turn, asked>>

\* Faulty: an approved command grants its permissions to the turn.
NotifyGrantsAll(c, grants) ==
  LET d == IF active = None THEN None ELSE pending[active][KeyOf(c)]
      delivered == d # None /\ pc[d] = "waiting" IN
  /\ c \in open /\ ~Aborting
  /\ open' = open \ {c}
  /\ IF d = None THEN UNCHANGED <<pending, granted>>
       ELSE /\ pending' = [pending EXCEPT ![active][KeyOf(c)] = None]
            /\ granted' = IF grants THEN [granted EXCEPT ![active] = @ \cup {c}] ELSE granted
  /\ IF delivered
       THEN /\ pc' = [pc EXCEPT ![d] = "answered"]
            /\ answerTo' = [answerTo EXCEPT ![d] = c]
       ELSE UNCHANGED <<pc, answerTo>>
  /\ UNCHANGED <<turnVars, queue, turn, asked>>

\* notify_*: the client answers the question of c, at any later time; the sender is
\* looked up by its key in the turn that is active now.
Notify(c, grants) ==
  LET d == IF active = None THEN None ELSE pending[active][KeyOf(c)]
      delivered == d # None /\ pc[d] = "waiting" IN
  /\ c \in open /\ ~Aborting
  /\ grants => c \in PermissionCall
  /\ open' = open \ {c}
  /\ IF d = None THEN UNCHANGED <<pending, granted>>
       ELSE /\ pending' = [pending EXCEPT ![active][KeyOf(c)] = None]
            /\ granted' = IF grants THEN [granted EXCEPT ![active] = @ \cup {c}] ELSE granted
  /\ IF delivered
       THEN /\ pc' = [pc EXCEPT ![d] = "answered"]
            /\ answerTo' = [answerTo EXCEPT ![d] = c]
       ELSE UNCHANGED <<pc, answerTo>>
  /\ UNCHANGED <<turnVars, queue, turn, asked>>

------------------------------------------------------------------------------
(* Turns.                                                                    *)

Enter(k, to) == phase' = [phase EXCEPT ![k] = to]

BeginTurn(k) ==
  /\ active = None /\ phase[k] = "new"
  /\ \A j \in 1..(k - 1) : phase[j] # "new"
  /\ active' = k
  /\ Enter(k, "running")
  /\ UNCHANGED <<gate, snapshot, queue, pending, granted, turn, pc, asked, open, answerTo>>

\* run_turn: maybe_start_ghost_snapshot, which gives up if the gate is ready,
\* before the first request to the model.
StartSnapshot(k) ==
  /\ phase[k] \in {"running", "taken", "cancelled"}
  /\ snapshot[k] = "none"
  /\ IF Snapshots /\ gate[k] # "ready"
       THEN /\ gate' = [gate EXCEPT ![k] = "pending"]
            /\ snapshot' = [snapshot EXCEPT ![k] = "running"]
       ELSE /\ snapshot' = [snapshot EXCEPT ![k] = "off"]
            /\ UNCHANGED gate
  /\ UNCHANGED <<active, phase, queue, pending, granted, turn, pc, asked, open, answerTo>>

\* The snapshot is taken or fails; or the turn is cancelled, and the gate opens
\* over a snapshot that is still being taken.
SnapshotEnds(k) ==
  /\ snapshot[k] = "running"
  /\ \/ snapshot' = [snapshot EXCEPT ![k] = "done"]
     \/ Cancelled(k) /\ snapshot' = [snapshot EXCEPT ![k] = "abandoned"]
  /\ gate' = [gate EXCEPT ![k] = "ready"]
  /\ UNCHANGED <<active, phase, queue, pending, granted, turn, pc, asked, open, answerTo>>

\* Faulty: a task still holds the state of the finished turn, and its senders.
FinishTurnLeaks(k) ==
  /\ active = k /\ phase[k] = "running"
  /\ \A c \in CallsOf(k) : pc[c] = "done"
  /\ active' = None
  /\ Enter(k, "over")
  /\ UNCHANGED <<gate, snapshot, queue, pending, granted, turn, pc, asked, open, answerTo>>

\* on_task_finished, after the stream has ended and its calls are drained.  The
\* state of the turn is dropped.
FinishTurn(k) ==
  /\ active = k /\ phase[k] = "running"
  /\ \A c \in CallsOf(k) : pc[c] = "done"
  /\ active' = None
  /\ Enter(k, "over")
  /\ Drop(Senders(k))
  /\ pending' = [pending EXCEPT ![k] = [q \in Key |-> None]]
  /\ UNCHANGED <<gate, snapshot, queue, granted, turn, asked, open, answerTo>>

\* abort_all_tasks, step by step: take_active_turn ...
Take ==
  /\ active # None /\ ~Aborting
  /\ active' = None
  /\ Enter(active, "taken")
Interrupt ==
  /\ Take
  /\ UNCHANGED <<gate, snapshot, queue, pending, granted, turn, pc, asked, open, answerTo>>

\* ... which the decision Abort on a command or a patch does too ...
NotifyAbort(c) ==
  /\ c \in open \ (PermissionCall \cup InputCall)
  /\ Take
  /\ open' = open \ {c}
  /\ UNCHANGED <<gate, snapshot, queue, pending, granted, turn, pc, asked, answerTo>>

\* ... cancel the task's token ...
CancelTask(k) ==
  /\ phase[k] = "taken"
  /\ Enter(k, "cancelled")
  /\ UNCHANGED <<active, gate, snapshot, queue, pending, granted, turn, pc, asked, open, answerTo>>

\* Faulty: the task is aborted and its senders dropped without waiting.
KillTaskAtOnce(k) ==
  /\ phase[k] = "cancelled"
  /\ Enter(k, "killed")
  /\ UNCHANGED <<active, gate, snapshot, queue, pending, granted, turn, pc, asked, open, answerTo>>

\* ... wait for the task, which drains its calls, or for 100 ms, enough for every
\* call that is parked to see the cancellation; abort the task.  A call that is
\* not at an await then is dropped when it gets to one ...
KillTask(k) ==
  /\ phase[k] = "cancelled"
  /\ \A c \in CallsOf(k) : pc[c] \notin {"queued", "gate", "waiting"}
  /\ Enter(k, "killed")
  /\ UNCHANGED <<active, gate, snapshot, queue, pending, granted, turn, pc, asked, open, answerTo>>

\* ... and clear_pending.
ClearPending(k) ==
  /\ phase[k] = "killed"
  /\ Enter(k, "over")
  /\ Drop(Senders(k))
  /\ pending' = [pending EXCEPT ![k] = [q \in Key |-> None]]
  /\ UNCHANGED <<active, gate, snapshot, queue, granted, turn, asked, open, answerTo>>

CallStep(c) ==
  AcquireGuard(c) \/ PassGate(c) \/ Ask(c) \/ FinishCall(c) \/ CallCancelled(c)
Client ==
  \/ \E c \in Call : NotifyAbort(c) \/ \E grants \in BOOLEAN : Notify(c, grants)
  \/ Interrupt
AbortStep(k) == CancelTask(k) \/ KillTask(k) \/ ClearPending(k)

Next ==
  \/ \E c \in Call : CallStep(c) \/ \E k \in Turn : SpawnCall(c, k)
  \/ Client
  \/ \E k \in Turn : BeginTurn(k) \/ StartSnapshot(k) \/ SnapshotEnds(k) \/ FinishTurn(k)
                       \/ AbortStep(k)

\* The runtime runs every task that can go on, and every handler gets to its next
\* await.  Nothing is assumed of the client.
Fairness ==
  /\ \A k \in Turn : WF_vars(AbortStep(k)) /\ WF_vars(SnapshotEnds(k))
  /\ \A c \in Call : WF_vars(AcquireGuard(c)) /\ WF_vars(PassGate(c)) /\ WF_vars(CallCancelled(c))

Spec == Init /\ [][Next]_vars /\ Fairness

------------------------------------------------------------------------------
(* Properties.                                                               *)

\* An answer reaches the call it was given to.  The sender of a user-input
\* request is kept under the turn's id, so this rests on the guard that keeps a
\* second such request of the turn waiting, and on the key of every other kind.
AnswerToItsQuestion == \A c \in Call : answerTo[c] \in {None, c}

\* A question that its own turn holds is answered by the client or not at all:
\* an abort kills the calls before it drops the senders, so that no approval that
\* was waiting comes out as a rejection the model sees.
NoSyntheticAnswer ==
  \A c \in Call : pc[c] = "answered" /\ answerTo[c] = None => asked[c] # turn[c]

\* A call that waits is held by a turn that is active or being aborted: somebody
\* will still answer it or drop its sender.
WaiterHeld ==
  \A c \in Call : pc[c] = "waiting" =>
    \E k \in Turn : pending[k][KeyOf(c)] = c /\ phase[k] \notin {"new", "over"}

\* A permission granted for a turn is of a call of that turn, unless the call
\* asked while its own turn was being aborted and another one had begun.
GrantsOfTheTurn ==
  \A k \in Turn : \A c \in granted[k] :
    turn[c] = k \/ (asked[c] = k /\ phase[turn[c]] = "over")

\* No mutating call runs before the turn's snapshot is taken, unless the turn is
\* cancelled: the gate must have its subscriber before the first call asks it.
MutatesAfterSnapshot ==
  \A c \in MutatingCall :
    Snapshots /\ pc[c] \in {"running", "waiting", "answered"} =>
      snapshot[turn[c]] = "done" \/ Cancelled(turn[c])

\* A turn that is taken ends with all its calls, also the ones that wait for the
\* guard, the gate or the user.
AbortSettlesCalls ==
  \A k \in Turn :
    phase[k] = "taken" ~> [](phase[k] = "over" /\ \A c \in CallsOf(k) : pc[c] = "done")
==============================================================================
