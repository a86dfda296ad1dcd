---------------------------- MODULE TurnLifecycle ----------------------------
(***************************************************************************)
(* core: the life of a turn in one session.                                *)
(*                                                                         *)
(* The submission loop (actor 0) handles the client's operations one after *)
(* the other.  A turn is a tokio task; when it finishes it leaves behind a  *)
(* scheduler thread (actor t for turn t) that starts another turn if mail   *)
(* is waiting.  Loop, schedulers, tasks and the app server's steer_input    *)
(* share `active_turn`, the turn states it points to and the mailbox, each  *)
(* behind its own mutex: one step is one critical section.                  *)
(*                                                                         *)
(* Input (prompts of the user and mail of other agents) is tracked by where *)
(* each item is; the order of items within one queue is left out.           *)
(***************************************************************************)
EXTENDS Integers, Sequences, FiniteSets, Functions

CONSTANTS
  Prompt,         \* user inputs the client may submit
  Mail,           \* inter-agent messages it may submit
  Trigger,        \* the mail with trigger_turn set
  MaxTurns,       \* bound: turns the session starts
  MaxStates,      \* bound: TurnState objects alive at a time
  MaxInterrupts,  \* bound: Interrupt operations
  MaxStandalone,  \* bound: undo, shell, review and compact operations
  MaxDetours,     \* bound: tool calls and early returns of run_turn
  FinishMayPend,  \* an await inside on_task_finished may yield to the runtime
  AbortIsPrompt   \* a task takes no step after JoinHandle::abort was called on it

ASSUME InputAssumption == Trigger \subseteq Mail /\ Prompt \cap Mail = {}
ASSUME BoundAssumption ==
  /\ {MaxTurns, MaxStates, MaxInterrupts, MaxStandalone, MaxDetours} \subseteq Nat
  /\ {FinishMayPend, AbortIsPrompt} \subseteq BOOLEAN

Item == Prompt \cup Mail
Turn == 1..MaxTurns
Actor == 0..MaxTurns
TsId == 1..MaxStates

VARIABLES
  active,    \* active_turn: Mutex<Option<ActiveTurn>>; ts = 0 is None
  phase,     \* mailbox_delivery_phase of each turn state
  where,     \* where each item of input is
  turn,      \* the task of each turn, its token and its kind
  ends,      \* terminal events emitted for each turn
  actor,     \* submission loop and schedulers: place in abort/start, locals
  started,   \* number of turns started so far
  budget     \* what is left of the bounds on operations

vars == <<active, phase, where, turn, ends, actor, started, budget>>

NoTurn == [ts |-> 0, tasks |-> <<>>]

At == {"client", "mailbox", "turn", "actor", "prompt", "own", "task",
       "history", "rejected", "blocked", "cleared", "lost"}
TurnPc == {"none", "spawned", "enter", "run", "mail", "inspect", "sample", "tools",
           "check", "returned", "finish", "take", "record", "complete", "schedule", "done", "killed"}
ActorPc == {"off", "idle", "exit", "take", "cancel", "abort", "clear",
            "check", "reserve", "drain", "mail", "attach", "push", "add"}
Kind == {"regular",    \* RegularTask
         "standalone", \* undo and user shell: TaskKind::Regular, never reads input
         "review"}     \* review and compact: not steerable

Place == [at : At, id : 0..(MaxTurns + MaxStates)]
Task == [pc : TurnPc, kind : Kind, cancelled : BOOLEAN, doomed : BOOLEAN, ts : {0} \cup TsId]
Thread == [pc : ActorPc, then : {"off", "idle", "exit"}, kind : Kind,
           reason : {"Replaced", "Interrupted"}, ts : {0} \cup TsId, tasks : Seq(Turn)]

TypeOK ==
  /\ active \in [ts : {0} \cup TsId, tasks : Seq(Turn)]
  /\ phase \in [TsId -> {"CurrentTurn", "NextTurn"}]
  /\ where \in [Item -> Place]
  /\ turn \in [Turn -> Task]
  /\ ends \in [Turn -> SUBSET {"TurnComplete", "TurnAborted"}]
  /\ actor \in [Actor -> Thread]
  /\ started \in 0..MaxTurns
  /\ budget \in [interrupt : 0..MaxInterrupts, standalone : 0..MaxStandalone,
                 detour : 0..MaxDetours]

Init ==
  /\ active = NoTurn
  /\ phase = [s \in TsId |-> "CurrentTurn"]
  /\ where = [i \in Item |-> [at |-> "client", id |-> 0]]
  /\ turn = [t \in Turn |-> [pc |-> "none", kind |-> "regular", cancelled |-> FALSE,
                             doomed |-> FALSE, ts |-> 0]]
  /\ ends = [t \in Turn |-> {}]
  /\ actor = [a \in Actor |->
                [pc |-> IF a = 0 THEN "idle" ELSE "off", then |-> IF a = 0 THEN "idle" ELSE "off",
                 kind |-> "regular", reason |-> "Replaced", ts |-> 0, tasks |-> <<>>]]
  /\ started = 0
  /\ budget = [interrupt |-> MaxInterrupts, standalone |-> MaxStandalone, detour |-> MaxDetours]

-----------------------------------------------------------------------------
(* Input and turn states *)

ItemsAt(at, id) == {i \in Item : where[i] = [at |-> at, id |-> id]}
InMailbox == ItemsAt("mailbox", 0)
Move(S, at, id) == where' = [i \in Item |-> IF i \in S THEN [at |-> at, id |-> id] ELSE where[i]]

\* get_pending_input and has_pending_input look at whatever turn is active, not
\* at the caller's: at its input, then at the mailbox if its phase allows.
TurnInput == IF active.ts = 0 THEN {} ELSE ItemsAt("turn", active.ts)
AcceptsMail == IF active.ts = 0 THEN TRUE ELSE phase[active.ts] = "CurrentTurn"
HasPendingInput == TurnInput \cup (IF AcceptsMail THEN InMailbox ELSE {}) # {}

\* ActiveTurn::default allocates a turn state nobody refers to yet.
InUse ==
  {active.ts} \cup {actor[a].ts : a \in Actor} \cup {turn[t].ts : t \in Turn}
    \cup {where[i].id : i \in {j \in Item : where[j].at = "turn"}}
FreshTs == CHOOSE s \in TsId : s \notin InUse
StateLeft == active.ts # 0 \/ \E s \in TsId : s \notin InUse   \* bound: MaxStates

\* active.get_or_insert_with(ActiveTurn::default)
GetOrInsert == IF active.ts = 0 THEN [ts |-> FreshTs, tasks |-> <<>>] ELSE active
FreshPhase == IF active.ts = 0 THEN [phase EXCEPT ![FreshTs] = "CurrentTurn"] ELSE phase

\* Faulty: the entry is blanked, not removed.
SwapRemoveBlanks(s, t) == [n \in DOMAIN s |-> IF s[n] = t THEN 0 ELSE s[n]]

\* IndexMap::swap_remove
SwapRemove(s, t) ==
  IF t \notin Range(s) THEN s
  ELSE LET n == CHOOSE n \in DOMAIN s : s[n] = t
       IN  [m \in 1..(Len(s) - 1) |-> IF m = n THEN s[Len(s)] ELSE s[m]]

HasTask == active.ts # 0 /\ active.tasks # <<>>
Steerable == HasTask /\ turn[Head(active.tasks)].kind \in {"regular", "standalone"}

Goto(a, pc) == actor' = [actor EXCEPT ![a].pc = pc]
Step(t, pc) == turn' = [turn EXCEPT ![t].pc = pc]

-----------------------------------------------------------------------------
(* Operations of the client *)

\* steer_input accepted: the item joins the turn state and mail may follow it.
Steer(p) ==
  /\ Move({p}, "turn", active.ts)
  /\ phase' = [phase EXCEPT ![active.ts] = "CurrentTurn"]

\* CodexThread::steer_input, called by the app server beside the submission
\* loop; a refused call leaves the prompt with the client.
SteerInput(p) ==
  /\ where[p].at = "client"
  /\ Steerable
  /\ Steer(p)
  /\ UNCHANGED <<active, turn, ends, actor, started, budget>>

UserInput(p) ==
  /\ actor[0].pc = "idle"
  /\ where[p].at = "client"
  /\ \/ Steerable /\ Steer(p) /\ UNCHANGED actor
     \/ /\ ~HasTask
        /\ Move({p}, "prompt", 0)
        /\ actor' = [actor EXCEPT ![0].pc = "take", ![0].reason = "Replaced", ![0].kind = "regular"]
        /\ UNCHANGED phase
     \/ HasTask /\ ~Steerable /\ Move({p}, "rejected", 0) /\ UNCHANGED <<actor, phase>>
  /\ UNCHANGED <<active, turn, ends, started, budget>>

\* Op::Undo, Op::RunUserShellCommand with no running task, Op::Compact, Op::Review.
Standalone(kind) ==
  /\ actor[0].pc = "idle"
  /\ budget.standalone > 0
  /\ budget' = [budget EXCEPT !.standalone = @ - 1]
  /\ actor' = [actor EXCEPT ![0].pc = "take", ![0].reason = "Replaced", ![0].kind = kind]
  /\ UNCHANGED <<active, phase, where, turn, ends, started>>

InterAgentCommunication(m) ==
  /\ actor[0].pc = "idle"
  /\ where[m].at = "client"
  /\ Move({m}, "mailbox", 0)
  /\ Goto(0, IF m \in Trigger THEN "check" ELSE "idle")
  /\ UNCHANGED <<active, phase, turn, ends, started, budget>>

Interrupt ==
  /\ actor[0].pc = "idle"
  /\ budget.interrupt > 0
  /\ budget' = [budget EXCEPT !.interrupt = @ - 1]
  /\ IF active.ts # 0
     THEN actor' = [actor EXCEPT ![0].pc = "take", ![0].reason = "Interrupted"]
     ELSE UNCHANGED actor
  /\ UNCHANGED <<active, phase, where, turn, ends, started>>

Shutdown ==
  /\ actor[0].pc = "idle"
  /\ actor' = [actor EXCEPT ![0].pc = "take", ![0].reason = "Interrupted", ![0].then = "exit"]
  /\ UNCHANGED <<active, phase, where, turn, ends, started, budget>>

-----------------------------------------------------------------------------
(* abort_all_tasks, in the submission loop only *)

AfterAbort == IF actor[0].reason = "Interrupted" THEN "check" ELSE "drain"

TakeActiveTurn ==
  /\ actor[0].pc = "take"
  /\ active' = NoTurn
  /\ actor' = [actor EXCEPT
                 ![0].ts = active.ts,
                 ![0].tasks = active.tasks,
                 ![0].pc = IF active.ts = 0 THEN AfterAbort
                           ELSE IF active.tasks = <<>> THEN "clear" ELSE "cancel"]
  /\ UNCHANGED <<phase, where, turn, ends, started, budget>>

\* The task's token is cancelled; from here it has 100 ms to stop by itself.
CancelTask ==
  /\ actor[0].pc = "cancel"
  /\ turn' = [turn EXCEPT ![Head(actor[0].tasks)].cancelled = TRUE]
  /\ Goto(0, "abort")
  /\ UNCHANGED <<active, phase, where, ends, started, budget>>

\* What a task that is killed still had in its hands is gone.
InHand(t) == ItemsAt("task", t) \cup ItemsAt("own", t)
Stopped == {"none", "done", "killed"}

\* Faulty: a task that stopped in time is taken to have reported its end.
AbortTaskSilent ==
  LET t == Head(actor[0].tasks)
  IN  /\ actor[0].pc = "abort"
      /\ IF AbortIsPrompt /\ turn[t].pc \notin Stopped
         THEN /\ turn' = [turn EXCEPT ![t].pc = "killed", ![t].ts = 0]
              /\ Move(InHand(t), "lost", 0)
         ELSE turn' = [turn EXCEPT ![t].doomed = TRUE] /\ UNCHANGED where
      /\ ends' = IF turn[t].pc \in Stopped THEN ends
                 ELSE [ends EXCEPT ![t] = @ \cup {"TurnAborted"}]
      /\ actor' = [actor EXCEPT ![0].tasks = Tail(@),
                                ![0].pc = IF Tail(actor[0].tasks) = <<>> THEN "clear" ELSE "cancel"]
      /\ UNCHANGED <<active, phase, started, budget>>

\* It stopped or its time is up: the handle is aborted and TurnAborted sent.
AbortTask ==
  LET t == Head(actor[0].tasks)
  IN  /\ actor[0].pc = "abort"
      /\ IF AbortIsPrompt /\ turn[t].pc \notin Stopped
         THEN /\ turn' = [turn EXCEPT ![t].pc = "killed", ![t].ts = 0]
              /\ Move(InHand(t), "lost", 0)
         ELSE turn' = [turn EXCEPT ![t].doomed = TRUE] /\ UNCHANGED where
      /\ ends' = [ends EXCEPT ![t] = @ \cup {"TurnAborted"}]
      /\ actor' = [actor EXCEPT ![0].tasks = Tail(@),
                                ![0].pc = IF Tail(actor[0].tasks) = <<>> THEN "clear" ELSE "cancel"]
      /\ UNCHANGED <<active, phase, started, budget>>

\* Faulty: clear_pending drops the waiters and forgets pending_input.
ClearPendingKeepsInput ==
  /\ actor[0].pc = "clear"
  /\ actor' = [actor EXCEPT ![0].ts = 0, ![0].pc = AfterAbort]
  /\ UNCHANGED <<active, phase, where, turn, ends, started, budget>>

ClearPending ==
  /\ actor[0].pc = "clear"
  /\ Move(ItemsAt("turn", actor[0].ts), "cleared", 0)
  /\ actor' = [actor EXCEPT ![0].ts = 0, ![0].pc = AfterAbort]
  /\ UNCHANGED <<active, phase, turn, ends, started, budget>>

-----------------------------------------------------------------------------
(* maybe_start_turn_for_pending_work, in the loop or in a scheduler thread *)

\* has_queued_response_items_for_next_turn is always false outside the tests.
CheckPendingWork(a) ==
  /\ actor[a].pc = "check"
  /\ Goto(a, IF Trigger \cap InMailbox # {} THEN "reserve" ELSE actor[a].then)
  /\ UNCHANGED <<active, phase, where, turn, ends, started, budget>>

\* The idle session is reserved with a turn that has no task yet.
ReserveTurn(a) ==
  /\ actor[a].pc = "reserve"
  /\ IF active.ts # 0
     THEN Goto(a, actor[a].then) /\ UNCHANGED <<active, phase>>
     ELSE /\ StateLeft
          /\ active' = GetOrInsert
          /\ phase' = FreshPhase
          /\ actor' = [actor EXCEPT ![a].pc = "drain", ![a].kind = "regular"]
  /\ UNCHANGED <<where, turn, ends, started, budget>>

-----------------------------------------------------------------------------
(* start_task *)

\* get_pending_input, on a session that is idle or reserved: two critical
\* sections.  idle_pending_input is always empty outside the tests.
DrainForStart(a) ==
  /\ actor[a].pc = "drain"
  /\ Move(TurnInput, "actor", a)
  /\ Goto(a, IF AcceptsMail THEN "mail" ELSE "attach")
  /\ UNCHANGED <<active, phase, turn, ends, started, budget>>

DrainMailForStart(a) ==
  /\ actor[a].pc = "mail"
  /\ Move(InMailbox, "actor", a)
  /\ Goto(a, "attach")
  /\ UNCHANGED <<active, phase, turn, ends, started, budget>>

AttachTurnState(a) ==
  /\ actor[a].pc = "attach"
  /\ StateLeft
  /\ active' = GetOrInsert
  /\ phase' = FreshPhase
  /\ actor' = [actor EXCEPT ![a].pc = "push", ![a].ts = GetOrInsert.ts]
  /\ UNCHANGED <<where, turn, ends, started, budget>>

PushPendingInput(a) ==
  /\ actor[a].pc = "push"
  /\ Move(ItemsAt("actor", a), "turn", actor[a].ts)
  /\ actor' = [actor EXCEPT ![a].pc = "add", ![a].ts = 0]
  /\ UNCHANGED <<active, phase, turn, ends, started, budget>>

\* Faulty: the turn is inserted, not get_or_inserted.
AddTaskOverwrites(a) ==
  /\ actor[a].pc = "add"
  /\ started < MaxTurns
  /\ started' = started + 1
  /\ active' = [ts |-> FreshTs, tasks |-> <<started + 1>>]
  /\ phase' = [phase EXCEPT ![FreshTs] = "CurrentTurn"]
  /\ turn' = [turn EXCEPT ![started + 1].pc = "spawned", ![started + 1].kind = actor[a].kind]
  /\ Move(IF a = 0 THEN ItemsAt("prompt", 0) ELSE {}, "own", started + 1)
  /\ Goto(a, actor[a].then)
  /\ UNCHANGED <<ends, budget>>

AddTask(a) ==
  /\ actor[a].pc = "add"
  /\ started < MaxTurns /\ StateLeft
  /\ started' = started + 1
  /\ active' = [GetOrInsert EXCEPT !.tasks = Append(@, started + 1)]
  /\ phase' = FreshPhase
  /\ turn' = [turn EXCEPT ![started + 1].pc = "spawned", ![started + 1].kind = actor[a].kind]
  /\ Move(IF a = 0 THEN ItemsAt("prompt", 0) ELSE {}, "own", started + 1)
  /\ Goto(a, actor[a].then)
  /\ UNCHANGED <<ends, budget>>

-----------------------------------------------------------------------------
(* The task: RegularTask::run and run_turn; the other kinds just return *)

\* TurnStarted is sent; the wait for the startup prewarm may end cancelled.
StartRun(t) ==
  /\ turn[t].pc = "spawned"
  /\ \/ turn[t].kind = "regular" /\ Step(t, "enter") /\ UNCHANGED where
     \/ /\ ~(turn[t].kind = "regular" /\ ~turn[t].cancelled)
        /\ Move(ItemsAt("own", t), "cleared", 0)
        /\ Step(t, "returned")
  /\ UNCHANGED <<active, phase, ends, actor, started, budget>>

\* run_turn up to its loop: the prompt the task was spawned with is recorded,
\* or a hook blocks it.
EnterRunTurn(t) ==
  LET own == ItemsAt("own", t)
  IN  /\ turn[t].pc = "enter"
      /\ \/ own = {} /\ ~HasPendingInput /\ Step(t, "check") /\ UNCHANGED where
         \/ /\ ~(own = {} /\ ~HasPendingInput)
            /\ Move(own, "history", 0)
            /\ Step(t, "run")
         \/ own # {} /\ Move(own, "blocked", 0) /\ Step(t, "check")
      /\ UNCHANGED <<active, phase, ends, actor, started, budget>>

\* run_turn gives up before it reads its pending input (compaction failed, a
\* session hook said stop, a listing was cancelled).
ReturnEarly(t) ==
  /\ turn[t].pc \in {"enter", "run"}
  /\ budget.detour > 0
  /\ budget' = [budget EXCEPT !.detour = @ - 1]
  /\ Move(ItemsAt("own", t), "lost", 0)
  /\ Step(t, "check")
  /\ UNCHANGED <<active, phase, ends, actor, started>>

\* get_pending_input, as in start_task.
GetPendingInput(t) ==
  /\ turn[t].pc = "run"
  /\ Move(TurnInput, "task", t)
  /\ Step(t, IF AcceptsMail THEN "mail" ELSE "inspect")
  /\ UNCHANGED <<active, phase, ends, actor, started, budget>>

GetMail(t) ==
  /\ turn[t].pc = "mail"
  /\ Move(InMailbox, "task", t)
  /\ Step(t, "inspect")
  /\ UNCHANGED <<active, phase, ends, actor, started, budget>>

\* The user-prompt hook accepts every item, or blocks one: those before it are
\* recorded and the rest is put back into the turn that is active by now.
InspectPendingInput(t) ==
  LET mine == ItemsAt("task", t)
  IN  /\ turn[t].pc = "inspect"
      /\ \/ Move(mine, "history", 0) /\ Step(t, "sample")
         \/ \E before \in SUBSET mine : \E p \in (mine \ before) \cap Prompt :
              LET rest == mine \ (before \cup {p})
              IN  /\ where' = [i \in Item |->
                       CASE i \in before -> [at |-> "history", id |-> 0]
                         [] i = p -> [at |-> "blocked", id |-> 0]
                         [] i \in rest -> IF active.ts = 0 THEN [at |-> "lost", id |-> 0]
                                          ELSE [at |-> "turn", id |-> active.ts]
                         [] OTHER -> where[i]]
                  /\ Step(t, IF before # {} THEN "sample" ELSE IF rest # {} THEN "run" ELSE "check")
      /\ UNCHANGED <<active, phase, ends, actor, started, budget>>

\* A request to the model.  Its token cancelled, it only fails, with TurnAborted.
Sampling(t) == turn[t].pc \in {"sample", "tools"}

\* A tool call reopens the turn to mail and asks for another request.
OutputToolCall(t) ==
  /\ Sampling(t) /\ ~turn[t].cancelled
  /\ budget.detour > 0
  /\ budget' = [budget EXCEPT !.detour = @ - 1]
  /\ phase' = IF t \in Range(active.tasks)
              THEN [phase EXCEPT ![active.ts] = "CurrentTurn"] ELSE phase
  /\ Step(t, "tools")
  /\ UNCHANGED <<active, where, ends, actor, started>>

\* A final answer closes the turn to mail unless input is pending.
OutputFinalAnswer(t) ==
  /\ Sampling(t) /\ ~turn[t].cancelled
  /\ phase' = IF t \in Range(active.tasks) /\ ItemsAt("turn", active.ts) = {}
              THEN [phase EXCEPT ![active.ts] = "NextTurn"] ELSE phase
  /\ UNCHANGED <<active, where, turn, ends, actor, started, budget>>

\* An error of the request, or TurnAborted; bad images are replaced and it is
\* made again.
SampleFails(t) ==
  /\ Sampling(t)
  /\ \/ Step(t, "check") /\ UNCHANGED budget
     \/ /\ budget.detour > 0
        /\ budget' = [budget EXCEPT !.detour = @ - 1]
        /\ Step(t, "run")
  /\ UNCHANGED <<active, phase, where, ends, actor, started>>

\* The response is complete.  A tool call and input that arrived during the
\* request ask for another one, unless a compaction is due first and fails; so
\* may the stop hook.
FollowUp(t) ==
  LET needs_follow_up == turn[t].pc = "tools" \/ HasPendingInput
  IN  /\ Sampling(t) /\ ~turn[t].cancelled
      /\ \/ Step(t, IF needs_follow_up THEN "run" ELSE "check") /\ UNCHANGED budget
         \/ /\ budget.detour > 0
            /\ budget' = [budget EXCEPT !.detour = @ - 1]
            /\ Step(t, IF needs_follow_up THEN "check" ELSE "run")
      /\ UNCHANGED <<active, phase, where, ends, actor, started>>

\* RegularTask::run after run_turn.
RunAgain(t) ==
  /\ turn[t].pc = "check"
  /\ Step(t, IF HasPendingInput THEN "enter" ELSE "returned")
  /\ UNCHANGED <<active, phase, where, ends, actor, started, budget>>

-----------------------------------------------------------------------------
(* The end of the task: the spawn site in start_task and on_task_finished *)

CheckCancelled(t) ==
  /\ turn[t].pc = "returned"
  /\ Step(t, IF turn[t].cancelled THEN "done" ELSE "finish")
  /\ UNCHANGED <<active, phase, where, ends, actor, started, budget>>

\* Faulty: the turn stays active when its last task is removed.
RemoveTaskKeepsTurn(t) ==
  /\ turn[t].pc = "finish"
  /\ active' = [active EXCEPT !.tasks = SwapRemove(@, t)]
  /\ Step(t, "complete")
  /\ UNCHANGED <<phase, where, ends, actor, started, budget>>

\* remove_task answers whether no task is left, whether or not it removed one.
\* Removing its own entry drops the task's AbortOnDropHandle: the task has
\* aborted itself and is killed at the next await that does not complete.
RemoveTask(t) ==
  LET rest == SwapRemove(active.tasks, t)
      self == FinishMayPend /\ t \in Range(active.tasks)
  IN  /\ turn[t].pc = "finish"
      /\ IF active.ts # 0 /\ rest = <<>>
         THEN /\ active' = NoTurn
              /\ turn' = [turn EXCEPT ![t].pc = "take", ![t].ts = active.ts,
                                      ![t].doomed = @ \/ self]
         ELSE /\ active' = [active EXCEPT !.tasks = rest]
              /\ turn' = [turn EXCEPT ![t].pc = "complete", ![t].doomed = @ \/ self]
      /\ UNCHANGED <<phase, where, ends, actor, started, budget>>

\* Faulty: input that arrived after the last look is not taken.
TakeLeftoverNot(t) ==
  /\ turn[t].pc = "take"
  /\ Step(t, "record")
  /\ UNCHANGED <<active, phase, where, ends, actor, started, budget>>

TakeLeftover(t) ==
  /\ turn[t].pc = "take"
  /\ Move(ItemsAt("turn", turn[t].ts), "task", t)
  /\ Step(t, "record")
  /\ UNCHANGED <<active, phase, ends, actor, started, budget>>

RecordLeftover(t) ==
  /\ turn[t].pc = "record"
  /\ \E blocked \in SUBSET (ItemsAt("task", t) \cap Prompt) :
       where' = [i \in Item |->
                   CASE i \in blocked -> [at |-> "blocked", id |-> 0]
                     [] i \in ItemsAt("task", t) \ blocked -> [at |-> "history", id |-> 0]
                     [] OTHER -> where[i]]
  /\ Step(t, "complete")
  /\ UNCHANGED <<active, phase, ends, actor, started, budget>>

SendTurnComplete(t) ==
  /\ turn[t].pc = "complete"
  /\ ends' = [ends EXCEPT ![t] = @ \cup {"TurnComplete"}]
  /\ Step(t, IF turn[t].ts # 0 THEN "schedule" ELSE "done")
  /\ UNCHANGED <<active, phase, where, actor, started, budget>>

\* Faulty: nothing looks at the mailbox after the turn.
SpawnSchedulerNot(t) ==
  /\ turn[t].pc = "schedule"
  /\ turn' = [turn EXCEPT ![t].pc = "done", ![t].ts = 0]
  /\ UNCHANGED <<active, phase, where, ends, actor, started, budget>>

SpawnScheduler(t) ==
  /\ turn[t].pc = "schedule"
  /\ turn' = [turn EXCEPT ![t].pc = "done", ![t].ts = 0]
  /\ Goto(t, "check")
  /\ UNCHANGED <<active, phase, where, ends, started, budget>>

\* The runtime drops an aborted task where it yields.
Kill(t) ==
  /\ turn[t].doomed /\ turn[t].pc \notin Stopped
  /\ turn' = [turn EXCEPT ![t].pc = "killed", ![t].ts = 0]
  /\ Move(InHand(t), "lost", 0)
  /\ UNCHANGED <<active, phase, ends, actor, started, budget>>

-----------------------------------------------------------------------------
ActorStep(a) ==
  \/ CheckPendingWork(a) \/ ReserveTurn(a) \/ DrainForStart(a) \/ DrainMailForStart(a)
  \/ AttachTurnState(a) \/ PushPendingInput(a) \/ AddTask(a)
  \/ a = 0 /\ (TakeActiveTurn \/ CancelTask \/ AbortTask \/ ClearPending)

TaskStep(t) ==
  \/ StartRun(t) \/ EnterRunTurn(t) \/ ReturnEarly(t) \/ GetPendingInput(t) \/ GetMail(t)
  \/ InspectPendingInput(t) \/ OutputToolCall(t) \/ OutputFinalAnswer(t) \/ SampleFails(t)
  \/ FollowUp(t) \/ RunAgain(t)
  \/ CheckCancelled(t) \/ RemoveTask(t) \/ TakeLeftover(t) \/ RecordLeftover(t)
  \/ SendTurnComplete(t) \/ SpawnScheduler(t) \/ Kill(t)

ClientStep ==
  \/ \E p \in Prompt : SteerInput(p) \/ UserInput(p)
  \/ \E m \in Mail : InterAgentCommunication(m)
  \/ \E kind \in {"standalone", "review"} : Standalone(kind)
  \/ Interrupt
  \/ Shutdown

Next ==
  \/ ClientStep
  \/ \E a \in Actor : ActorStep(a)
  \/ \E t \in Turn : TaskStep(t)

Spec == Init /\ [][Next]_vars

\* The runtime keeps polling the loop, the schedulers and every task; the
\* client is free to do nothing.
FairSpec ==
  /\ Spec
  /\ \A a \in Actor : WF_vars(ActorStep(a))
  /\ \A t \in Turn : WF_vars(TaskStep(t))

-----------------------------------------------------------------------------
(* Properties *)

Starting == {"drain", "mail", "attach", "push", "add"}
Unfinished == {"spawned", "enter", "run", "mail", "inspect", "sample", "tools", "check",
               "returned", "finish"}

\* A reservation is never orphaned: an active turn without a task has somebody
\* in start_task who will give it one.  Otherwise the session would look busy
\* for good and maybe_start_turn_for_pending_work would never start a turn.
ReservationOwned ==
  (active.ts # 0 /\ active.tasks = <<>>) => \E a \in Actor : actor[a].pc \in Starting

\* An interrupt reaches every task: one that runs and was not cancelled is in
\* the active turn, or in the list abort_all_tasks is working through.
InterruptReachesTasks ==
  \A t \in Turn :
    (turn[t].pc \in Unfinished /\ ~turn[t].cancelled)
      => t \in Range(active.tasks) \cup Range(actor[0].tasks)

\* No input is stranded: a turn state that holds input is the active one, or
\* somebody is about to take or drop what it holds.
InputReachable ==
  \A i \in Item : where[i].at = "turn" =>
    \/ where[i].id = active.ts
    \/ where[i].id = actor[0].ts /\ actor[0].pc \in {"cancel", "abort", "clear"}
    \/ \E t \in Turn : turn[t].ts = where[i].id /\ turn[t].pc = "take"

\* A prompt the session accepted is settled: it reaches the history, or a hook
\* blocks it, or the turn that held it is aborted.  It stays in no queue for good.
PromptSettles ==
  \A p \in Prompt :
    (where[p].at \in {"prompt", "own", "turn", "task", "actor"})
      ~> (where[p].at \in {"history", "blocked", "cleared", "lost"})

\* Mail marked trigger_turn does not stay in the mailbox for good, whatever the
\* turn it arrives in does: that turn reads it, or the scheduler that the turn
\* leaves behind, the interrupt or the next prompt starts a turn that does.
TriggerMailRead ==
  \A m \in Trigger : (where[m].at = "mailbox") ~> (where[m].at # "mailbox")

\* "`Session` has at most one `Task` running at a time"; start_task asserts it
\* where it adds a task to the active turn.
OneTask == Len(active.tasks) <= 1

\* Every turn that begins is reported as ended, complete or aborted, also the one
\* whose task stops by itself while abort_all_tasks has it: the task then leaves
\* that to the abort.  (It needs a task that is not dropped inside on_task_finished.)
EveryTurnEnds == \A t \in Turn : (turn[t].pc = "enter") ~> (ends[t] # {})
=============================================================================
