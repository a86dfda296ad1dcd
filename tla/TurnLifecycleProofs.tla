------------------------ MODULE TurnLifecycleProofs ------------------------
(***************************************************************************)
(* The life of a turn, for any number of turns, prompts and mail and for   *)
(* every order of the loop, the schedulers, the tasks and the app server.  *)
(***************************************************************************)
EXTENDS TurnLifecycle, SequenceTheorems, TLAPS

\* A session that is idle has no task in its active turn.
ActiveInv == active.ts = 0 => active.tasks = <<>>

\* The loop keeps a list of tasks while it cancels and aborts them, and the one it
\* is about to abort was cancelled before.
AbortInv ==
  /\ actor[0].tasks # <<>> <=> actor[0].pc \in {"cancel", "abort"}
  /\ actor[0].pc = "abort" => turn[Head(actor[0].tasks)].cancelled

\* Turns are started in order, and a turn's scheduler thread runs when its task is done.
StartInv ==
  \A t \in Turn :
    /\ t > started => turn[t].pc = "none"
    /\ actor[t].pc # "off" => turn[t].pc = "done"

\* The inductive invariant.
IndInv ==
  TypeOK /\ ActiveInv /\ AbortInv /\ StartInv /\ ReservationOwned /\ InterruptReachesTasks

-----------------------------------------------------------------------------
(* Sequences of tasks.                                                       *)

\* Membership of a range, by an index.
LEMMA InRange ==
  ASSUME NEW S, NEW s \in Seq(S), NEW x
  PROVE  x \in Range(s) <=> \E n \in 1..Len(s) : s[n] = x
  BY DEF Range

\* The entries of a list after its head.
LEMMA RangeTail ==
  ASSUME NEW S, NEW s \in Seq(S), s # <<>>
  PROVE  /\ Head(s) \in S /\ Tail(s) \in Seq(S)
         /\ Range(s) \subseteq {Head(s)} \cup Range(Tail(s))
         /\ Range(Tail(s)) \subseteq Range(s)
<1>1. Head(s) = s[1] /\ Head(s) \in S /\ Tail(s) \in Seq(S) /\ Len(Tail(s)) = Len(s) - 1
      /\ Len(s) \in Nat \ {0}
  OBVIOUS
<1>2. \A n \in 1..Len(Tail(s)) : Tail(s)[n] = s[n + 1]
  OBVIOUS
<1>3. ASSUME NEW n \in 1..Len(s) PROVE s[n] \in {Head(s)} \cup Range(Tail(s))
  <2>1. CASE n = 1 BY <2>1, <1>1
  <2>2. CASE n # 1
    <3>1. n - 1 \in 1..Len(Tail(s)) /\ Tail(s)[n - 1] = s[n] BY <2>2, <1>1, <1>2
    <3>2. QED BY <3>1, <1>1, InRange
  <2>3. QED BY <2>1, <2>2
<1>4. ASSUME NEW n \in 1..Len(Tail(s)) PROVE Tail(s)[n] \in Range(s)
  <2>1. n + 1 \in 1..Len(s) /\ s[n + 1] = Tail(s)[n] BY <1>1, <1>2
  <2>2. QED BY <2>1, InRange
<1>5. Range(s) \subseteq {Head(s)} \cup Range(Tail(s)) BY <1>3, InRange
<1>6. Range(Tail(s)) \subseteq Range(s)
  <2>1. \A x : x \in Range(Tail(s)) <=> \E n \in 1..Len(Tail(s)) : Tail(s)[n] = x
    BY <1>1, InRange
  <2>2. QED BY <2>1, <1>4
<1>7. QED BY <1>1, <1>5, <1>6

\* What Append does to the entries of a list.
LEMMA RangeAppend ==
  ASSUME NEW S, NEW s \in Seq(S), NEW x \in S
  PROVE  /\ Append(s, x) \in Seq(S) /\ Append(s, x) # <<>>
         /\ Range(Append(s, x)) = Range(s) \cup {x}
<1>1. Append(s, x) \in Seq(S) /\ Len(Append(s, x)) = Len(s) + 1 /\ Len(s) \in Nat
  OBVIOUS
<1>2. Append(s, x)[Len(s) + 1] = x /\ \A n \in 1..Len(s) : Append(s, x)[n] = s[n]
  OBVIOUS
<1>3. ASSUME NEW y \in Range(s) PROVE y \in Range(Append(s, x))
  <2>1. PICK n \in 1..Len(s) : s[n] = y BY <1>3, InRange
  <2>2. n \in 1..Len(Append(s, x)) /\ Append(s, x)[n] = y BY <2>1, <1>1, <1>2
  <2>3. QED BY <2>2, <1>1, InRange
<1>4. x \in Range(Append(s, x))
  <2>1. Len(s) + 1 \in 1..Len(Append(s, x)) BY <1>1
  <2>2. QED BY <2>1, <1>1, <1>2, InRange
<1>5. ASSUME NEW y \in Range(Append(s, x)) PROVE y \in Range(s) \cup {x}
  <2>1. PICK n \in 1..Len(Append(s, x)) : Append(s, x)[n] = y BY <1>5, <1>1, InRange
  <2>2. CASE n = Len(s) + 1 BY <2>1, <2>2, <1>2
  <2>3. CASE n \in 1..Len(s) BY <2>1, <2>3, <1>2, InRange
  <2>4. QED BY <2>2, <2>3, <1>1
<1>6. Append(s, x) # <<>> BY <1>1
<1>7. QED BY <1>1, <1>3, <1>4, <1>5, <1>6

\* swap_remove leaves every other task in the list, and adds none.
LEMMA SwapRemoveKeeps ==
  ASSUME NEW S, NEW s \in Seq(S), NEW t
  PROVE  /\ SwapRemove(s, t) \in Seq(S)
         /\ Range(s) \ {t} \subseteq Range(SwapRemove(s, t))
         /\ Range(SwapRemove(s, t)) \subseteq Range(s)
         /\ s = <<>> => SwapRemove(s, t) = <<>>
<1>1. CASE t \notin Range(s) BY <1>1 DEF SwapRemove
<1>2. CASE t \in Range(s)
  <2> DEFINE n == CHOOSE n \in DOMAIN s : s[n] = t
             r == [m \in 1..(Len(s) - 1) |-> IF m = n THEN s[Len(s)] ELSE s[m]]
  <2>1. n \in 1..Len(s) /\ s[n] = t BY <1>2 DEF Range
  <2>2. SwapRemove(s, t) = r BY <1>2 DEF SwapRemove
  <2> HIDE DEF n
  <2>3. Len(s) \in Nat \ {0} BY <2>1
  <2>4. Len(s) - 1 \in Nat /\ \A m \in 1..Len(s) : s[m] \in S BY <2>3
  <2>5. r \in Seq(S) /\ Len(r) = Len(s) - 1
    <3>1. \A m \in 1..(Len(s) - 1) : (IF m = n THEN s[Len(s)] ELSE s[m]) \in S BY <2>3, <2>4
    <3>2. r \in [1..(Len(s) - 1) -> S] BY <3>1
    <3>3. QED BY <3>2, <2>4
  <2>6. ASSUME NEW m \in 1..Len(s), s[m] # t PROVE s[m] \in Range(r)
    <3>1. CASE m # Len(s)
      <4>1. m \in 1..Len(r) /\ r[m] = s[m] BY <3>1, <2>1, <2>3, <2>5, <2>6
      <4>2. QED BY <4>1, <2>5, InRange
    <3>2. CASE m = Len(s)
      <4>1. n \in 1..Len(r) /\ r[n] = s[m] BY <3>2, <2>1, <2>3, <2>5, <2>6
      <4>2. QED BY <4>1, <2>5, InRange
    <3>3. QED BY <3>1, <3>2
  <2>7. ASSUME NEW m \in 1..Len(r) PROVE r[m] \in Range(s)
    <3>1. m \in 1..Len(s) /\ Len(s) \in 1..Len(s) BY <2>3, <2>5
    <3>2. r[m] = s[Len(s)] \/ r[m] = s[m] BY <2>5
    <3>3. QED BY <3>1, <3>2, InRange
  <2>8. s # <<>> BY <2>3
  <2>9. QED BY <2>2, <2>5, <2>6, <2>7, <2>8, InRange
<1>3. QED BY <1>1, <1>2

-----------------------------------------------------------------------------
(* Types.                                                                    *)

\* The bounds are natural numbers, and the ids of places reach all of them.
LEMMA Bounds ==
  /\ MaxTurns \in Nat /\ MaxStates \in Nat
  /\ TsId \subseteq 0..(MaxTurns + MaxStates) /\ Actor \subseteq 0..(MaxTurns + MaxStates)
  /\ Turn \subseteq Actor /\ 0 \in Actor /\ 0 \notin Turn /\ 0 \notin TsId
  /\ Prompt \subseteq Item /\ Mail \subseteq Item
BY BoundAssumption DEF TsId, Actor, Turn, Item

\* Moving items keeps their places in range.
LEMMA MoveType ==
  ASSUME TypeOK, NEW S, NEW at \in At, NEW id \in 0..(MaxTurns + MaxStates), Move(S, at, id)
  PROVE  where' \in [Item -> Place]
BY DEF TypeOK, Move, Place

\* A step of a task changes its place alone.
LEMMA StepType ==
  ASSUME TypeOK, NEW t \in Turn, NEW p \in TurnPc, Step(t, p)
  PROVE  /\ turn' \in [Turn -> Task]
         /\ turn'[t].pc = p /\ \A u \in Turn : u # t => turn'[u] = turn[u]
         /\ \A u \in Turn : /\ turn'[u].cancelled = turn[u].cancelled
                            /\ turn'[u].kind = turn[u].kind
                            /\ turn'[u].doomed = turn[u].doomed /\ turn'[u].ts = turn[u].ts
BY DEF TypeOK, Step, Task

\* A step of an actor that changes its place alone.
LEMMA GotoType ==
  ASSUME TypeOK, NEW a \in Actor, NEW p \in ActorPc, Goto(a, p)
  PROVE  /\ actor' \in [Actor -> Thread]
         /\ actor'[a].pc = p /\ \A b \in Actor : b # a => actor'[b] = actor[b]
         /\ actor'[a].tasks = actor[a].tasks /\ actor'[a].ts = actor[a].ts
         /\ actor'[a].then = actor[a].then
BY DEF TypeOK, Goto, Thread

\* The turn state a session gets is one of the ids.
LEMMA FreshType ==
  ASSUME TypeOK, StateLeft
  PROVE  /\ GetOrInsert \in [ts : TsId, tasks : Seq(Turn)]
         /\ FreshPhase \in [TsId -> {"CurrentTurn", "NextTurn"}]
         /\ active.ts # 0 => GetOrInsert = active
         /\ active.ts = 0 => GetOrInsert.tasks = <<>>
<1>1. CASE active.ts # 0 BY <1>1 DEF TypeOK, GetOrInsert, FreshPhase
<1>2. CASE active.ts = 0
  <2>1. FreshTs \in TsId BY <1>2 DEF StateLeft, FreshTs
  <2>2. <<>> \in Seq(Turn) OBVIOUS
  <2>3. QED BY <1>2, <2>1, <2>2 DEF GetOrInsert, FreshPhase, TypeOK
<1>3. QED BY <1>1, <1>2

\* The places are those the types list.
LEMMA Places ==
  /\ {"idle", "take", "cancel", "abort", "clear", "check", "reserve", "drain", "mail",
      "attach", "push", "add", "off", "exit"} \subseteq ActorPc
  /\ {"spawned", "enter", "run", "mail", "inspect", "sample", "tools", "check", "returned",
      "finish", "take", "record", "complete", "schedule", "done", "killed"} \subseteq TurnPc
  /\ {"regular", "standalone", "review"} \subseteq Kind
  /\ {"client", "mailbox", "turn", "actor", "prompt", "own", "task", "history", "rejected",
      "blocked", "cleared", "lost"} \subseteq At
BY DEF ActorPc, TurnPc, Kind, At

\* Init has the types.
LEMMA InitType == Init => TypeOK
<1> SUFFICES ASSUME Init PROVE TypeOK OBVIOUS
<1> USE Bounds, BoundAssumption DEF Init
<1>1. <<>> \in Seq(Turn) OBVIOUS
<1>2. active \in [ts : {0} \cup TsId, tasks : Seq(Turn)] BY <1>1 DEF NoTurn
<1>3. phase \in [TsId -> {"CurrentTurn", "NextTurn"}] OBVIOUS
<1>4. where \in [Item -> Place] BY DEF Place, At
<1>5. turn \in [Turn -> Task] BY DEF Task, TurnPc, Kind
<1>6. ends \in [Turn -> SUBSET {"TurnComplete", "TurnAborted"}] OBVIOUS
<1>7. actor \in [Actor -> Thread] BY <1>1 DEF Thread, ActorPc, Kind
<1>8. started \in 0..MaxTurns OBVIOUS
<1>9. budget \in [interrupt : 0..MaxInterrupts, standalone : 0..MaxStandalone, detour : 0..MaxDetours]
  OBVIOUS
<1>10. QED BY <1>2, <1>3, <1>4, <1>5, <1>6, <1>7, <1>8, <1>9 DEF TypeOK

\* Spending a budget keeps it in its bounds.
LEMMA BudgetType ==
  ASSUME TypeOK
  PROVE  LET B == [interrupt : 0..MaxInterrupts, standalone : 0..MaxStandalone,
                   detour : 0..MaxDetours]
         IN  /\ budget.interrupt > 0 => [budget EXCEPT !.interrupt = @ - 1] \in B
             /\ budget.standalone > 0 => [budget EXCEPT !.standalone = @ - 1] \in B
             /\ budget.detour > 0 => [budget EXCEPT !.detour = @ - 1] \in B
BY BoundAssumption DEF TypeOK

\* The loop sets off for abort_all_tasks.
LEMMA TakeType ==
  ASSUME TypeOK, NEW k \in Kind
  PROVE  /\ [actor EXCEPT ![0].pc = "take", ![0].reason = "Replaced", ![0].kind = k]
              \in [Actor -> Thread]
         /\ [actor EXCEPT ![0].pc = "take", ![0].reason = "Interrupted"] \in [Actor -> Thread]
         /\ [actor EXCEPT ![0].pc = "take", ![0].reason = "Interrupted", ![0].then = "exit"]
              \in [Actor -> Thread]
<1>1. actor[0] \in Thread /\ 0 \in Actor BY Bounds DEF TypeOK
<1>2. "take" \in ActorPc BY Places
<1>3. [actor EXCEPT ![0].pc = "take", ![0].reason = "Replaced", ![0].kind = k] \in [Actor -> Thread]
  BY <1>1, <1>2 DEF TypeOK, Thread
<1>4. [actor EXCEPT ![0].pc = "take", ![0].reason = "Interrupted"] \in [Actor -> Thread]
  BY <1>1, <1>2 DEF TypeOK, Thread
<1>5. [actor EXCEPT ![0].pc = "take", ![0].reason = "Interrupted", ![0].then = "exit"] \in [Actor -> Thread]
  BY <1>1, <1>2 DEF TypeOK, Thread
<1>6. QED BY <1>3, <1>4, <1>5

\* What the items of an operation of the client need: every place of the loop is kept.
LEMMA ClientType ==
  ASSUME TypeOK, ClientStep PROVE TypeOK'
<1>0. /\ active.ts \in 0..(MaxTurns + MaxStates) /\ 0 \in 0..(MaxTurns + MaxStates)
      /\ 0 \in Actor
  BY Bounds DEF TypeOK
<1>a. 0 \in Actor BY <1>0
<1>1. ASSUME NEW p, Steer(p)
      PROVE  where' \in [Item -> Place] /\ phase' \in [TsId -> {"CurrentTurn", "NextTurn"}]
  <2>1. where' \in [Item -> Place]
    <3>1. "turn" \in At BY DEF At
    <3>2. Move({p}, "turn", active.ts) BY <1>1 DEF Steer
    <3>3. QED BY <3>1, <3>2, <1>0, MoveType
  <2>2. phase' \in [TsId -> {"CurrentTurn", "NextTurn"}] BY <1>1 DEF Steer, TypeOK
  <2>3. QED BY <2>1, <2>2
<1>2. ASSUME NEW p \in Prompt, SteerInput(p) PROVE TypeOK'
  <2>1. Steer(p) /\ UNCHANGED <<active, turn, ends, actor, started, budget>> BY <1>2 DEF SteerInput
  <2>2. QED BY <2>1, <1>1 DEF TypeOK
<1>3. ASSUME NEW p \in Prompt, UserInput(p) PROVE TypeOK'
  <2>1. UNCHANGED <<active, turn, ends, started, budget>> BY <1>3 DEF UserInput
  <2>2. CASE Steerable /\ Steer(p) /\ UNCHANGED actor BY <2>1, <2>2, <1>1 DEF TypeOK
  <2>3. CASE /\ Move({p}, "prompt", 0)
             /\ actor' = [actor EXCEPT ![0].pc = "take", ![0].reason = "Replaced", ![0].kind = "regular"]
             /\ UNCHANGED phase
    <3>1. where' \in [Item -> Place] BY <2>3, <1>0, MoveType DEF At
    <3>2. actor' \in [Actor -> Thread]
      <4>1. "regular" \in Kind BY Places
      <4>2. QED BY <4>1, <2>3, TakeType
    <3>3. QED BY <2>1, <2>3, <3>1, <3>2 DEF TypeOK
  <2>4. CASE Move({p}, "rejected", 0) /\ UNCHANGED <<actor, phase>>
    <3>1. where' \in [Item -> Place] BY <2>4, <1>0, MoveType DEF At
    <3>2. QED BY <2>1, <2>4, <3>1 DEF TypeOK
  <2>5. QED BY <1>3, <2>2, <2>3, <2>4 DEF UserInput
<1>4. ASSUME NEW m \in Mail, InterAgentCommunication(m) PROVE TypeOK'
  <2>1. where' \in [Item -> Place]
    <3>1. Move({m}, "mailbox", 0) /\ "mailbox" \in At BY <1>4 DEF InterAgentCommunication, At
    <3>2. QED BY <3>1, <1>0, MoveType
  <2>2. actor' \in [Actor -> Thread]
    <3>1. (IF m \in Trigger THEN "check" ELSE "idle") \in ActorPc BY DEF ActorPc
    <3>2. Goto(0, IF m \in Trigger THEN "check" ELSE "idle") BY <1>4 DEF InterAgentCommunication
    <3>3. QED BY <3>1, <3>2, <1>a, GotoType
  <2>3. QED BY <1>4, <2>1, <2>2 DEF TypeOK, InterAgentCommunication
<1>5. ASSUME NEW kind \in {"standalone", "review"}, Standalone(kind) PROVE TypeOK'
  <2>1. actor' \in [Actor -> Thread]
    <3>1. kind \in Kind BY Places
    <3>2. QED BY <3>1, <1>5, TakeType DEF Standalone
  <2>2. QED BY <1>5, <2>1, BudgetType DEF Standalone, TypeOK
<1>6. CASE Interrupt
  <2>1. actor' \in [Actor -> Thread]
    <3>1. "regular" \in Kind BY Places
    <3>2. QED BY <3>1, <1>6, TakeType DEF Interrupt, TypeOK
  <2>2. QED BY <1>6, <2>1, BudgetType DEF Interrupt, TypeOK
<1>7. CASE Shutdown
  <2>1. actor' \in [Actor -> Thread]
    <3>1. "regular" \in Kind BY Places
    <3>2. QED BY <3>1, <1>7, TakeType DEF Shutdown
  <2>2. QED BY <1>7, <2>1 DEF Shutdown, TypeOK
<1>8. QED BY <1>2, <1>3, <1>4, <1>5, <1>6, <1>7 DEF ClientStep

\* The variables that no other invariant than the types is about.
DataOK ==
  /\ phase \in [TsId -> {"CurrentTurn", "NextTurn"}]
  /\ where \in [Item -> Place]
  /\ ends \in [Turn -> SUBSET {"TurnComplete", "TurnAborted"}]
  /\ budget \in [interrupt : 0..MaxInterrupts, standalone : 0..MaxStandalone, detour : 0..MaxDetours]

\* The variables the other invariants are about.
CoreOK ==
  /\ active \in [ts : {0} \cup TsId, tasks : Seq(Turn)]
  /\ turn \in [Turn -> Task]
  /\ actor \in [Actor -> Thread]
  /\ started \in 0..MaxTurns

\* The two make up the types.
LEMMA TypeParts == (TypeOK <=> DataOK /\ CoreOK) /\ (TypeOK' <=> DataOK' /\ CoreOK')
BY DEF TypeOK, DataOK, CoreOK

\* A step of a task that leaves the active turn and the threads alone.  A task that
\* has stopped takes none, none begins to run again or is about to take its leftovers.
Works(t) ==
  /\ turn[t].pc \notin Stopped
  /\ \E p \in TurnPc \ {"none", "take"} : Step(t, p) /\ (p \in Unfinished => turn[t].pc \in Unfinished)
  /\ UNCHANGED <<active, actor, started>>

\* The steps of a task that are not such a step are those that remove it, leave a
\* scheduler behind or kill it.
LEMMA WorksCases ==
  ASSUME TypeOK, NEW t \in Turn, TaskStep(t)
  PROVE  (Works(t) /\ DataOK') \/ RemoveTask(t) \/ SpawnScheduler(t) \/ Kill(t)
<1> DEFINE Id == 0..(MaxTurns + MaxStates)
<1> USE DEF Works, Unfinished, Stopped
<1>0. t \in Id /\ 0 \in Id /\ active.ts \in Id BY Bounds DEF TypeOK
<1>1. {"own", "task", "history", "cleared", "blocked", "lost", "turn"} \subseteq At BY Places
<1>2. /\ [at |-> "history", id |-> 0] \in Place /\ [at |-> "blocked", id |-> 0] \in Place
      /\ [at |-> "lost", id |-> 0] \in Place /\ [at |-> "cleared", id |-> 0] \in Place
      /\ [at |-> "task", id |-> t] \in Place /\ [at |-> "turn", id |-> active.ts] \in Place
  BY <1>0, <1>1 DEF Place
<1>3. {"enter", "run", "mail", "inspect", "sample", "tools", "check", "returned", "finish",
       "record", "complete", "schedule", "done"} \subseteq TurnPc
  BY Places
<1> HIDE DEF Id
<1>4. CASE StartRun(t)
  <2>1. where' \in [Item -> Place] BY <1>4, <1>2 DEF StartRun, Move, TypeOK
  <2>2. Works(t) BY <1>4, <1>3 DEF StartRun
  <2>3. QED BY <1>4, <2>1, <2>2 DEF StartRun, TypeOK, DataOK
<1>5. CASE EnterRunTurn(t)
  <2>1. where' \in [Item -> Place] BY <1>5, <1>2 DEF EnterRunTurn, Move, TypeOK
  <2>2. Works(t) BY <1>5, <1>3 DEF EnterRunTurn
  <2>3. QED BY <1>5, <2>1, <2>2 DEF EnterRunTurn, TypeOK, DataOK
<1>6. CASE ReturnEarly(t)
  <2>1. where' \in [Item -> Place] BY <1>6, <1>2 DEF ReturnEarly, Move, TypeOK
  <2>2. Works(t) BY <1>6, <1>3 DEF ReturnEarly
  <2>3. QED BY <1>6, <2>1, <2>2, BudgetType DEF ReturnEarly, TypeOK, DataOK
<1>7. CASE GetPendingInput(t)
  <2>1. where' \in [Item -> Place] BY <1>7, <1>2 DEF GetPendingInput, Move, TypeOK
  <2>2. Works(t) BY <1>7, <1>3 DEF GetPendingInput
  <2>3. QED BY <1>7, <2>1, <2>2 DEF GetPendingInput, TypeOK, DataOK
<1>8. CASE GetMail(t)
  <2>1. where' \in [Item -> Place] BY <1>8, <1>2 DEF GetMail, Move, TypeOK
  <2>2. Works(t) BY <1>8, <1>3 DEF GetMail
  <2>3. QED BY <1>8, <2>1, <2>2 DEF GetMail, TypeOK, DataOK
<1>9. CASE InspectPendingInput(t)
  <2>1. where' \in [Item -> Place] /\ \E p \in {"sample", "run", "check"} : Step(t, p)
    <3>1. CASE Move(ItemsAt("task", t), "history", 0) /\ Step(t, "sample")
      BY <3>1, <1>2 DEF Move, TypeOK
    <3>2. CASE ~(Move(ItemsAt("task", t), "history", 0) /\ Step(t, "sample"))
      <4>1. PICK before \in SUBSET ItemsAt("task", t), p \in Prompt :
              LET rest == ItemsAt("task", t) \ (before \cup {p})
              IN  /\ where' = [i \in Item |->
                       CASE i \in before -> [at |-> "history", id |-> 0]
                         [] i = p -> [at |-> "blocked", id |-> 0]
                         [] i \in rest -> IF active.ts = 0 THEN [at |-> "lost", id |-> 0]
                                          ELSE [at |-> "turn", id |-> active.ts]
                         [] OTHER -> where[i]]
                  /\ Step(t, IF before # {} THEN "sample" ELSE IF rest # {} THEN "run" ELSE "check")
        BY <1>9, <3>2 DEF InspectPendingInput
      <4>2. where' \in [Item -> Place] BY <4>1, <1>2 DEF TypeOK
      <4>3. QED BY <4>1, <4>2
    <3>3. QED BY <3>1, <3>2
  <2>2. Works(t) BY <1>9, <2>1, <1>3 DEF InspectPendingInput
  <2>3. QED BY <1>9, <2>1, <2>2 DEF InspectPendingInput, TypeOK, DataOK
<1>10. CASE OutputToolCall(t)
  <2>1. phase' \in [TsId -> {"CurrentTurn", "NextTurn"}] BY <1>10 DEF OutputToolCall, TypeOK
  <2>2. Works(t) BY <1>10, <1>3 DEF OutputToolCall, Sampling
  <2>3. QED BY <1>10, <2>1, <2>2, BudgetType DEF OutputToolCall, TypeOK, DataOK
<1>11. CASE OutputFinalAnswer(t)
  <2>1. phase' \in [TsId -> {"CurrentTurn", "NextTurn"}] BY <1>11 DEF OutputFinalAnswer, TypeOK
  <2>2. Step(t, turn[t].pc) /\ turn[t].pc \in TurnPc
    BY <1>11 DEF OutputFinalAnswer, Step, TypeOK, Task
  <2>3. Works(t) BY <1>11, <2>2 DEF OutputFinalAnswer, Sampling
  <2>4. QED BY <1>11, <2>1, <2>3 DEF OutputFinalAnswer, TypeOK, DataOK
<1>12. CASE SampleFails(t)
  <2>1. Works(t) BY <1>12, <1>3 DEF SampleFails, Sampling
  <2>2. QED BY <1>12, <2>1, BudgetType DEF SampleFails, TypeOK, DataOK
<1>13. CASE FollowUp(t)
  <2>1. Works(t) BY <1>13, <1>3 DEF FollowUp, Sampling
  <2>2. QED BY <1>13, <2>1, BudgetType DEF FollowUp, TypeOK, DataOK
<1>14. CASE RunAgain(t)
  <2>1. Works(t) BY <1>14, <1>3 DEF RunAgain
  <2>2. QED BY <1>14, <2>1 DEF RunAgain, TypeOK, DataOK
<1>15. CASE CheckCancelled(t)
  <2>1. Works(t) BY <1>15, <1>3 DEF CheckCancelled
  <2>2. QED BY <1>15, <2>1 DEF CheckCancelled, TypeOK, DataOK
<1>16. CASE TakeLeftover(t)
  <2>1. where' \in [Item -> Place] BY <1>16, <1>2 DEF TakeLeftover, Move, TypeOK
  <2>2. Works(t) BY <1>16, <1>3 DEF TakeLeftover
  <2>3. QED BY <1>16, <2>1, <2>2 DEF TakeLeftover, TypeOK, DataOK
<1>17. CASE RecordLeftover(t)
  <2>1. where' \in [Item -> Place] BY <1>17, <1>2 DEF RecordLeftover, TypeOK
  <2>2. Works(t) BY <1>17, <1>3 DEF RecordLeftover
  <2>3. QED BY <1>17, <2>1, <2>2 DEF RecordLeftover, TypeOK, DataOK
<1>18. CASE SendTurnComplete(t)
  <2>1. ends' \in [Turn -> SUBSET {"TurnComplete", "TurnAborted"}]
    BY <1>18 DEF SendTurnComplete, TypeOK
  <2>2. Works(t) BY <1>18, <1>3 DEF SendTurnComplete
  <2>3. QED BY <1>18, <2>1, <2>2 DEF SendTurnComplete, TypeOK, DataOK
<1>19. QED
  BY <1>4, <1>5, <1>6, <1>7, <1>8, <1>9, <1>10, <1>11, <1>12, <1>13, <1>14, <1>15, <1>16, <1>17,
     <1>18 DEF TaskStep

\* An operation of the client: the loop leaves "idle", and nobody else does anything.
Asks ==
  /\ actor' \in [Actor -> Thread]
  /\ \A a \in Actor \ {0} : actor'[a] = actor[a]
  /\ \/ actor' = actor
     \/ /\ actor[0].pc = "idle" /\ actor'[0].pc \in {"idle", "take", "check"}
        /\ actor'[0].tasks = actor[0].tasks
  /\ UNCHANGED <<active, turn, started>>

\* Every operation of the client is such a step.
LEMMA ClientAsks == ASSUME TypeOK, ClientStep PROVE Asks
<1> USE DEF Asks
<1>0. actor \in [Actor -> Thread] /\ actor' \in [Actor -> Thread] /\ 0 \in Actor
  BY ClientType, Bounds DEF TypeOK
<1>1. ASSUME NEW p \in Prompt, SteerInput(p) PROVE Asks BY <1>1, <1>0 DEF SteerInput
<1>2. ASSUME NEW p \in Prompt, UserInput(p) PROVE Asks
  <2>1. CASE UNCHANGED actor BY <2>1, <1>2, <1>0 DEF UserInput
  <2>2. CASE actor' = [actor EXCEPT ![0].pc = "take", ![0].reason = "Replaced", ![0].kind = "regular"]
    <3>1. actor'[0].pc = "take" /\ actor'[0].tasks = actor[0].tasks BY <2>2, <1>0 DEF Thread
    <3>2. QED BY <1>2, <2>2, <3>1, <1>0 DEF UserInput
  <2>3. QED BY <1>2, <2>1, <2>2 DEF UserInput
<1>3. ASSUME NEW m \in Mail, InterAgentCommunication(m) PROVE Asks
  <2>1. actor'[0].pc \in {"check", "idle"} /\ actor'[0].tasks = actor[0].tasks
    BY <1>3, <1>0 DEF InterAgentCommunication, Goto, Thread
  <2>2. QED BY <1>3, <2>1, <1>0 DEF InterAgentCommunication, Goto
<1>4. ASSUME NEW kind \in {"standalone", "review"}, Standalone(kind) PROVE Asks
  <2>1. actor' = [actor EXCEPT ![0].pc = "take", ![0].reason = "Replaced", ![0].kind = kind]
    BY <1>4 DEF Standalone
  <2>2. actor'[0].pc = "take" /\ actor'[0].tasks = actor[0].tasks BY <2>1, <1>0 DEF Thread
  <2>3. QED BY <1>4, <2>1, <2>2, <1>0 DEF Standalone
<1>5. CASE Interrupt
  <2>1. CASE active.ts # 0
    <3>1. actor' = [actor EXCEPT ![0].pc = "take", ![0].reason = "Interrupted"]
      BY <1>5, <2>1 DEF Interrupt
    <3>2. actor'[0].pc = "take" /\ actor'[0].tasks = actor[0].tasks BY <3>1, <1>0 DEF Thread
    <3>3. QED BY <1>5, <3>1, <3>2, <1>0 DEF Interrupt
  <2>2. CASE active.ts = 0 BY <1>5, <2>2, <1>0 DEF Interrupt
  <2>3. QED BY <2>1, <2>2
<1>6. CASE Shutdown
  <2>1. actor' = [actor EXCEPT ![0].pc = "take", ![0].reason = "Interrupted", ![0].then = "exit"]
    BY <1>6 DEF Shutdown
  <2>2. actor'[0].pc = "take" /\ actor'[0].tasks = actor[0].tasks BY <2>1, <1>0 DEF Thread
  <2>3. QED BY <1>6, <2>1, <2>2, <1>0 DEF Shutdown
<1>7. QED BY <1>1, <1>2, <1>3, <1>4, <1>5, <1>6 DEF ClientStep

\* A step of start_task, or of the look for pending work before it, up to the moment
\* the task is added: an actor that is starting a turn goes on, and one that makes an
\* idle session busy is starting a turn.
Prepares(a) ==
  /\ actor[a].pc \in {"check", "reserve", "drain", "mail", "attach", "push"}
  /\ actor' \in [Actor -> Thread]
  /\ \A b \in Actor \ {a} : actor'[b] = actor[b]
  /\ actor'[a].tasks = actor[a].tasks /\ actor'[a].pc \notin {"cancel", "abort", "take"}
  /\ actor[a].pc \in Starting => actor'[a].pc \in Starting
  /\ \/ active' = active
     \/ /\ active' \in [ts : TsId, tasks : Seq(Turn)] /\ active'.tasks = active.tasks
        /\ actor'[a].pc \in Starting
  /\ UNCHANGED <<turn, started>>

\* The other steps of an actor add a task or abort one.
LEMMA PreparesCases ==
  ASSUME TypeOK, ActiveInv, NEW a \in Actor, ActorStep(a)
  PROVE  \/ Prepares(a) /\ DataOK'
         \/ AddTask(a)
         \/ a = 0 /\ (TakeActiveTurn \/ CancelTask \/ AbortTask \/ ClearPending)
<1> USE DEF Prepares, Starting
<1>0. actor \in [Actor -> Thread] /\ actor[a] \in Thread BY DEF TypeOK
<1>1. {"check", "reserve", "drain", "mail", "attach", "push", "add"} \subseteq ActorPc
      /\ "regular" \in Kind
  BY Places
<1>2. actor[a].then \in {"off", "idle", "exit"} /\ actor[a].then \in ActorPc
  BY <1>0, Places DEF Thread
<1>3. [at |-> "actor", id |-> a] \in Place /\ [at |-> "turn", id |-> actor[a].ts] \in Place
  <2>1. {"actor", "turn"} \subseteq At BY Places
  <2>2. a \in 0..(MaxTurns + MaxStates) /\ actor[a].ts \in 0..(MaxTurns + MaxStates)
    BY Bounds, <1>0 DEF Thread
  <2>3. QED BY <2>1, <2>2 DEF Place
<1>4. CASE CheckPendingWork(a)
  <2>1. PICK p \in {"reserve", actor[a].then} : Goto(a, p) BY <1>4 DEF CheckPendingWork
  <2>2. p \in ActorPc BY <2>1, <1>1, <1>2
  <2>3. QED BY <1>4, <2>1, <2>2, <1>2, GotoType DEF CheckPendingWork, TypeOK, DataOK
<1>5. CASE ReserveTurn(a)
  <2>1. CASE active.ts # 0
    <3>1. Goto(a, actor[a].then) /\ UNCHANGED <<active, phase>> BY <1>5, <2>1 DEF ReserveTurn
    <3>2. QED BY <1>5, <3>1, <1>2, GotoType DEF ReserveTurn, TypeOK, DataOK
  <2>2. CASE active.ts = 0
    <3>1. StateLeft /\ active' = GetOrInsert /\ phase' = FreshPhase BY <1>5, <2>2 DEF ReserveTurn
    <3>2. /\ active' \in [ts : TsId, tasks : Seq(Turn)] /\ active'.tasks = active.tasks
          /\ phase' \in [TsId -> {"CurrentTurn", "NextTurn"}]
      BY <2>2, <3>1, FreshType DEF ActiveInv
    <3>3. actor' = [actor EXCEPT ![a].pc = "drain", ![a].kind = "regular"]
      BY <1>5, <2>2 DEF ReserveTurn
    <3>4. /\ actor' \in [Actor -> Thread] /\ actor'[a].pc = "drain"
          /\ actor'[a].tasks = actor[a].tasks /\ \A b \in Actor \ {a} : actor'[b] = actor[b]
      BY <3>3, <1>0, <1>1 DEF Thread
    <3>5. QED BY <1>5, <3>2, <3>4 DEF ReserveTurn, TypeOK, DataOK
  <2>3. QED BY <2>1, <2>2
<1>6. CASE DrainForStart(a)
  <2>1. where' \in [Item -> Place] BY <1>6, <1>3 DEF DrainForStart, Move, TypeOK
  <2>2. PICK p \in {"mail", "attach"} : Goto(a, p) BY <1>6 DEF DrainForStart
  <2>3. QED BY <1>6, <2>1, <2>2, <1>1, GotoType DEF DrainForStart, TypeOK, DataOK
<1>7. CASE DrainMailForStart(a)
  <2>1. where' \in [Item -> Place] BY <1>7, <1>3 DEF DrainMailForStart, Move, TypeOK
  <2>2. Goto(a, "attach") BY <1>7 DEF DrainMailForStart
  <2>3. QED BY <1>7, <2>1, <2>2, <1>1, GotoType DEF DrainMailForStart, TypeOK, DataOK
<1>8. CASE AttachTurnState(a)
  <2>1. StateLeft /\ active' = GetOrInsert /\ phase' = FreshPhase BY <1>8 DEF AttachTurnState
  <2>2. /\ active' \in [ts : TsId, tasks : Seq(Turn)] /\ active'.tasks = active.tasks
        /\ phase' \in [TsId -> {"CurrentTurn", "NextTurn"}]
    BY <2>1, FreshType DEF ActiveInv
  <2>3. actor' = [actor EXCEPT ![a].pc = "push", ![a].ts = active'.ts]
    BY <1>8 DEF AttachTurnState
  <2>4. active'.ts \in TsId BY <2>2
  <2>5. /\ actor' \in [Actor -> Thread] /\ actor'[a].pc = "push"
        /\ actor'[a].tasks = actor[a].tasks /\ \A b \in Actor \ {a} : actor'[b] = actor[b]
    BY <2>3, <2>4, <1>0, <1>1 DEF Thread
  <2>6. QED BY <1>8, <2>2, <2>5 DEF AttachTurnState, TypeOK, DataOK
<1>9. CASE PushPendingInput(a)
  <2>1. where' \in [Item -> Place] BY <1>9, <1>3 DEF PushPendingInput, Move, TypeOK
  <2>2. actor' = [actor EXCEPT ![a].pc = "add", ![a].ts = 0] BY <1>9 DEF PushPendingInput
  <2>3. /\ actor' \in [Actor -> Thread] /\ actor'[a].pc = "add"
        /\ actor'[a].tasks = actor[a].tasks /\ \A b \in Actor \ {a} : actor'[b] = actor[b]
    BY <2>2, <1>0, <1>1 DEF Thread
  <2>4. QED BY <1>9, <2>1, <2>3 DEF PushPendingInput, TypeOK, DataOK
<1>10. QED BY <1>4, <1>5, <1>6, <1>7, <1>8, <1>9 DEF ActorStep

\* AddTask: the next turn's task is spawned and joins the active turn.
LEMMA AddTaskDoes ==
  ASSUME TypeOK, ActiveInv, NEW a \in Actor, AddTask(a)
  PROVE  /\ TypeOK'
         /\ started + 1 \in Turn /\ started' = started + 1
         /\ active'.ts # 0 /\ active'.tasks # <<>>
         /\ Range(active'.tasks) = Range(active.tasks) \cup {started + 1}
         /\ turn'[started + 1].pc = "spawned"
         /\ turn'[started + 1].cancelled = turn[started + 1].cancelled
         /\ \A u \in Turn : u # started + 1 => turn'[u] = turn[u]
         /\ actor[a].pc = "add" /\ actor'[a].pc \in {"off", "idle", "exit"}
         /\ actor'[a].tasks = actor[a].tasks
         /\ \A b \in Actor : b # a => actor'[b] = actor[b]
<1>1. started + 1 \in Turn /\ started' = started + 1 /\ started' \in 0..MaxTurns
  BY Bounds DEF AddTask, TypeOK, Turn
<1>2. /\ GetOrInsert \in [ts : TsId, tasks : Seq(Turn)] /\ GetOrInsert.tasks = active.tasks
      /\ FreshPhase \in [TsId -> {"CurrentTurn", "NextTurn"}]
  BY FreshType DEF AddTask, ActiveInv
<1>3. active' = [GetOrInsert EXCEPT !.tasks = Append(@, started + 1)] BY DEF AddTask
<1>4. active'.ts = GetOrInsert.ts /\ active'.tasks = Append(active.tasks, started + 1)
      /\ active'.ts \in TsId
  BY <1>2, <1>3
<1>5. active.tasks \in Seq(Turn) BY DEF TypeOK
<1>6. /\ Append(active.tasks, started + 1) \in Seq(Turn)
      /\ Append(active.tasks, started + 1) # <<>>
      /\ Range(Append(active.tasks, started + 1)) = Range(active.tasks) \cup {started + 1}
  BY <1>1, <1>5, RangeAppend
<1>7. active' \in [ts : {0} \cup TsId, tasks : Seq(Turn)] BY <1>2, <1>3, <1>6
<1>8. "spawned" \in TurnPc /\ actor[a].kind \in Kind BY Places DEF TypeOK, Thread
<1>9. turn' = [turn EXCEPT ![started + 1].pc = "spawned", ![started + 1].kind = actor[a].kind]
  BY DEF AddTask
<1>10. /\ turn' \in [Turn -> Task] /\ turn'[started + 1].pc = "spawned"
       /\ turn'[started + 1].cancelled = turn[started + 1].cancelled
       /\ \A u \in Turn : u # started + 1 => turn'[u] = turn[u]
  BY <1>1, <1>8, <1>9 DEF TypeOK, Task
<1>11. where' \in [Item -> Place]
  <2>1. "own" \in At /\ started + 1 \in 0..(MaxTurns + MaxStates) BY <1>1, Bounds, Places
  <2>2. [at |-> "own", id |-> started + 1] \in Place BY <2>1 DEF Place
  <2>3. QED BY <2>2 DEF AddTask, Move, TypeOK
<1>12. Goto(a, actor[a].then) /\ actor[a].then \in {"off", "idle", "exit"} /\ actor[a].then \in ActorPc
  BY Places DEF AddTask, TypeOK, Thread
<1>13. /\ actor' \in [Actor -> Thread] /\ actor'[a].pc = actor[a].then
       /\ actor'[a].tasks = actor[a].tasks /\ \A b \in Actor : b # a => actor'[b] = actor[b]
  BY <1>12, GotoType
<1>14. TypeOK' BY <1>1, <1>2, <1>7, <1>10, <1>11, <1>13 DEF AddTask, TypeOK
<1>15. 0 \notin TsId BY Bounds
<1>16. QED BY <1>1, <1>4, <1>6, <1>10, <1>12, <1>13, <1>14, <1>15 DEF AddTask

\* TakeActiveTurn: the loop takes the turn and the list of its tasks out of the session.
LEMMA TakeActiveTurnDoes ==
  ASSUME TypeOK, TakeActiveTurn
  PROVE  /\ TypeOK'
         /\ active' = NoTurn /\ actor[0].pc = "take"
         /\ actor'[0].tasks = active.tasks /\ actor'[0].ts = active.ts
         /\ actor'[0].then = actor[0].then /\ actor'[0].reason = actor[0].reason
         /\ actor'[0].pc = IF active.ts = 0 THEN AfterAbort
                           ELSE IF active.tasks = <<>> THEN "clear" ELSE "cancel"
         /\ \A b \in Actor : b # 0 => actor'[b] = actor[b]
         /\ UNCHANGED <<phase, where, turn, ends, started, budget>>
<1>0. active.ts \in {0} \cup TsId /\ active.tasks \in Seq(Turn) /\ actor[0] \in Thread /\ 0 \in Actor
  BY Bounds DEF TypeOK
<1>1. <<>> \in Seq(Turn) OBVIOUS
<1>2. NoTurn \in [ts : {0} \cup TsId, tasks : Seq(Turn)] BY <1>1 DEF NoTurn
<1> DEFINE p == IF active.ts = 0 THEN AfterAbort
                ELSE IF active.tasks = <<>> THEN "clear" ELSE "cancel"
<1>3. p \in ActorPc BY Places DEF AfterAbort
<1>4. actor' = [actor EXCEPT ![0].ts = active.ts, ![0].tasks = active.tasks, ![0].pc = p]
  BY DEF TakeActiveTurn
<1> HIDE DEF p
<1>5. /\ actor' \in [Actor -> Thread] /\ actor'[0].pc = p
      /\ actor'[0].tasks = active.tasks /\ actor'[0].ts = active.ts
      /\ actor'[0].then = actor[0].then /\ actor'[0].reason = actor[0].reason
      /\ \A b \in Actor : b # 0 => actor'[b] = actor[b]
  BY <1>0, <1>3, <1>4 DEF TypeOK, Thread
<1>6. TypeOK' BY <1>2, <1>5 DEF TakeActiveTurn, TypeOK
<1>7. QED BY <1>5, <1>6 DEF TakeActiveTurn, p

\* CancelTask: the token of the first task of the list.
LEMMA CancelTaskDoes ==
  ASSUME TypeOK, AbortInv, CancelTask
  PROVE  /\ TypeOK'
         /\ actor[0].pc = "cancel" /\ actor'[0].pc = "abort" /\ actor'[0].tasks = actor[0].tasks
         /\ actor'[0].ts = actor[0].ts /\ actor'[0].then = actor[0].then
         /\ \A b \in Actor : b # 0 => actor'[b] = actor[b]
         /\ Head(actor[0].tasks) \in Turn /\ turn'[Head(actor[0].tasks)].cancelled
         /\ \A u \in Turn : /\ turn'[u].pc = turn[u].pc /\ turn'[u].doomed = turn[u].doomed
                            /\ turn'[u].ts = turn[u].ts /\ (turn[u].cancelled => turn'[u].cancelled)
         /\ UNCHANGED <<active, phase, where, ends, started, budget>>
<1>1. actor[0].tasks \in Seq(Turn) /\ actor[0].tasks # <<>> /\ 0 \in Actor
  BY Bounds DEF TypeOK, Thread, AbortInv, CancelTask
<1>2. Head(actor[0].tasks) \in Turn BY <1>1, RangeTail
<1>3. /\ turn' \in [Turn -> Task] /\ turn'[Head(actor[0].tasks)].cancelled
      /\ \A u \in Turn : /\ turn'[u].pc = turn[u].pc /\ turn'[u].doomed = turn[u].doomed
                         /\ turn'[u].ts = turn[u].ts /\ (turn[u].cancelled => turn'[u].cancelled)
  BY <1>2 DEF CancelTask, TypeOK, Task
<1>4. "abort" \in ActorPc /\ Goto(0, "abort") BY Places DEF CancelTask
<1>5. /\ actor' \in [Actor -> Thread] /\ actor'[0].pc = "abort" /\ actor'[0].tasks = actor[0].tasks
      /\ actor'[0].ts = actor[0].ts /\ actor'[0].then = actor[0].then
      /\ \A b \in Actor : b # 0 => actor'[b] = actor[b]
  BY <1>1, <1>4, GotoType
<1>6. TypeOK' BY <1>3, <1>5 DEF CancelTask, TypeOK
<1>7. QED BY <1>2, <1>3, <1>5, <1>6 DEF CancelTask

\* AbortTask: the first task of the list leaves it, killed or doomed.
LEMMA AbortTaskDoes ==
  ASSUME TypeOK, AbortInv, AbortTask
  PROVE  LET t == Head(actor[0].tasks)
         IN /\ TypeOK'
            /\ actor[0].pc = "abort" /\ actor[0].tasks # <<>> /\ t \in Turn
            /\ actor'[0].tasks = Tail(actor[0].tasks)
            /\ actor'[0].pc = IF Tail(actor[0].tasks) = <<>> THEN "clear" ELSE "cancel"
            /\ actor'[0].ts = actor[0].ts /\ actor'[0].then = actor[0].then
            /\ \A b \in Actor : b # 0 => actor'[b] = actor[b]
            /\ \A u \in Turn : turn'[u].cancelled = turn[u].cancelled /\ (u # t => turn'[u] = turn[u])
            /\ \/ /\ turn[t].pc \notin Stopped /\ turn'[t].pc = "killed"
                  /\ Move(InHand(t), "lost", 0)
               \/ /\ AbortIsPrompt => turn[t].pc \in Stopped
                  /\ turn'[t].pc = turn[t].pc /\ turn'[t].ts = turn[t].ts /\ UNCHANGED where
            /\ UNCHANGED <<active, phase, started, budget>>
<1> DEFINE t == Head(actor[0].tasks)
<1>1. actor[0].tasks \in Seq(Turn) /\ actor[0].tasks # <<>> /\ 0 \in Actor
  BY Bounds DEF TypeOK, Thread, AbortInv, AbortTask
<1>2. t \in Turn /\ Tail(actor[0].tasks) \in Seq(Turn) BY <1>1, RangeTail
<1>3. /\ turn' \in [Turn -> Task] /\ where' \in [Item -> Place]
      /\ \A u \in Turn : turn'[u].cancelled = turn[u].cancelled /\ (u # t => turn'[u] = turn[u])
      /\ \/ /\ turn[t].pc \notin Stopped /\ turn'[t].pc = "killed" /\ Move(InHand(t), "lost", 0)
         \/ /\ AbortIsPrompt => turn[t].pc \in Stopped
            /\ turn'[t].pc = turn[t].pc /\ turn'[t].ts = turn[t].ts /\ UNCHANGED where
  <2>1. CASE AbortIsPrompt /\ turn[t].pc \notin Stopped
    <3>1. turn' = [turn EXCEPT ![t].pc = "killed", ![t].ts = 0] /\ Move(InHand(t), "lost", 0)
      BY <2>1 DEF AbortTask
    <3>2. where' \in [Item -> Place]
      <4>1. "lost" \in At /\ 0 \in 0..(MaxTurns + MaxStates) BY Places, Bounds
      <4>2. QED BY <3>1, <4>1, MoveType
    <3>3. "killed" \in TurnPc BY Places
    <3>4. /\ turn' \in [Turn -> Task] /\ turn'[t].pc = "killed"
          /\ \A u \in Turn : turn'[u].cancelled = turn[u].cancelled /\ (u # t => turn'[u] = turn[u])
      BY <1>2, <3>1, <3>3 DEF TypeOK, Task
    <3>5. QED BY <2>1, <3>1, <3>2, <3>4
  <2>2. CASE ~(AbortIsPrompt /\ turn[t].pc \notin Stopped)
    <3>1. turn' = [turn EXCEPT ![t].doomed = TRUE] /\ UNCHANGED where BY <2>2 DEF AbortTask
    <3>2. /\ turn' \in [Turn -> Task] /\ turn'[t].pc = turn[t].pc /\ turn'[t].ts = turn[t].ts
          /\ \A u \in Turn : turn'[u].cancelled = turn[u].cancelled /\ (u # t => turn'[u] = turn[u])
      BY <1>2, <3>1 DEF TypeOK, Task
    <3>3. AbortIsPrompt => turn[t].pc \in Stopped BY <2>2
    <3>4. QED BY <3>1, <3>2, <3>3 DEF TypeOK
  <2>3. QED BY <2>1, <2>2
<1>4. ends' \in [Turn -> SUBSET {"TurnComplete", "TurnAborted"}] BY <1>2 DEF AbortTask, TypeOK
<1> DEFINE p == IF Tail(actor[0].tasks) = <<>> THEN "clear" ELSE "cancel"
<1>5. p \in ActorPc BY Places
<1>6. actor' = [actor EXCEPT ![0].tasks = Tail(@), ![0].pc = p] BY DEF AbortTask
<1> HIDE DEF p
<1>7. /\ actor' \in [Actor -> Thread] /\ actor'[0].tasks = Tail(actor[0].tasks) /\ actor'[0].pc = p
      /\ actor'[0].ts = actor[0].ts /\ actor'[0].then = actor[0].then
      /\ \A b \in Actor : b # 0 => actor'[b] = actor[b]
  BY <1>1, <1>2, <1>5, <1>6 DEF TypeOK, Thread
<1>8. TypeOK' BY <1>3, <1>4, <1>7 DEF AbortTask, TypeOK
<1>9. QED BY <1>1, <1>2, <1>3, <1>7, <1>8 DEF AbortTask, p

\* ClearPending: the loop is done with the turn state it took.
LEMMA ClearPendingDoes ==
  ASSUME TypeOK, ClearPending
  PROVE  /\ TypeOK'
         /\ actor[0].pc = "clear" /\ actor'[0].pc = AfterAbort /\ actor'[0].tasks = actor[0].tasks
         /\ actor'[0].then = actor[0].then
         /\ \A b \in Actor : b # 0 => actor'[b] = actor[b]
         /\ Move(ItemsAt("turn", actor[0].ts), "cleared", 0)
         /\ UNCHANGED <<active, phase, turn, ends, started, budget>>
<1>1. AfterAbort \in ActorPc /\ 0 \in Actor BY Places, Bounds DEF AfterAbort
<1>2. actor' = [actor EXCEPT ![0].ts = 0, ![0].pc = AfterAbort] BY DEF ClearPending
<1>3. actor[0] \in Thread BY <1>1 DEF TypeOK
<1>4. /\ actor' \in [Actor -> Thread] /\ actor'[0].pc = AfterAbort /\ actor'[0].tasks = actor[0].tasks
      /\ actor'[0].then = actor[0].then
      /\ \A b \in Actor : b # 0 => actor'[b] = actor[b]
  BY <1>1, <1>2, <1>3 DEF TypeOK, Thread
<1>5. where' \in [Item -> Place]
  <2>1. "cleared" \in At /\ 0 \in 0..(MaxTurns + MaxStates) BY Places, Bounds
  <2>2. QED BY <2>1, MoveType DEF ClearPending
<1>6. TypeOK' BY <1>4, <1>5 DEF ClearPending, TypeOK
<1>7. QED BY <1>4, <1>6 DEF ClearPending

\* RemoveTask: a task that has returned leaves the active turn, and takes the turn
\* state with it if no task is left.
LEMMA RemoveTaskDoes ==
  ASSUME TypeOK, NEW t \in Turn, RemoveTask(t)
  PROVE  /\ TypeOK'
         /\ turn[t].pc = "finish"
         /\ \A u \in Turn : turn'[u].cancelled = turn[u].cancelled /\ (u # t => turn'[u] = turn[u])
         /\ \A u \in Turn : u # t /\ u \in Range(active.tasks) => u \in Range(active'.tasks)
         /\ Range(active'.tasks) \subseteq Range(active.tasks)
         /\ active.tasks = <<>> => active'.tasks = <<>>
         /\ \/ /\ active.ts # 0 /\ active' = NoTurn
               /\ turn'[t].pc = "take" /\ turn'[t].ts = active.ts
            \/ /\ active'.ts = active.ts /\ (active.ts = 0 \/ active'.tasks # <<>>)
               /\ turn'[t].pc = "complete"
         /\ turn[t].doomed \/ FinishMayPend \/ ~turn'[t].doomed
         /\ UNCHANGED <<phase, where, ends, actor, started, budget>>
<1> DEFINE rest == SwapRemove(active.tasks, t)
           self == FinishMayPend /\ t \in Range(active.tasks)
<1>1. active.tasks \in Seq(Turn) BY DEF TypeOK
<1>2. /\ rest \in Seq(Turn) /\ Range(active.tasks) \ {t} \subseteq Range(rest)
      /\ Range(rest) \subseteq Range(active.tasks) /\ (active.tasks = <<>> => rest = <<>>)
  BY <1>1, SwapRemoveKeeps
<1>3. self \in BOOLEAN /\ (turn[t].doomed \/ self) \in BOOLEAN BY BoundAssumption DEF TypeOK, Task
<1>4. CASE active.ts # 0 /\ rest = <<>>
  <2>1. active' = NoTurn
        /\ turn' = [turn EXCEPT ![t].pc = "take", ![t].ts = active.ts, ![t].doomed = @ \/ self]
    BY <1>4 DEF RemoveTask
  <2> HIDE DEF self
  <2>2. "take" \in TurnPc /\ active.ts \in {0} \cup TsId BY Places DEF TypeOK
  <2>3. /\ turn' \in [Turn -> Task] /\ turn'[t].pc = "take" /\ turn'[t].ts = active.ts
        /\ turn'[t].doomed = (turn[t].doomed \/ self)
        /\ \A u \in Turn : turn'[u].cancelled = turn[u].cancelled /\ (u # t => turn'[u] = turn[u])
    BY <1>3, <2>1, <2>2 DEF TypeOK, Task
  <2>4. active'.tasks = rest /\ NoTurn \in [ts : {0} \cup TsId, tasks : Seq(Turn)]
    BY <1>2, <1>4, <2>1 DEF NoTurn
  <2>5. TypeOK' BY <2>1, <2>3, <2>4 DEF RemoveTask, TypeOK
  <2>6. QED BY <1>2, <1>4, <2>1, <2>3, <2>4, <2>5 DEF RemoveTask, self
<1>5. CASE ~(active.ts # 0 /\ rest = <<>>)
  <2>1. active' = [active EXCEPT !.tasks = rest]
        /\ turn' = [turn EXCEPT ![t].pc = "complete", ![t].doomed = @ \/ self]
    BY <1>5 DEF RemoveTask
  <2> HIDE DEF self, rest
  <2>2. "complete" \in TurnPc BY Places
  <2>3. /\ turn' \in [Turn -> Task] /\ turn'[t].pc = "complete"
        /\ turn'[t].doomed = (turn[t].doomed \/ self)
        /\ \A u \in Turn : turn'[u].cancelled = turn[u].cancelled /\ (u # t => turn'[u] = turn[u])
    BY <1>3, <2>1, <2>2 DEF TypeOK, Task
  <2>4. /\ active'.tasks = rest /\ active'.ts = active.ts
        /\ active' \in [ts : {0} \cup TsId, tasks : Seq(Turn)]
    BY <1>2, <2>1 DEF TypeOK
  <2>5. TypeOK' BY <2>3, <2>4 DEF RemoveTask, TypeOK
  <2>6. QED BY <1>2, <1>5, <2>3, <2>4, <2>5 DEF RemoveTask, self, rest
<1>6. QED BY <1>4, <1>5

\* SpawnScheduler: the task is done and its scheduler looks for pending work.
LEMMA SpawnSchedulerDoes ==
  ASSUME TypeOK, NEW t \in Turn, SpawnScheduler(t)
  PROVE  /\ TypeOK'
         /\ turn[t].pc = "schedule" /\ turn'[t].pc = "done"
         /\ \A u \in Turn : /\ turn'[u].cancelled = turn[u].cancelled /\ (u # t => turn'[u] = turn[u])
                            /\ turn'[u].doomed = turn[u].doomed
         /\ actor'[t].pc = "check" /\ actor'[t].then = actor[t].then
         /\ \A b \in Actor : b # t => actor'[b] = actor[b]
         /\ UNCHANGED <<active, phase, where, ends, started, budget>>
<1>1. "done" \in TurnPc /\ "check" \in ActorPc /\ t \in Actor BY Places, Bounds
<1>2. /\ turn' \in [Turn -> Task] /\ turn'[t].pc = "done"
      /\ \A u \in Turn : /\ turn'[u].cancelled = turn[u].cancelled /\ (u # t => turn'[u] = turn[u])
                         /\ turn'[u].doomed = turn[u].doomed
  BY <1>1 DEF SpawnScheduler, TypeOK, Task
<1>3. /\ actor' \in [Actor -> Thread] /\ actor'[t].pc = "check" /\ actor'[t].then = actor[t].then
      /\ \A b \in Actor : b # t => actor'[b] = actor[b]
  BY <1>1, GotoType DEF SpawnScheduler
<1>4. TypeOK' BY <1>2, <1>3 DEF SpawnScheduler, TypeOK
<1>5. QED BY <1>2, <1>3, <1>4 DEF SpawnScheduler

\* Kill: a doomed task takes no further step.
LEMMA KillDoes ==
  ASSUME TypeOK, NEW t \in Turn, Kill(t)
  PROVE  /\ TypeOK'
         /\ turn[t].doomed /\ turn[t].pc \notin Stopped /\ turn'[t].pc = "killed"
         /\ \A u \in Turn : turn'[u].cancelled = turn[u].cancelled /\ (u # t => turn'[u] = turn[u])
         /\ UNCHANGED <<active, phase, ends, actor, started, budget>>
<1>1. "killed" \in TurnPc BY Places
<1>2. /\ turn' \in [Turn -> Task] /\ turn'[t].pc = "killed"
      /\ \A u \in Turn : turn'[u].cancelled = turn[u].cancelled /\ (u # t => turn'[u] = turn[u])
  BY <1>1 DEF Kill, TypeOK, Task
<1>3. where' \in [Item -> Place]
  <2>1. "lost" \in At /\ 0 \in 0..(MaxTurns + MaxStates) BY Places, Bounds
  <2>2. QED BY <2>1, MoveType DEF Kill
<1>4. TypeOK' BY <1>2, <1>3 DEF Kill, TypeOK
<1>5. QED BY <1>2, <1>4 DEF Kill

\* A step of a task that leaves the active turn alone, with its types.
LEMMA WorksDoes ==
  ASSUME TypeOK, NEW t \in Turn, Works(t), DataOK'
  PROVE  /\ TypeOK'
         /\ turn[t].pc \notin Stopped
         /\ turn'[t].pc \notin {"none", "take"}
         /\ turn'[t].pc \in Unfinished => turn[t].pc \in Unfinished
         /\ \A u \in Turn : /\ turn'[u].cancelled = turn[u].cancelled /\ (u # t => turn'[u] = turn[u])
                            /\ turn'[u].doomed = turn[u].doomed /\ turn'[u].ts = turn[u].ts
         /\ UNCHANGED <<active, actor, started>>
<1>1. PICK p \in TurnPc \ {"none", "take"} : Step(t, p) /\ (p \in Unfinished => turn[t].pc \in Unfinished)
  BY DEF Works
<1>2. /\ turn' \in [Turn -> Task] /\ turn'[t].pc = p
      /\ \A u \in Turn : /\ turn'[u].cancelled = turn[u].cancelled /\ (u # t => turn'[u] = turn[u])
                         /\ turn'[u].doomed = turn[u].doomed /\ turn'[u].ts = turn[u].ts
  BY <1>1, StepType
<1>3. TypeOK' BY <1>2 DEF TypeOK, DataOK, Works
<1>4. QED BY <1>1, <1>2, <1>3 DEF Works

-----------------------------------------------------------------------------
(* The inductive invariant, action by action.                                *)

\* The invariant from its parts.
Invs == ActiveInv /\ AbortInv /\ StartInv /\ ReservationOwned /\ InterruptReachesTasks

\* An operation of the client.
LEMMA AsksKeeps == ASSUME TypeOK, Invs, Asks PROVE Invs'
<1>1. UNCHANGED <<active, turn, started>> /\ actor'[0].tasks = actor[0].tasks
      /\ \A a \in Actor \ {0} : actor'[a] = actor[a]
  BY DEF Asks
<1>2. Turn \subseteq Actor /\ 0 \notin Turn /\ 0 \in Actor BY Bounds
<1>3. ActiveInv' BY <1>1 DEF Invs, ActiveInv
<1>4. AbortInv' BY <1>1 DEF Invs, AbortInv, Asks
<1>5. StartInv' BY <1>1, <1>2 DEF Invs, StartInv
<1>6. ReservationOwned'
  <2>1. \A a \in Actor : actor[a].pc \in Starting => actor'[a].pc \in Starting
    BY <1>1 DEF Asks, Starting
  <2>2. QED BY <2>1, <1>1 DEF Invs, ReservationOwned
<1>7. InterruptReachesTasks' BY <1>1 DEF Invs, InterruptReachesTasks
<1>8. QED BY <1>3, <1>4, <1>5, <1>6, <1>7 DEF Invs

\* A step towards a new task.
LEMMA PreparesKeeps == ASSUME TypeOK, Invs, NEW a \in Actor, Prepares(a) PROVE Invs'
<1>0. UNCHANGED <<turn, started>> /\ \A b \in Actor \ {a} : actor'[b] = actor[b] BY DEF Prepares
<1>1. Turn \subseteq Actor /\ 0 \notin Turn /\ 0 \in Actor /\ 0 \notin TsId BY Bounds
<1>2. actor'[0].tasks = actor[0].tasks BY <1>1 DEF Prepares
<1>3. active'.tasks = active.tasks BY DEF Prepares
<1>4. ActiveInv' BY <1>1 DEF Invs, ActiveInv, Prepares
<1>5. AbortInv'
  <2>1. actor[0].pc \in {"cancel", "abort"} <=> actor'[0].pc \in {"cancel", "abort"}
    BY <1>1 DEF Prepares
  <2>2. actor'[0].pc = "abort" => actor[0].pc = "abort" BY <1>1 DEF Prepares
  <2>3. QED BY <2>1, <2>2, <1>0, <1>2 DEF Invs, AbortInv
<1>6. StartInv' BY <1>0, <1>1 DEF Invs, StartInv, Prepares
<1>7. ReservationOwned'
  <2>1. \A b \in Actor : actor[b].pc \in Starting => actor'[b].pc \in Starting
    BY DEF Prepares
  <2>2. CASE active' = active BY <2>1, <2>2 DEF Invs, ReservationOwned
  <2>3. CASE actor'[a].pc \in Starting BY <2>3 DEF ReservationOwned
  <2>4. QED BY <2>2, <2>3 DEF Prepares
<1>8. InterruptReachesTasks' BY <1>0, <1>2, <1>3 DEF Invs, InterruptReachesTasks
<1>9. QED BY <1>4, <1>5, <1>6, <1>7, <1>8 DEF Invs

\* A task is added to the active turn.
LEMMA AddTaskKeeps == ASSUME TypeOK, Invs, NEW a \in Actor, AddTask(a) PROVE Invs'
<1>0. ActiveInv BY DEF Invs
<1>1. /\ started + 1 \in Turn /\ started' = started + 1
      /\ active'.ts # 0 /\ active'.tasks # <<>>
      /\ Range(active'.tasks) = Range(active.tasks) \cup {started + 1}
      /\ turn'[started + 1].cancelled = turn[started + 1].cancelled
      /\ \A u \in Turn : u # started + 1 => turn'[u] = turn[u]
      /\ actor[a].pc = "add" /\ actor'[a].pc \in {"off", "idle", "exit"}
      /\ actor'[a].tasks = actor[a].tasks
      /\ \A b \in Actor : b # a => actor'[b] = actor[b]
  BY <1>0, AddTaskDoes
<1>2. Turn \subseteq Actor /\ 0 \notin Turn /\ 0 \in Actor BY Bounds
<1>3. started \in Nat /\ \A t \in Turn : t \in Nat BY Bounds DEF TypeOK, Turn
<1>4. actor'[0].tasks = actor[0].tasks BY <1>1, <1>2
<1>5. ActiveInv' BY <1>1 DEF ActiveInv
<1>6. AbortInv'
  <2>1. actor[0].pc \in {"cancel", "abort"} <=> actor'[0].pc \in {"cancel", "abort"} BY <1>1, <1>2
  <2>2. actor'[0].pc = "abort" => actor[0].pc = "abort" BY <1>1, <1>2
  <2>3. ASSUME actor[0].pc = "abort" PROVE turn'[Head(actor[0].tasks)].cancelled
    <3>1. actor[0].tasks \in Seq(Turn) /\ actor[0].tasks # <<>>
      BY <2>3, <1>2 DEF Invs, AbortInv, TypeOK, Thread
    <3>2. Head(actor[0].tasks) \in Turn BY <3>1, RangeTail
    <3>3. QED BY <2>3, <3>2, <1>1 DEF Invs, AbortInv
  <2>4. QED BY <2>1, <2>2, <2>3, <1>4 DEF Invs, AbortInv
<1>7. StartInv'
  <2>1. turn[started + 1].pc = "none" BY <1>1, <1>3 DEF Invs, StartInv
  <2>2. ASSUME NEW t \in Turn PROVE /\ t > started' => turn'[t].pc = "none"
                                    /\ actor'[t].pc # "off" => turn'[t].pc = "done"
    <3>1. actor'[t].pc # "off" => actor[t].pc # "off" BY <1>1, <1>2
    <3>2. CASE t = started + 1 BY <3>1, <3>2, <2>1, <1>1, <1>3 DEF Invs, StartInv
    <3>3. CASE t # started + 1 BY <3>1, <3>3, <1>1, <1>3 DEF Invs, StartInv
    <3>4. QED BY <3>2, <3>3
  <2>3. QED BY <2>2 DEF StartInv
<1>8. ReservationOwned' BY <1>1 DEF ReservationOwned
<1>9. InterruptReachesTasks' BY <1>1, <1>4 DEF Invs, InterruptReachesTasks
<1>10. QED BY <1>5, <1>6, <1>7, <1>8, <1>9 DEF Invs

\* abort_all_tasks: the turn is taken.
LEMMA TakeActiveTurnKeeps == ASSUME TypeOK, Invs, TakeActiveTurn PROVE Invs'
<1>1. /\ active' = NoTurn /\ actor[0].pc = "take" /\ actor'[0].tasks = active.tasks
      /\ actor'[0].pc = IF active.ts = 0 THEN AfterAbort
                        ELSE IF active.tasks = <<>> THEN "clear" ELSE "cancel"
      /\ \A b \in Actor : b # 0 => actor'[b] = actor[b]
      /\ UNCHANGED <<turn, started>>
  BY TakeActiveTurnDoes
<1>2. Turn \subseteq Actor /\ 0 \notin Turn BY Bounds
<1>3. actor[0].tasks = <<>> BY <1>1 DEF Invs, AbortInv
<1>4. ActiveInv' BY <1>1 DEF ActiveInv, NoTurn
<1>5. AbortInv' BY <1>1 DEF Invs, AbortInv, ActiveInv, AfterAbort
<1>6. StartInv' BY <1>1, <1>2 DEF Invs, StartInv
<1>7. ReservationOwned' BY <1>1 DEF ReservationOwned, NoTurn
<1>8. InterruptReachesTasks'
  <2>1. Range(actor[0].tasks) = {} BY <1>3 DEF Range
  <2>2. QED BY <2>1, <1>1 DEF Invs, InterruptReachesTasks
<1>9. QED BY <1>4, <1>5, <1>6, <1>7, <1>8 DEF Invs

\* abort_all_tasks: a token is cancelled.
LEMMA CancelTaskKeeps == ASSUME TypeOK, Invs, CancelTask PROVE Invs'
<1>0. AbortInv BY DEF Invs
<1>1. /\ actor[0].pc = "cancel" /\ actor'[0].pc = "abort" /\ actor'[0].tasks = actor[0].tasks
      /\ \A b \in Actor : b # 0 => actor'[b] = actor[b]
      /\ turn'[Head(actor[0].tasks)].cancelled
      /\ \A u \in Turn : turn'[u].pc = turn[u].pc /\ (turn[u].cancelled => turn'[u].cancelled)
      /\ UNCHANGED <<active, started>>
  BY <1>0, CancelTaskDoes
<1>2. Turn \subseteq Actor /\ 0 \notin Turn BY Bounds
<1>3. ActiveInv' BY <1>1 DEF Invs, ActiveInv
<1>4. AbortInv' BY <1>1 DEF Invs, AbortInv
<1>5. StartInv' BY <1>1, <1>2 DEF Invs, StartInv
<1>6. ReservationOwned' BY <1>1 DEF Invs, ReservationOwned, Starting
<1>7. InterruptReachesTasks' BY <1>1 DEF Invs, InterruptReachesTasks
<1>8. QED BY <1>3, <1>4, <1>5, <1>6, <1>7 DEF Invs

\* abort_all_tasks: a handle is aborted.
LEMMA AbortTaskKeeps == ASSUME TypeOK, Invs, AbortTask PROVE Invs'
<1> DEFINE t == Head(actor[0].tasks)
<1>0. AbortInv BY DEF Invs
<1>1. /\ actor[0].pc = "abort" /\ actor[0].tasks # <<>> /\ t \in Turn
      /\ actor'[0].tasks = Tail(actor[0].tasks)
      /\ actor'[0].pc = IF Tail(actor[0].tasks) = <<>> THEN "clear" ELSE "cancel"
      /\ \A b \in Actor : b # 0 => actor'[b] = actor[b]
      /\ \A u \in Turn : turn'[u].cancelled = turn[u].cancelled /\ (u # t => turn'[u] = turn[u])
      /\ turn'[t].pc = turn[t].pc \/ (turn[t].pc \notin Stopped /\ turn'[t].pc = "killed")
      /\ UNCHANGED <<active, started>>
  BY <1>0, AbortTaskDoes
<1>2. Turn \subseteq Actor /\ 0 \notin Turn /\ 0 \in Actor BY Bounds
<1>3. turn[t].cancelled BY <1>0, <1>1 DEF AbortInv
<1>4. Range(actor[0].tasks) \subseteq {t} \cup Range(Tail(actor[0].tasks))
  <2>1. actor[0].tasks \in Seq(Turn) BY <1>2 DEF TypeOK, Thread
  <2>2. QED BY <2>1, <1>1, RangeTail
<1> HIDE DEF t
<1>5. ActiveInv' BY <1>1 DEF Invs, ActiveInv
<1>6. AbortInv' BY <1>1 DEF AbortInv
<1>7. StartInv'
  <2>1. ASSUME NEW u \in Turn PROVE /\ u > started' => turn'[u].pc = "none"
                                    /\ actor'[u].pc # "off" => turn'[u].pc = "done"
    <3>1. turn[u].pc \in {"none", "done"} => turn'[u].pc = turn[u].pc BY <1>1 DEF Stopped
    <3>2. QED BY <3>1, <1>1, <1>2 DEF Invs, StartInv
  <2>2. QED BY <2>1 DEF StartInv
<1>8. ReservationOwned' BY <1>1 DEF Invs, ReservationOwned, Starting
<1>9. InterruptReachesTasks'
  <2>1. ASSUME NEW u \in Turn, turn'[u].pc \in Unfinished, ~turn'[u].cancelled
        PROVE  u \in Range(active'.tasks) \cup Range(actor'[0].tasks)
    <3>1. u # t BY <2>1, <1>1, <1>3
    <3>2. u \in Range(active.tasks) \cup Range(actor[0].tasks)
      BY <2>1, <3>1, <1>1 DEF Invs, InterruptReachesTasks
    <3>3. QED BY <3>1, <3>2, <1>1, <1>4
  <2>2. QED BY <2>1 DEF InterruptReachesTasks
<1>10. QED BY <1>5, <1>6, <1>7, <1>8, <1>9 DEF Invs

\* abort_all_tasks: the turn state is cleared.
LEMMA ClearPendingKeeps == ASSUME TypeOK, Invs, ClearPending PROVE Invs'
<1>1. /\ actor[0].pc = "clear" /\ actor'[0].pc \in {"check", "drain"}
      /\ actor'[0].tasks = actor[0].tasks
      /\ \A b \in Actor : b # 0 => actor'[b] = actor[b]
      /\ UNCHANGED <<active, turn, started>>
  BY ClearPendingDoes DEF AfterAbort
<1>2. Turn \subseteq Actor /\ 0 \notin Turn BY Bounds
<1>3. ActiveInv' BY <1>1 DEF Invs, ActiveInv
<1>4. AbortInv' BY <1>1 DEF Invs, AbortInv
<1>5. StartInv' BY <1>1, <1>2 DEF Invs, StartInv
<1>6. ReservationOwned' BY <1>1 DEF Invs, ReservationOwned, Starting
<1>7. InterruptReachesTasks' BY <1>1 DEF Invs, InterruptReachesTasks
<1>8. QED BY <1>3, <1>4, <1>5, <1>6, <1>7 DEF Invs

\* A step of a task that leaves the active turn and the threads alone, or kills the task.
LEMMA TaskKeeps ==
  ASSUME TypeOK, Invs, NEW t \in Turn,
         turn[t].pc \notin Stopped, turn'[t].pc \in Unfinished => turn[t].pc \in Unfinished,
         \A u \in Turn : turn'[u].cancelled = turn[u].cancelled /\ (u # t => turn'[u] = turn[u]),
         UNCHANGED <<active, actor, started>>
  PROVE  Invs'
<1>1. ActiveInv' BY DEF Invs, ActiveInv
<1>2. AbortInv'
  <2>1. ASSUME actor[0].pc = "abort" PROVE turn'[Head(actor[0].tasks)].cancelled
    <3>1. actor[0].tasks \in Seq(Turn) /\ actor[0].tasks # <<>>
      BY <2>1, Bounds DEF Invs, AbortInv, TypeOK, Thread
    <3>2. Head(actor[0].tasks) \in Turn BY <3>1, RangeTail
    <3>3. QED BY <2>1, <3>2 DEF Invs, AbortInv
  <2>2. QED BY <2>1 DEF Invs, AbortInv
<1>3. StartInv' BY DEF Invs, StartInv, Stopped
<1>4. ReservationOwned' BY DEF Invs, ReservationOwned
<1>5. InterruptReachesTasks' BY DEF Invs, InterruptReachesTasks
<1>6. QED BY <1>1, <1>2, <1>3, <1>4, <1>5 DEF Invs

\* A task is removed from the active turn.
LEMMA RemoveTaskKeeps == ASSUME TypeOK, Invs, NEW t \in Turn, RemoveTask(t) PROVE Invs'
<1>1. /\ turn[t].pc = "finish" /\ turn'[t].pc \in {"take", "complete"}
      /\ \A u \in Turn : turn'[u].cancelled = turn[u].cancelled /\ (u # t => turn'[u] = turn[u])
      /\ \A u \in Turn : u # t /\ u \in Range(active.tasks) => u \in Range(active'.tasks)
      /\ active.tasks = <<>> => active'.tasks = <<>>
      /\ active' = NoTurn \/ (active'.ts = active.ts /\ (active.ts = 0 \/ active'.tasks # <<>>))
      /\ UNCHANGED <<actor, started>>
  BY RemoveTaskDoes
<1>2. ActiveInv' BY <1>1 DEF Invs, ActiveInv, NoTurn
<1>3. AbortInv'
  <2>1. ASSUME actor[0].pc = "abort" PROVE turn'[Head(actor[0].tasks)].cancelled
    <3>1. actor[0].tasks \in Seq(Turn) /\ actor[0].tasks # <<>>
      BY <2>1, Bounds DEF Invs, AbortInv, TypeOK, Thread
    <3>2. Head(actor[0].tasks) \in Turn BY <3>1, RangeTail
    <3>3. QED BY <2>1, <3>2, <1>1 DEF Invs, AbortInv
  <2>2. QED BY <2>1, <1>1 DEF Invs, AbortInv
<1>4. StartInv' BY <1>1 DEF Invs, StartInv
<1>5. ReservationOwned' BY <1>1 DEF ReservationOwned, NoTurn
<1>6. InterruptReachesTasks' BY <1>1 DEF Invs, InterruptReachesTasks, Unfinished
<1>7. QED BY <1>2, <1>3, <1>4, <1>5, <1>6 DEF Invs

\* A task is done and leaves its scheduler behind.
LEMMA SpawnSchedulerKeeps == ASSUME TypeOK, Invs, NEW t \in Turn, SpawnScheduler(t) PROVE Invs'
<1>1. /\ turn[t].pc = "schedule" /\ turn'[t].pc = "done"
      /\ \A u \in Turn : turn'[u].cancelled = turn[u].cancelled /\ (u # t => turn'[u] = turn[u])
      /\ \A b \in Actor : b # t => actor'[b] = actor[b]
      /\ UNCHANGED <<active, started>>
  BY SpawnSchedulerDoes
<1>2. Turn \subseteq Actor /\ 0 \notin Turn /\ 0 \in Actor BY Bounds
<1>3. actor'[0] = actor[0] BY <1>1, <1>2
<1>4. actor[t].pc = "off" BY <1>1 DEF Invs, StartInv
<1>5. ActiveInv' BY <1>1 DEF Invs, ActiveInv
<1>6. AbortInv'
  <2>1. ASSUME actor[0].pc = "abort" PROVE turn'[Head(actor[0].tasks)].cancelled
    <3>1. actor[0].tasks \in Seq(Turn) /\ actor[0].tasks # <<>>
      BY <2>1, <1>2 DEF Invs, AbortInv, TypeOK, Thread
    <3>2. Head(actor[0].tasks) \in Turn BY <3>1, RangeTail
    <3>3. QED BY <2>1, <3>2, <1>1 DEF Invs, AbortInv
  <2>2. QED BY <2>1, <1>3 DEF Invs, AbortInv
<1>7. StartInv'
  <2>1. ASSUME NEW u \in Turn PROVE /\ u > started' => turn'[u].pc = "none"
                                    /\ actor'[u].pc # "off" => turn'[u].pc = "done"
    BY <1>1, <1>2 DEF Invs, StartInv
  <2>2. QED BY <2>1 DEF StartInv
<1>8. ReservationOwned' BY <1>1, <1>4 DEF Invs, ReservationOwned, Starting
<1>9. InterruptReachesTasks' BY <1>1, <1>3 DEF Invs, InterruptReachesTasks, Unfinished
<1>10. QED BY <1>5, <1>6, <1>7, <1>8, <1>9 DEF Invs

-----------------------------------------------------------------------------
(* The theorems that hold for every session.                                 *)

\* The session starts in the invariant.
LEMMA InitInv == Init => IndInv
<1> SUFFICES ASSUME Init PROVE IndInv OBVIOUS
<1>1. TypeOK BY InitType
<1>2. 0 \in Actor /\ Turn \subseteq Actor /\ 0 \notin Turn BY Bounds
<1>3. ActiveInv /\ ReservationOwned BY DEF Init, NoTurn, ActiveInv, ReservationOwned
<1>4. AbortInv BY <1>2 DEF Init, AbortInv
<1>5. StartInv BY <1>2 DEF Init, StartInv
<1>6. InterruptReachesTasks BY DEF Init, InterruptReachesTasks, Unfinished
<1>7. QED BY <1>1, <1>3, <1>4, <1>5, <1>6 DEF IndInv

\* Every step keeps the invariant.
LEMMA NextInv == IndInv /\ [Next]_vars => IndInv'
<1> SUFFICES ASSUME IndInv, [Next]_vars PROVE IndInv' OBVIOUS
<1>0. TypeOK /\ Invs /\ ActiveInv /\ AbortInv BY DEF IndInv, Invs
<1>1. TypeOK' /\ Invs' => IndInv' BY DEF IndInv, Invs
<1>2. CASE ClientStep BY <1>0, <1>1, <1>2, ClientType, ClientAsks, AsksKeeps
<1>3. ASSUME NEW a \in Actor, ActorStep(a) PROVE IndInv'
  <2>1. CASE Prepares(a) /\ DataOK'
    <3>1. TypeOK' BY <2>1, <1>0 DEF TypeOK, DataOK, Prepares
    <3>2. QED BY <2>1, <3>1, <1>0, <1>1, PreparesKeeps
  <2>2. CASE AddTask(a) BY <2>2, <1>0, <1>1, AddTaskDoes, AddTaskKeeps
  <2>3. CASE TakeActiveTurn BY <2>3, <1>0, <1>1, TakeActiveTurnDoes, TakeActiveTurnKeeps
  <2>4. CASE CancelTask BY <2>4, <1>0, <1>1, CancelTaskDoes, CancelTaskKeeps
  <2>5. CASE AbortTask BY <2>5, <1>0, <1>1, AbortTaskDoes, AbortTaskKeeps
  <2>6. CASE ClearPending BY <2>6, <1>0, <1>1, ClearPendingDoes, ClearPendingKeeps
  <2>7. QED BY <1>0, <1>3, <2>1, <2>2, <2>3, <2>4, <2>5, <2>6, PreparesCases
<1>4. ASSUME NEW t \in Turn, TaskStep(t) PROVE IndInv'
  <2>1. CASE Works(t) /\ DataOK'
    <3>1. /\ TypeOK' /\ turn[t].pc \notin Stopped
          /\ turn'[t].pc \in Unfinished => turn[t].pc \in Unfinished
          /\ \A u \in Turn : turn'[u].cancelled = turn[u].cancelled /\ (u # t => turn'[u] = turn[u])
          /\ UNCHANGED <<active, actor, started>>
      BY <2>1, <1>0, WorksDoes
    <3>2. QED BY <3>1, <1>0, <1>1, TaskKeeps
  <2>2. CASE RemoveTask(t) BY <2>2, <1>0, <1>1, RemoveTaskDoes, RemoveTaskKeeps
  <2>3. CASE SpawnScheduler(t) BY <2>3, <1>0, <1>1, SpawnSchedulerDoes, SpawnSchedulerKeeps
  <2>4. CASE Kill(t)
    <3>1. /\ TypeOK' /\ turn[t].pc \notin Stopped /\ turn'[t].pc = "killed"
          /\ \A u \in Turn : turn'[u].cancelled = turn[u].cancelled /\ (u # t => turn'[u] = turn[u])
          /\ UNCHANGED <<active, actor, started>>
      BY <2>4, <1>0, KillDoes
    <3>2. turn'[t].pc \in Unfinished => turn[t].pc \in Unfinished BY <3>1 DEF Unfinished
    <3>3. QED BY <3>1, <3>2, <1>0, <1>1, TaskKeeps
  <2>5. QED BY <1>0, <1>4, <2>1, <2>2, <2>3, <2>4, WorksCases
<1>5. CASE UNCHANGED vars
  <2>1. TypeOK' BY <1>0, <1>5 DEF TypeOK, vars
  <2>2. Invs'
    BY <1>0, <1>5 DEF Invs, vars, ActiveInv, AbortInv, StartInv, ReservationOwned, InterruptReachesTasks
  <2>3. QED BY <2>1, <2>2, <1>1
<1>6. QED BY <1>2, <1>3, <1>4, <1>5 DEF Next

\* The invariant of the specification.
LEMMA Invariance == Spec => []IndInv
BY InitInv, NextInv, PTL DEF Spec

\* The active turn, the turn states, tasks, threads and places of input keep their types.
THEOREM TypeCorrect == Spec => []TypeOK
<1>1. IndInv => TypeOK BY DEF IndInv
<1>2. QED BY <1>1, Invariance, PTL

\* An active turn without a task has somebody in start_task who will give it one.
THEOREM ReservationsOwned == Spec => []ReservationOwned
<1>1. IndInv => ReservationOwned BY DEF IndInv
<1>2. QED BY <1>1, Invariance, PTL

\* Every task that runs and was not cancelled is in the active turn, or in the list
\* that abort_all_tasks works through.
THEOREM InterruptsReach == Spec => []InterruptReachesTasks
<1>1. IndInv => InterruptReachesTasks BY DEF IndInv
<1>2. QED BY <1>1, Invariance, PTL

-----------------------------------------------------------------------------
(* A session that gets no mail marked trigger_turn, on a runtime that stops  *)
(* an aborted task at once and never suspends on_task_finished.              *)

\* Schedulers find nothing to do, so that the loop alone starts turns.
LoneLoop ==
  /\ \A t \in Turn : actor[t].pc \in {"off", "check"} /\ actor[t].then = "off"
  /\ actor[0].pc # "reserve"

\* Every task that runs is in a list, cancelled or not, and those in a list have begun
\* and are not about to take what their turn state still holds.
HeldInv ==
  /\ \A t \in Turn : turn[t].pc \in Unfinished => t \in Range(active.tasks) \cup Range(actor[0].tasks)
  /\ \A t \in Range(active.tasks) \cup Range(actor[0].tasks) : turn[t].pc \notin {"none", "take"}

\* The session is idle while tasks are aborted; nothing runs while a turn is started,
\* and the turn state that gets the pending input is the active one.
AloneInv ==
  /\ actor[0].pc \in {"cancel", "abort", "clear"} => active.ts = 0
  /\ actor[0].pc \in Starting => active.tasks = <<>>
  /\ actor[0].pc = "push" => active.ts = actor[0].ts /\ active.ts # 0

\* A task that was aborted has stopped.
DoomedInv == \A t \in Turn : turn[t].doomed => turn[t].pc \in {"done", "killed"}

\* Input that a turn holds is held by a turn state.
IdInv == \A i \in Item : where[i].at = "turn" => where[i].id # 0

\* The inductive invariant of such a session, above IndInv.
SoloInv == LoneLoop /\ HeldInv /\ AloneInv /\ DoomedInv /\ IdInv /\ InputReachable

\* Input that a step puts into a turn goes to the active one.
Flows ==
  \A i \in Item : where'[i].at = "turn" =>
    \/ where[i].at = "turn" /\ where'[i].id = where[i].id
    \/ where'[i].id = active'.ts /\ active'.ts # 0

\* Whoever holds a turn state keeps it.
HoldersKept ==
  /\ active.ts \in {0, active'.ts}
  /\ actor[0].pc \in {"cancel", "abort", "clear"} =>
       actor'[0].pc \in {"cancel", "abort", "clear"} /\ actor'[0].ts = actor[0].ts
  /\ \A t \in Turn : turn[t].pc = "take" => turn'[t].pc = "take" /\ turn'[t].ts = turn[t].ts

\* Such a step keeps input reachable.
LEMMA FlowsKeep == ASSUME IdInv, InputReachable, Flows, HoldersKept PROVE IdInv' /\ InputReachable'
<1>1. ASSUME NEW i \in Item, where'[i].at = "turn"
      PROVE  /\ where'[i].id # 0
             /\ \/ where'[i].id = active'.ts
                \/ where'[i].id = actor'[0].ts /\ actor'[0].pc \in {"cancel", "abort", "clear"}
                \/ \E t \in Turn : turn'[t].ts = where'[i].id /\ turn'[t].pc = "take"
  <2>1. CASE where'[i].id = active'.ts /\ active'.ts # 0 BY <2>1
  <2>2. CASE where[i].at = "turn" /\ where'[i].id = where[i].id
    <3>1. where[i].id # 0 BY <2>2 DEF IdInv
    <3>2. CASE where[i].id = active.ts BY <3>1, <3>2, <2>2 DEF HoldersKept
    <3>3. CASE where[i].id = actor[0].ts /\ actor[0].pc \in {"cancel", "abort", "clear"}
      BY <3>1, <3>3, <2>2 DEF HoldersKept
    <3>4. ASSUME NEW t \in Turn, turn[t].ts = where[i].id, turn[t].pc = "take"
          PROVE  turn'[t].ts = where'[i].id /\ turn'[t].pc = "take"
      BY <3>4, <2>2 DEF HoldersKept
    <3>5. QED BY <2>2, <3>1, <3>2, <3>3, <3>4 DEF InputReachable
  <2>3. QED BY <1>1, <2>1, <2>2 DEF Flows
<1>2. QED BY <1>1 DEF IdInv, InputReachable

\* Moving items anywhere but into a turn lets none flow into one.
LEMMA MoveFlows ==
  ASSUME TypeOK, NEW S, NEW at, NEW id, Move(S, at, id),
         at # "turn" \/ (id = active'.ts /\ active'.ts # 0)
  PROVE  Flows
BY DEF Flows, Move, TypeOK

\* The operations of the client put a prompt into the active turn, if anywhere.
LEMMA ClientFlows == ASSUME TypeOK, ClientStep PROVE Flows
<1>1. ASSUME NEW p \in Prompt, Steerable, Steer(p), active' = active PROVE Flows
  <2>1. Move({p}, "turn", active.ts) /\ active.ts # 0 BY <1>1 DEF Steer, Steerable, HasTask
  <2>2. QED BY <1>1, <2>1, MoveFlows
<1>2. ASSUME UNCHANGED where PROVE Flows BY <1>2 DEF Flows
<1>3. ASSUME NEW p \in Prompt, SteerInput(p) PROVE Flows BY <1>1, <1>3 DEF SteerInput
<1>4. ASSUME NEW p \in Prompt, UserInput(p) PROVE Flows
  <2>1. CASE Move({p}, "prompt", 0) BY <2>1, MoveFlows
  <2>2. CASE Move({p}, "rejected", 0) BY <2>2, MoveFlows
  <2>3. QED BY <1>1, <1>4, <2>1, <2>2 DEF UserInput
<1>5. ASSUME NEW m \in Mail, InterAgentCommunication(m) PROVE Flows
  <2>1. Move({m}, "mailbox", 0) BY <1>5 DEF InterAgentCommunication
  <2>2. QED BY <2>1, MoveFlows
<1>6. QED BY <1>2, <1>3, <1>4, <1>5 DEF ClientStep, Standalone, Interrupt, Shutdown

\* So do the steps of a task, and none but TakeLeftover is one of a task that has to
\* take its leftovers.
LEMMA TaskFlows ==
  ASSUME TypeOK, NEW t \in Turn, TaskStep(t)
  PROVE  \/ RemoveTask(t) \/ SpawnScheduler(t) \/ Kill(t) \/ TakeLeftover(t)
         \/ Flows /\ turn[t].pc # "take"
<1>1. ASSUME UNCHANGED where PROVE Flows BY <1>1 DEF Flows
<1>2. CASE StartRun(t)
  <2>1. CASE Move(ItemsAt("own", t), "cleared", 0) BY <1>2, <2>1, MoveFlows DEF StartRun
  <2>2. QED BY <1>1, <1>2, <2>1 DEF StartRun
<1>3. CASE EnterRunTurn(t)
  <2>1. CASE Move(ItemsAt("own", t), "history", 0) BY <1>3, <2>1, MoveFlows DEF EnterRunTurn
  <2>2. CASE Move(ItemsAt("own", t), "blocked", 0) BY <1>3, <2>2, MoveFlows DEF EnterRunTurn
  <2>3. QED BY <1>1, <1>3, <2>1, <2>2 DEF EnterRunTurn
<1>4. CASE ReturnEarly(t)
  <2>1. Move(ItemsAt("own", t), "lost", 0) BY <1>4 DEF ReturnEarly
  <2>2. QED BY <1>4, <2>1, MoveFlows DEF ReturnEarly
<1>5. CASE GetPendingInput(t)
  <2>1. Move(TurnInput, "task", t) BY <1>5 DEF GetPendingInput
  <2>2. QED BY <1>5, <2>1, MoveFlows DEF GetPendingInput
<1>6. CASE GetMail(t)
  <2>1. Move(InMailbox, "task", t) BY <1>6 DEF GetMail
  <2>2. QED BY <1>6, <2>1, MoveFlows DEF GetMail
<1>7. CASE InspectPendingInput(t)
  <2>1. turn[t].pc = "inspect" /\ active' = active BY <1>7 DEF InspectPendingInput
  <2>2. CASE Move(ItemsAt("task", t), "history", 0) BY <2>1, <2>2, MoveFlows
  <2>3. CASE ~Move(ItemsAt("task", t), "history", 0)
    <3>1. PICK before \in SUBSET ItemsAt("task", t), p \in Prompt :
            where' = [i \in Item |->
              CASE i \in before -> [at |-> "history", id |-> 0]
                [] i = p -> [at |-> "blocked", id |-> 0]
                [] i \in ItemsAt("task", t) \ (before \cup {p}) ->
                     IF active.ts = 0 THEN [at |-> "lost", id |-> 0] ELSE [at |-> "turn", id |-> active.ts]
                [] OTHER -> where[i]]
      BY <1>7, <2>3 DEF InspectPendingInput
    <3>2. ASSUME NEW i \in Item
          PROVE  \/ where'[i].at # "turn" \/ where'[i] = where[i]
                 \/ where'[i].id = active.ts /\ active.ts # 0
      BY <3>1
    <3>3. Flows BY <3>2, <2>1 DEF Flows
    <3>4. QED BY <2>1, <3>3
  <2>4. QED BY <2>2, <2>3
<1>8. CASE RecordLeftover(t)
  <2>1. turn[t].pc = "record" BY <1>8 DEF RecordLeftover
  <2>2. ASSUME NEW i \in Item PROVE where'[i].at # "turn" \/ where'[i] = where[i]
    BY <1>8 DEF RecordLeftover
  <2>3. Flows BY <2>2 DEF Flows
  <2>4. QED BY <2>1, <2>3
<1>9. CASE OutputToolCall(t) \/ OutputFinalAnswer(t) \/ SampleFails(t) \/ FollowUp(t)
  <2>1. UNCHANGED where /\ turn[t].pc \in {"sample", "tools"}
    BY <1>9 DEF OutputToolCall, OutputFinalAnswer, SampleFails, FollowUp, Sampling
  <2>2. QED BY <2>1, <1>1
<1>10. CASE RunAgain(t) \/ CheckCancelled(t) \/ SendTurnComplete(t)
  <2>1. UNCHANGED where /\ turn[t].pc \in {"check", "returned", "complete"}
    BY <1>10 DEF RunAgain, CheckCancelled, SendTurnComplete
  <2>2. QED BY <2>1, <1>1
<1>11. QED BY <1>2, <1>3, <1>4, <1>5, <1>6, <1>7, <1>8, <1>9, <1>10 DEF TaskStep

\* No mail triggers a turn, an aborted task takes no further step, and no await of
\* on_task_finished yields.
Quiet == Trigger = {} /\ AbortIsPrompt /\ ~FinishMayPend

\* What the lists hold are turns.
LEMMA ListedTurns == ASSUME TypeOK PROVE Range(active.tasks) \cup Range(actor[0].tasks) \subseteq Turn
<1>1. active.tasks \in Seq(Turn) /\ actor[0].tasks \in Seq(Turn) BY Bounds DEF TypeOK, Thread
<1>2. QED BY <1>1, InRange

\* An operation of the client.
LEMMA ClientSolo ==
  ASSUME TypeOK, SoloInv, ClientStep PROVE SoloInv'
<1>1. Asks BY ClientAsks
<1>2. 0 \in Actor /\ 0 \notin Turn /\ Turn \subseteq Actor BY Bounds
<1>3. UNCHANGED <<active, turn, started>> /\ actor'[0].tasks = actor[0].tasks
      /\ \A t \in Turn : actor'[t] = actor[t]
  BY <1>1, <1>2 DEF Asks
<1>4. actor' = actor \/ (actor[0].pc = "idle" /\ actor'[0].pc \in {"idle", "take", "check"})
  BY <1>1 DEF Asks
<1>5. LoneLoop' BY <1>3, <1>4 DEF SoloInv, LoneLoop
<1>6. HeldInv' BY <1>3 DEF SoloInv, HeldInv
<1>7. AloneInv' BY <1>3, <1>4 DEF SoloInv, AloneInv, Starting
<1>8. DoomedInv' BY <1>3 DEF SoloInv, DoomedInv
<1>9. HoldersKept BY <1>3, <1>4 DEF HoldersKept
<1>10. IdInv' /\ InputReachable' BY <1>9, ClientFlows, FlowsKeep DEF SoloInv
<1>11. QED BY <1>5, <1>6, <1>7, <1>8, <1>10 DEF SoloInv

\* A look for pending work finds none.
LEMMA CheckSolo ==
  ASSUME Quiet, TypeOK, SoloInv, NEW a \in Actor, CheckPendingWork(a) PROVE SoloInv'
<1>0. 0 \in Actor /\ 0 \notin Turn /\ Turn \subseteq Actor BY Bounds
<1>1. Goto(a, actor[a].then) /\ actor[a].pc = "check"
      /\ UNCHANGED <<active, phase, where, turn, ends, started, budget>>
  BY DEF CheckPendingWork, Quiet
<1>2. actor[a].then \in {"off", "idle", "exit"} /\ actor[a].then \in ActorPc
  BY Places DEF TypeOK, Thread
<1>3. /\ actor'[a].pc = actor[a].then /\ \A b \in Actor : b # a => actor'[b] = actor[b]
      /\ actor'[a].tasks = actor[a].tasks /\ actor'[a].ts = actor[a].ts
      /\ actor'[a].then = actor[a].then
  BY <1>1, <1>2, GotoType
<1>4. actor'[0].tasks = actor[0].tasks BY <1>0, <1>3
<1>5. actor'[0] = actor[0] \/ (actor[0].pc = "check" /\ actor'[0].pc \in {"off", "idle", "exit"})
  BY <1>0, <1>1, <1>2, <1>3
<1>6. LoneLoop'
  <2>1. \A t \in Turn : actor'[t].pc \in {"off", "check"} /\ actor'[t].then = "off"
    BY <1>0, <1>3 DEF SoloInv, LoneLoop
  <2>2. QED BY <2>1, <1>5 DEF SoloInv, LoneLoop
<1>7. HeldInv' BY <1>1, <1>4 DEF SoloInv, HeldInv
<1>8. AloneInv' BY <1>1, <1>5 DEF SoloInv, AloneInv, Starting
<1>9. DoomedInv' BY <1>1 DEF SoloInv, DoomedInv
<1>10. HoldersKept /\ Flows BY <1>1, <1>5 DEF HoldersKept, Flows
<1>11. IdInv' /\ InputReachable' BY <1>10, FlowsKeep DEF SoloInv
<1>12. QED BY <1>6, <1>7, <1>8, <1>9, <1>11 DEF SoloInv

\* The loop is the only one in start_task.
LEMMA LoopStarts ==
  ASSUME LoneLoop, NEW a \in Actor, actor[a].pc \in {"reserve"} \cup Starting
  PROVE  a = 0 /\ actor[a].pc # "reserve"
<1>1. a = 0 \/ a \in Turn BY Bounds DEF Actor, Turn
<1>2. QED BY <1>1 DEF LoneLoop, Starting

\* The loop takes the pending input, attaches a turn state and puts the input there.
LEMMA StartSolo ==
  ASSUME TypeOK, Invs, SoloInv, Prepares(0),
         DrainForStart(0) \/ DrainMailForStart(0) \/ AttachTurnState(0) \/ PushPendingInput(0)
  PROVE  SoloInv'
<1>0. 0 \in Actor /\ 0 \notin Turn /\ Turn \subseteq Actor /\ 0 \notin TsId BY Bounds
<1>1. /\ actor[0].pc \in Starting /\ actor'[0].pc \in Starting
      /\ actor'[0].tasks = actor[0].tasks /\ active'.tasks = active.tasks
      /\ \A t \in Turn : actor'[t] = actor[t]
      /\ UNCHANGED <<turn, started>>
  BY <1>0 DEF Prepares, Starting, DrainForStart, DrainMailForStart, AttachTurnState, PushPendingInput
<1>2. actor[0].pc \notin {"cancel", "abort", "clear", "reserve"}
      /\ actor'[0].pc \notin {"cancel", "abort", "clear", "reserve"}
  BY <1>1 DEF Starting
<1>3. LoneLoop' BY <1>1, <1>2 DEF SoloInv, LoneLoop
<1>4. HeldInv' BY <1>1 DEF SoloInv, HeldInv
<1>5. DoomedInv' BY <1>1 DEF SoloInv, DoomedInv
<1>6. /\ active.ts \in {0, active'.ts} /\ Flows
      /\ actor'[0].pc = "push" => active'.ts = actor'[0].ts /\ active'.ts # 0
  <2>1. CASE DrainForStart(0)
    <3>1. Move(TurnInput, "actor", 0) /\ active' = active BY <2>1 DEF DrainForStart
    <3>2. Flows BY <3>1, MoveFlows
    <3>3. actor'[0].pc # "push"
      BY <2>1, <1>0 DEF DrainForStart, Goto, TypeOK, Thread
    <3>4. QED BY <3>1, <3>2, <3>3
  <2>2. CASE DrainMailForStart(0)
    <3>1. Move(InMailbox, "actor", 0) /\ active' = active BY <2>2 DEF DrainMailForStart
    <3>2. Flows BY <3>1, MoveFlows
    <3>3. actor'[0].pc # "push"
      BY <2>2, <1>0 DEF DrainMailForStart, Goto, TypeOK, Thread
    <3>4. QED BY <3>1, <3>2, <3>3
  <2>3. CASE AttachTurnState(0)
    <3>1. /\ StateLeft /\ active' = GetOrInsert /\ UNCHANGED where
          /\ actor' = [actor EXCEPT ![0].pc = "push", ![0].ts = GetOrInsert.ts]
      BY <2>3 DEF AttachTurnState
    <3>2. active'.ts \in TsId /\ active.ts \in {0, active'.ts} BY <3>1, FreshType
    <3>3. actor'[0].ts = active'.ts BY <3>1, <1>0 DEF TypeOK, Thread
    <3>4. Flows BY <3>1 DEF Flows
    <3>5. QED BY <3>2, <3>3, <3>4, <1>0
  <2>4. CASE PushPendingInput(0)
    <3>1. /\ Move(ItemsAt("actor", 0), "turn", actor[0].ts) /\ active' = active
          /\ actor[0].pc = "push" /\ actor' = [actor EXCEPT ![0].pc = "add", ![0].ts = 0]
      BY <2>4 DEF PushPendingInput
    <3>2. active.ts = actor[0].ts /\ active.ts # 0 BY <3>1 DEF SoloInv, AloneInv
    <3>3. Flows BY <3>1, <3>2, MoveFlows
    <3>4. actor'[0].pc # "push" BY <3>1, <1>0 DEF TypeOK, Thread
    <3>5. QED BY <3>1, <3>3, <3>4
  <2>5. QED BY <2>1, <2>2, <2>3, <2>4
<1>7. AloneInv' BY <1>1, <1>2, <1>6 DEF SoloInv, AloneInv
<1>8. HoldersKept BY <1>1, <1>2, <1>6 DEF HoldersKept
<1>9. IdInv' /\ InputReachable' BY <1>6, <1>8, FlowsKeep DEF SoloInv
<1>10. QED BY <1>3, <1>4, <1>5, <1>7, <1>9 DEF SoloInv

\* The loop adds the task.
LEMMA AddTaskSolo ==
  ASSUME TypeOK, Invs, SoloInv, AddTask(0) PROVE SoloInv'
<1>0. 0 \in Actor /\ 0 \notin Turn /\ Turn \subseteq Actor /\ 0 \notin TsId BY Bounds
<1>1. ActiveInv BY DEF Invs
<1>2. /\ started + 1 \in Turn /\ started' = started + 1
      /\ Range(active'.tasks) = Range(active.tasks) \cup {started + 1}
      /\ turn'[started + 1].pc = "spawned"
      /\ \A u \in Turn : u # started + 1 => turn'[u] = turn[u]
      /\ actor[0].pc = "add" /\ actor'[0].pc \in {"off", "idle", "exit"}
      /\ actor'[0].tasks = actor[0].tasks
      /\ \A b \in Actor : b # 0 => actor'[b] = actor[b]
  BY <1>0, <1>1, AddTaskDoes
<1>3. turn[started + 1].pc = "none"
  BY <1>2 DEF Invs, StartInv, TypeOK
<1>4. turn'[started + 1].doomed = turn[started + 1].doomed
  BY <1>2 DEF AddTask, TypeOK, Task
<1>5. LoneLoop' BY <1>0, <1>2 DEF SoloInv, LoneLoop
<1>6. HeldInv'
  <2>1. ASSUME NEW u \in Turn, turn'[u].pc \in Unfinished
        PROVE  u \in Range(active'.tasks) \cup Range(actor'[0].tasks)
    BY <2>1, <1>2 DEF SoloInv, HeldInv
  <2>2. ASSUME NEW u \in Range(active'.tasks) \cup Range(actor'[0].tasks)
        PROVE  turn'[u].pc \notin {"none", "take"}
    <3>1. CASE u = started + 1 BY <3>1, <1>2
    <3>2. CASE u # started + 1
      <4>1. u \in Range(active.tasks) \cup Range(actor[0].tasks) BY <3>2, <2>2, <1>2
      <4>2. u \in Turn BY <4>1, ListedTurns
      <4>3. QED BY <4>1, <4>2, <3>2, <1>2 DEF SoloInv, HeldInv
    <3>3. QED BY <3>1, <3>2
  <2>3. QED BY <2>1, <2>2 DEF HeldInv
<1>7. AloneInv' BY <1>2 DEF AloneInv, Starting
<1>8. DoomedInv'
  <2>1. ~turn[started + 1].doomed BY <1>2, <1>3 DEF SoloInv, DoomedInv
  <2>2. QED BY <2>1, <1>2, <1>4 DEF SoloInv, DoomedInv
<1>9. Flows
  <2>1. Move(ItemsAt("prompt", 0), "own", started + 1) BY DEF AddTask
  <2>2. QED BY <2>1, MoveFlows
<1>10. active.ts \in {0, active'.ts}
  <2>1. active'.ts = GetOrInsert.ts
    <3>1. StateLeft /\ active' = [GetOrInsert EXCEPT !.tasks = Append(@, started + 1)] BY DEF AddTask
    <3>2. GetOrInsert \in [ts : TsId, tasks : Seq(Turn)] BY <3>1, FreshType
    <3>3. QED BY <3>1, <3>2
  <2>2. StateLeft BY DEF AddTask
  <2>3. QED BY <2>1, <2>2, FreshType
<1>11. HoldersKept BY <1>2, <1>3, <1>10 DEF HoldersKept
<1>12. IdInv' /\ InputReachable' BY <1>9, <1>11, FlowsKeep DEF SoloInv
<1>13. QED BY <1>5, <1>6, <1>7, <1>8, <1>12 DEF SoloInv

\* abort_all_tasks: the turn is taken, and its input with it.
LEMMA TakeActiveTurnSolo == ASSUME TypeOK, Invs, SoloInv, TakeActiveTurn PROVE SoloInv'
<1>0. 0 \in Actor /\ 0 \notin Turn /\ Turn \subseteq Actor BY Bounds
<1>1. /\ active' = NoTurn /\ actor[0].pc = "take"
      /\ actor'[0].tasks = active.tasks /\ actor'[0].ts = active.ts
      /\ actor'[0].pc = IF active.ts = 0 THEN AfterAbort
                        ELSE IF active.tasks = <<>> THEN "clear" ELSE "cancel"
      /\ \A b \in Actor : b # 0 => actor'[b] = actor[b]
      /\ UNCHANGED <<where, turn>>
  BY TakeActiveTurnDoes
<1>2. actor[0].tasks = <<>> BY <1>1 DEF Invs, AbortInv
<1>3. Range(actor[0].tasks) = {} /\ Range(active'.tasks) = {} BY <1>1, <1>2 DEF Range, NoTurn
<1>4. actor'[0].pc \in {"check", "drain", "clear", "cancel"} BY <1>1 DEF AfterAbort
<1>5. LoneLoop' BY <1>0, <1>1, <1>4 DEF SoloInv, LoneLoop
<1>6. HeldInv' BY <1>1, <1>3 DEF SoloInv, HeldInv
<1>7. AloneInv' BY <1>1, <1>4 DEF AloneInv, NoTurn
<1>8. DoomedInv' BY <1>1 DEF SoloInv, DoomedInv
<1>9. IdInv' BY <1>1 DEF SoloInv, IdInv
<1>10. InputReachable'
  <2>1. ASSUME NEW i \in Item, where[i].at = "turn"
        PROVE  \/ where[i].id = actor'[0].ts /\ actor'[0].pc \in {"cancel", "abort", "clear"}
               \/ \E t \in Turn : turn'[t].ts = where[i].id /\ turn'[t].pc = "take"
    <3>1. where[i].id # 0 BY <2>1 DEF SoloInv, IdInv
    <3>2. CASE where[i].id = active.ts BY <3>1, <3>2, <1>1
    <3>3. CASE \E t \in Turn : turn[t].ts = where[i].id /\ turn[t].pc = "take" BY <3>3, <1>1
    <3>4. QED BY <2>1, <3>2, <3>3, <1>1 DEF SoloInv, InputReachable
  <2>2. QED BY <2>1, <1>1 DEF InputReachable
<1>11. QED BY <1>5, <1>6, <1>7, <1>8, <1>9, <1>10 DEF SoloInv

\* abort_all_tasks: a token is cancelled.
LEMMA CancelTaskSolo == ASSUME TypeOK, Invs, SoloInv, CancelTask PROVE SoloInv'
<1>0. 0 \in Actor /\ 0 \notin Turn /\ Turn \subseteq Actor /\ AbortInv BY Bounds DEF Invs
<1>1. /\ actor[0].pc = "cancel" /\ actor'[0].pc = "abort" /\ actor'[0].tasks = actor[0].tasks
      /\ actor'[0].ts = actor[0].ts
      /\ \A b \in Actor : b # 0 => actor'[b] = actor[b]
      /\ \A u \in Turn : /\ turn'[u].pc = turn[u].pc /\ turn'[u].doomed = turn[u].doomed
                         /\ turn'[u].ts = turn[u].ts
      /\ UNCHANGED <<active, where>>
  BY <1>0, CancelTaskDoes
<1>2. LoneLoop' BY <1>0, <1>1 DEF SoloInv, LoneLoop
<1>3. HeldInv' BY <1>1, ListedTurns DEF SoloInv, HeldInv
<1>4. AloneInv' BY <1>1 DEF SoloInv, AloneInv, Starting
<1>5. DoomedInv' BY <1>1 DEF SoloInv, DoomedInv
<1>6. HoldersKept /\ Flows BY <1>1 DEF HoldersKept, Flows
<1>7. IdInv' /\ InputReachable' BY <1>6, FlowsKeep DEF SoloInv
<1>8. QED BY <1>2, <1>3, <1>4, <1>5, <1>7 DEF SoloInv

\* abort_all_tasks: a handle is aborted, and its task takes no further step.
LEMMA AbortTaskSolo == ASSUME Quiet, TypeOK, Invs, SoloInv, AbortTask PROVE SoloInv'
<1> DEFINE t == Head(actor[0].tasks)
<1>0. 0 \in Actor /\ 0 \notin Turn /\ Turn \subseteq Actor /\ AbortInv BY Bounds DEF Invs
<1>1. /\ actor[0].pc = "abort" /\ actor[0].tasks # <<>> /\ t \in Turn
      /\ actor'[0].tasks = Tail(actor[0].tasks) /\ actor'[0].pc \in {"clear", "cancel"}
      /\ actor'[0].ts = actor[0].ts
      /\ \A b \in Actor : b # 0 => actor'[b] = actor[b]
      /\ \A u \in Turn : u # t => turn'[u] = turn[u]
      /\ UNCHANGED active
  BY <1>0, AbortTaskDoes
<1>2. \/ turn[t].pc \notin Stopped /\ turn'[t].pc = "killed" /\ Move(InHand(t), "lost", 0)
      \/ /\ turn[t].pc \in Stopped /\ turn'[t].pc = turn[t].pc /\ turn'[t].ts = turn[t].ts
         /\ UNCHANGED where
  BY <1>0, AbortTaskDoes DEF Quiet
<1>3. /\ Range(actor[0].tasks) \subseteq {t} \cup Range(Tail(actor[0].tasks))
      /\ Range(Tail(actor[0].tasks)) \subseteq Range(actor[0].tasks) /\ t \in Range(actor[0].tasks)
  <2>1. actor[0].tasks \in Seq(Turn) BY <1>0 DEF TypeOK, Thread
  <2>2. t = actor[0].tasks[1] /\ 1 \in 1..Len(actor[0].tasks) BY <1>1, <2>1
  <2>3. t \in Range(actor[0].tasks) BY <2>1, <2>2, InRange
  <2>4. QED BY <2>1, <2>3, <1>1, RangeTail
<1> HIDE DEF t
<1>4. turn[t].pc \notin {"none", "take"} /\ turn'[t].pc \in {"done", "killed"}
  BY <1>2, <1>3 DEF SoloInv, HeldInv, Stopped
<1>5. LoneLoop' BY <1>0, <1>1 DEF SoloInv, LoneLoop
<1>6. HeldInv'
  <2>1. ASSUME NEW u \in Turn, turn'[u].pc \in Unfinished
        PROVE  u \in Range(active'.tasks) \cup Range(actor'[0].tasks)
    <3>1. u # t BY <2>1, <1>4 DEF Unfinished
    <3>2. QED BY <2>1, <3>1, <1>1, <1>3 DEF SoloInv, HeldInv
  <2>2. ASSUME NEW u \in Range(active'.tasks) \cup Range(actor'[0].tasks)
        PROVE  turn'[u].pc \notin {"none", "take"}
    <3>1. u \in Range(active.tasks) \cup Range(actor[0].tasks) BY <2>2, <1>1, <1>3
    <3>2. u \in Turn BY <3>1, ListedTurns
    <3>3. QED BY <3>1, <3>2, <1>1, <1>4 DEF SoloInv, HeldInv
  <2>3. QED BY <2>1, <2>2 DEF HeldInv
<1>7. AloneInv' BY <1>1 DEF SoloInv, AloneInv, Starting
<1>8. DoomedInv' BY <1>1, <1>4 DEF SoloInv, DoomedInv
<1>9. Flows
  <2>1. CASE Move(InHand(t), "lost", 0) BY <2>1, MoveFlows
  <2>2. CASE UNCHANGED where BY <2>2 DEF Flows
  <2>3. QED BY <2>1, <2>2, <1>2
<1>10. HoldersKept BY <1>1, <1>4 DEF HoldersKept
<1>11. IdInv' /\ InputReachable' BY <1>9, <1>10, FlowsKeep DEF SoloInv
<1>12. QED BY <1>5, <1>6, <1>7, <1>8, <1>11 DEF SoloInv

\* abort_all_tasks: what the turn state holds is dropped.
LEMMA ClearPendingSolo == ASSUME TypeOK, Invs, SoloInv, ClearPending PROVE SoloInv'
<1>0. 0 \in Actor /\ 0 \notin Turn /\ Turn \subseteq Actor BY Bounds
<1>1. /\ actor[0].pc = "clear" /\ actor'[0].pc \in {"check", "drain"}
      /\ actor'[0].tasks = actor[0].tasks
      /\ \A b \in Actor : b # 0 => actor'[b] = actor[b]
      /\ Move(ItemsAt("turn", actor[0].ts), "cleared", 0)
      /\ UNCHANGED <<active, turn>>
  BY ClearPendingDoes DEF AfterAbort
<1>2. LoneLoop' BY <1>0, <1>1 DEF SoloInv, LoneLoop
<1>3. HeldInv' BY <1>1 DEF SoloInv, HeldInv
<1>4. active.tasks = <<>> BY <1>1 DEF SoloInv, AloneInv, Invs, ActiveInv
<1>5. AloneInv' BY <1>1, <1>4 DEF AloneInv
<1>6. DoomedInv' BY <1>1 DEF SoloInv, DoomedInv
<1>7. ASSUME NEW i \in Item, where'[i].at = "turn"
      PROVE  where'[i] = where[i] /\ where[i].id # actor[0].ts
  <2>1. where'[i] = IF i \in ItemsAt("turn", actor[0].ts) THEN [at |-> "cleared", id |-> 0] ELSE where[i]
    BY <1>1 DEF Move
  <2>2. i \notin ItemsAt("turn", actor[0].ts) /\ where'[i] = where[i] BY <2>1, <1>7
  <2>3. where[i] = [at |-> where[i].at, id |-> where[i].id] BY DEF TypeOK, Place
  <2>4. QED BY <2>2, <2>3, <1>7 DEF ItemsAt
<1>8. IdInv' BY <1>7 DEF SoloInv, IdInv
<1>9. InputReachable' BY <1>1, <1>7 DEF SoloInv, InputReachable
<1>10. QED BY <1>2, <1>3, <1>5, <1>6, <1>8, <1>9 DEF SoloInv

\* A step of a task that leaves the active turn alone.
LEMMA WorksSolo ==
  ASSUME TypeOK, SoloInv, NEW t \in Turn, Works(t), DataOK',
         TakeLeftover(t) \/ (Flows /\ turn[t].pc # "take")
  PROVE  SoloInv'
<1>1. /\ turn[t].pc \notin Stopped /\ turn'[t].pc \notin {"none", "take"}
      /\ turn'[t].pc \in Unfinished => turn[t].pc \in Unfinished
      /\ \A u \in Turn : (u # t => turn'[u] = turn[u]) /\ turn'[u].doomed = turn[u].doomed
      /\ UNCHANGED <<active, actor, started>>
  BY WorksDoes
<1>2. LoneLoop' BY <1>1 DEF SoloInv, LoneLoop
<1>3. HeldInv'
  <2>1. \A u \in Turn : turn'[u].pc \in Unfinished => turn[u].pc \in Unfinished BY <1>1
  <2>2. \A u \in Turn : turn'[u].pc \in {"none", "take"} => turn[u].pc \in {"none", "take"} BY <1>1
  <2>3. QED BY <2>1, <2>2, <1>1, ListedTurns DEF SoloInv, HeldInv
<1>4. AloneInv' BY <1>1 DEF SoloInv, AloneInv
<1>5. DoomedInv' BY <1>1 DEF SoloInv, DoomedInv, Stopped
<1>6. IdInv' /\ InputReachable'
  <2>1. CASE Flows /\ turn[t].pc # "take"
    <3>1. HoldersKept BY <2>1, <1>1 DEF HoldersKept
    <3>2. QED BY <2>1, <3>1, FlowsKeep DEF SoloInv
  <2>2. CASE TakeLeftover(t)
    <3>1. ASSUME NEW i \in Item, where'[i].at = "turn"
          PROVE  where'[i] = where[i] /\ where[i].id # turn[t].ts
      <4>1. where'[i] = IF i \in ItemsAt("turn", turn[t].ts) THEN [at |-> "task", id |-> t] ELSE where[i]
        BY <2>2 DEF TakeLeftover, Move
      <4>2. i \notin ItemsAt("turn", turn[t].ts) /\ where'[i] = where[i] BY <4>1, <3>1
      <4>3. where[i] = [at |-> where[i].at, id |-> where[i].id] BY DEF TypeOK, Place
      <4>4. QED BY <4>2, <4>3, <3>1 DEF ItemsAt
    <3>2. IdInv' BY <3>1 DEF SoloInv, IdInv
    <3>3. ASSUME NEW i \in Item, where'[i].at = "turn"
          PROVE  \/ where'[i].id = active.ts
                 \/ where'[i].id = actor[0].ts /\ actor[0].pc \in {"cancel", "abort", "clear"}
                 \/ \E u \in Turn : turn'[u].ts = where'[i].id /\ turn'[u].pc = "take"
      <4>1. where'[i] = where[i] /\ where[i].id # turn[t].ts BY <3>1, <3>3
      <4>2. ASSUME NEW u \in Turn, turn[u].ts = where[i].id, turn[u].pc = "take"
            PROVE  turn'[u].ts = where[i].id /\ turn'[u].pc = "take"
        BY <4>1, <4>2, <1>1
      <4>3. QED BY <4>1, <4>2, <3>3 DEF SoloInv, InputReachable
    <3>4. QED BY <3>2, <3>3, <1>1 DEF InputReachable
  <2>3. QED BY <2>1, <2>2
<1>7. QED BY <1>2, <1>3, <1>4, <1>5, <1>6 DEF SoloInv

\* A task is removed: it takes the turn state of the active turn, if it was the last.
LEMMA RemoveTaskSolo ==
  ASSUME Quiet, TypeOK, Invs, SoloInv, NEW t \in Turn, RemoveTask(t) PROVE SoloInv'
<1>1. /\ turn[t].pc = "finish"
      /\ \A u \in Turn : u # t => turn'[u] = turn[u]
      /\ \A u \in Turn : u # t /\ u \in Range(active.tasks) => u \in Range(active'.tasks)
      /\ Range(active'.tasks) \subseteq Range(active.tasks)
      /\ active.tasks = <<>> => active'.tasks = <<>>
      /\ \/ /\ active.ts # 0 /\ active' = NoTurn
            /\ turn'[t].pc = "take" /\ turn'[t].ts = active.ts
         \/ active'.ts = active.ts /\ turn'[t].pc = "complete"
      /\ turn[t].doomed \/ ~turn'[t].doomed
      /\ UNCHANGED <<where, actor, started>>
  BY RemoveTaskDoes DEF Quiet
<1>2. t \in Range(active.tasks) \cup Range(actor[0].tasks)
  BY <1>1 DEF SoloInv, HeldInv, Unfinished
<1>3. actor[0].pc \notin Starting
  <2> SUFFICES ASSUME actor[0].pc \in Starting PROVE FALSE OBVIOUS
  <2>1. active.tasks = <<>> BY DEF SoloInv, AloneInv
  <2>2. actor[0].tasks = <<>> BY DEF Invs, AbortInv, Starting
  <2>3. QED BY <2>1, <2>2, <1>2 DEF Range
<1>4. LoneLoop' BY <1>1 DEF SoloInv, LoneLoop
<1>5. turn'[t].pc = "take" => Range(active'.tasks) = {} /\ Range(actor[0].tasks) = {}
  <2>1. ASSUME turn'[t].pc = "take" PROVE Range(active'.tasks) = {} /\ Range(actor[0].tasks) = {}
    <3>1. active.ts # 0 /\ active' = NoTurn BY <2>1, <1>1
    <3>2. actor[0].pc \notin {"cancel", "abort"} BY <3>1 DEF SoloInv, AloneInv
    <3>3. actor[0].tasks = <<>> BY <3>2 DEF Invs, AbortInv
    <3>4. QED BY <3>1, <3>3 DEF NoTurn, Range
  <2>2. QED BY <2>1
<1>6. HeldInv'
  <2>1. ASSUME NEW u \in Turn, turn'[u].pc \in Unfinished
        PROVE  u \in Range(active'.tasks) \cup Range(actor'[0].tasks)
    <3>1. u # t BY <2>1, <1>1 DEF Unfinished
    <3>2. QED BY <2>1, <3>1, <1>1 DEF SoloInv, HeldInv
  <2>2. ASSUME NEW u \in Range(active'.tasks) \cup Range(actor'[0].tasks)
        PROVE  turn'[u].pc \notin {"none", "take"}
    <3>1. u \in Range(active.tasks) \cup Range(actor[0].tasks) BY <2>2, <1>1
    <3>2. u \in Turn BY <3>1, ListedTurns
    <3>3. CASE u = t BY <3>3, <2>2, <1>1, <1>5
    <3>4. CASE u # t BY <3>1, <3>2, <3>4, <1>1 DEF SoloInv, HeldInv
    <3>5. QED BY <3>3, <3>4
  <2>3. QED BY <2>1, <2>2 DEF HeldInv
<1>7. AloneInv'
  <2>1. actor[0].pc \in {"cancel", "abort", "clear"} => active'.ts = 0
    BY <1>1 DEF SoloInv, AloneInv, NoTurn
  <2>2. actor'[0].pc = actor[0].pc /\ "push" \in Starting BY <1>1 DEF Starting
  <2>3. QED BY <2>1, <2>2, <1>3 DEF AloneInv
<1>8. DoomedInv' BY <1>1 DEF SoloInv, DoomedInv
<1>9. IdInv' BY <1>1 DEF SoloInv, IdInv
<1>10. InputReachable'
  <2>1. ASSUME NEW i \in Item, where[i].at = "turn"
        PROVE  \/ where[i].id = active'.ts
               \/ where[i].id = actor[0].ts /\ actor[0].pc \in {"cancel", "abort", "clear"}
               \/ \E u \in Turn : turn'[u].ts = where[i].id /\ turn'[u].pc = "take"
    <3>1. CASE where[i].id = active.ts BY <3>1, <1>1
    <3>2. ASSUME NEW u \in Turn, turn[u].ts = where[i].id, turn[u].pc = "take"
          PROVE  turn'[u].ts = where[i].id /\ turn'[u].pc = "take"
      BY <3>2, <1>1
    <3>3. QED BY <2>1, <3>1, <3>2 DEF SoloInv, InputReachable
  <2>2. QED BY <2>1, <1>1 DEF InputReachable
<1>11. QED BY <1>4, <1>6, <1>7, <1>8, <1>9, <1>10 DEF SoloInv

\* A task is done and leaves its scheduler behind.
LEMMA SpawnSchedulerSolo == ASSUME TypeOK, SoloInv, NEW t \in Turn, SpawnScheduler(t) PROVE SoloInv'
<1>0. 0 \in Actor /\ 0 \notin Turn /\ Turn \subseteq Actor BY Bounds
<1>1. /\ turn[t].pc = "schedule" /\ turn'[t].pc = "done"
      /\ \A u \in Turn : u # t => turn'[u] = turn[u]
      /\ actor'[t].pc = "check" /\ actor'[t].then = actor[t].then
      /\ \A b \in Actor : b # t => actor'[b] = actor[b]
      /\ UNCHANGED <<active, where>>
  BY SpawnSchedulerDoes
<1>2. actor'[0] = actor[0] BY <1>0, <1>1
<1>3. LoneLoop' BY <1>0, <1>1, <1>2 DEF SoloInv, LoneLoop
<1>4. HeldInv'
  <2>1. \A u \in Turn : turn'[u].pc \in Unfinished => turn[u].pc \in Unfinished BY <1>1 DEF Unfinished
  <2>2. \A u \in Turn : turn'[u].pc \in {"none", "take"} => turn[u].pc \in {"none", "take"} BY <1>1
  <2>3. QED BY <2>1, <2>2, <1>1, <1>2, ListedTurns DEF SoloInv, HeldInv
<1>5. AloneInv' BY <1>1, <1>2 DEF SoloInv, AloneInv
<1>6. DoomedInv' BY <1>1 DEF SoloInv, DoomedInv
<1>7. HoldersKept /\ Flows BY <1>1, <1>2 DEF HoldersKept, Flows
<1>8. IdInv' /\ InputReachable' BY <1>7, FlowsKeep DEF SoloInv
<1>9. QED BY <1>3, <1>4, <1>5, <1>6, <1>8 DEF SoloInv

\* Every step keeps the invariant of such a session.
LEMMA NextSolo == ASSUME Quiet PROVE IndInv /\ SoloInv /\ [Next]_vars => SoloInv'
<1> SUFFICES ASSUME IndInv, SoloInv, [Next]_vars PROVE SoloInv' OBVIOUS
<1>0. TypeOK /\ Invs /\ ActiveInv BY DEF IndInv, Invs
<1>1. CASE ClientStep BY <1>0, <1>1, ClientSolo
<1>2. ASSUME NEW a \in Actor, ActorStep(a) PROVE SoloInv'
  <2>1. CASE CheckPendingWork(a) BY <2>1, <1>0, CheckSolo
  <2>2. ~ReserveTurn(a)
    <3>1. actor[a].pc \in {"reserve"} \cup Starting => actor[a].pc # "reserve"
      BY LoopStarts DEF SoloInv
    <3>2. QED BY <3>1 DEF ReserveTurn
  <2>3. CASE DrainForStart(a) \/ DrainMailForStart(a) \/ AttachTurnState(a) \/ PushPendingInput(a)
    <3>1. actor[a].pc \in Starting
      BY <2>3 DEF Starting, DrainForStart, DrainMailForStart, AttachTurnState, PushPendingInput
    <3>2. a = 0 BY <3>1, LoopStarts DEF SoloInv
    <3>3. Prepares(0)
      <4>1. actor[0].pc \in {"drain", "mail", "attach", "push"}
        BY <2>3, <3>2 DEF DrainForStart, DrainMailForStart, AttachTurnState, PushPendingInput
      <4>2. ActorStep(0) BY <2>3, <3>2 DEF ActorStep
      <4>3. ~AddTask(0) /\ ~TakeActiveTurn /\ ~CancelTask /\ ~AbortTask /\ ~ClearPending
        BY <4>1 DEF AddTask, TakeActiveTurn, CancelTask, AbortTask, ClearPending
      <4>4. 0 \in Actor BY Bounds
      <4>5. QED BY <4>2, <4>3, <4>4, <1>0, PreparesCases
    <3>4. QED BY <2>3, <3>2, <3>3, <1>0, StartSolo
  <2>4. CASE AddTask(a)
    <3>1. actor[a].pc \in Starting BY <2>4 DEF Starting, AddTask
    <3>2. a = 0 BY <3>1, LoopStarts DEF SoloInv
    <3>3. QED BY <2>4, <3>2, <1>0, AddTaskSolo
  <2>5. CASE TakeActiveTurn BY <2>5, <1>0, TakeActiveTurnSolo
  <2>6. CASE CancelTask BY <2>6, <1>0, CancelTaskSolo
  <2>7. CASE AbortTask BY <2>7, <1>0, AbortTaskSolo
  <2>8. CASE ClearPending BY <2>8, <1>0, ClearPendingSolo
  <2>9. QED BY <1>2, <2>1, <2>2, <2>3, <2>4, <2>5, <2>6, <2>7, <2>8 DEF ActorStep
<1>3. ASSUME NEW t \in Turn, TaskStep(t) PROVE SoloInv'
  <2>1. ~Kill(t) BY DEF Kill, SoloInv, DoomedInv, Stopped
  <2>2. CASE RemoveTask(t) BY <2>2, <1>0, RemoveTaskSolo
  <2>3. CASE SpawnScheduler(t) BY <2>3, <1>0, SpawnSchedulerSolo
  <2>4. CASE ~RemoveTask(t) /\ ~SpawnScheduler(t)
    <3>1. Works(t) /\ DataOK' BY <2>1, <2>4, <1>0, <1>3, WorksCases
    <3>2. TakeLeftover(t) \/ (Flows /\ turn[t].pc # "take") BY <2>1, <2>4, <1>0, <1>3, TaskFlows
    <3>3. QED BY <3>1, <3>2, <1>0, WorksSolo
  <2>5. QED BY <2>2, <2>3, <2>4
<1>4. CASE UNCHANGED vars
  <2>1. LoneLoop' /\ HeldInv' /\ AloneInv' /\ DoomedInv' /\ IdInv'
    BY <1>4 DEF vars, SoloInv, LoneLoop, HeldInv, AloneInv, DoomedInv, IdInv
  <2>2. InputReachable' BY <1>4 DEF vars, SoloInv, InputReachable
  <2>3. QED BY <2>1, <2>2 DEF SoloInv
<1>5. QED BY <1>1, <1>2, <1>3, <1>4 DEF Next

\* In a session that gets no mail marked trigger_turn, on a runtime that stops an
\* aborted task at once and never suspends on_task_finished, no input is stranded in
\* a turn state: it is the active one's, or somebody is about to take or drop it.
THEOREM InputStaysReachable == ASSUME Quiet PROVE Spec => []InputReachable
<1>1. Init => SoloInv
  <2> SUFFICES ASSUME Init PROVE SoloInv OBVIOUS
  <2>1. 0 \in Actor /\ 0 \notin Turn /\ Turn \subseteq Actor BY Bounds
  <2>2. LoneLoop BY <2>1 DEF Init, LoneLoop
  <2>3. HeldInv BY <2>1 DEF Init, HeldInv, NoTurn, Range, Unfinished
  <2>4. AloneInv BY <2>1 DEF Init, AloneInv, Starting
  <2>5. DoomedInv /\ IdInv /\ InputReachable BY DEF Init, DoomedInv, IdInv, InputReachable
  <2>6. QED BY <2>2, <2>3, <2>4, <2>5 DEF SoloInv
<1>2. IndInv /\ SoloInv /\ [Next]_vars => SoloInv' BY NextSolo
<1>3. SoloInv => InputReachable BY DEF SoloInv
<1>4. QED BY <1>1, <1>2, <1>3, Invariance, PTL DEF Spec
=============================================================================
