--------------------------- MODULE ToolCallsProofs ---------------------------
(***************************************************************************)
(* The tool calls of a session and their questions, for any set of calls,  *)
(* any number of turns and any order of answers, aborts and snapshots.     *)
(***************************************************************************)
EXTENDS ToolCalls, SequenceTheorems, TLAPS

\* The active turn is the one that runs.
TurnInv == \A k \in Turn : phase[k] = "running" <=> active = k

\* A call belongs to a turn that has begun and started its snapshot; it asks once;
\* none is parked once its turn's task was killed.
CallInv ==
  \A c \in Call :
    /\ pc[c] = "idle" => turn[c] = None
    /\ pc[c] # "idle" => turn[c] \in Turn /\ phase[turn[c]] # "new" /\ snapshot[turn[c]] # "none"
    /\ pc[c] \in {"idle", "queued", "gate", "running"} =>
         asked[c] = None /\ c \notin open /\ answerTo[c] = None
    /\ pc[c] \in {"queued", "gate", "waiting"} => phase[turn[c]] \notin {"killed", "over"}

\* A turn holds senders, under their keys, while it is active or being aborted; the
\* sender of a call that waits is with the turn it asked.
PendingInv ==
  /\ \A k \in Turn, q \in Key : pending[k][q] # None =>
       /\ q = KeyOf(pending[k][q]) /\ asked[pending[k][q]] = k
       /\ pc[pending[k][q]] \in {"waiting", "done"}
       /\ phase[k] \notin {"new", "over"}
  /\ \A c \in Call : pc[c] = "waiting" => asked[c] \in Turn /\ pending[asked[c]][KeyOf(c)] = c

\* Of two calls of a turn that hold the guard, both hold a read guard.
GuardInv ==
  \A c, d \in Call :
    c # d /\ turn[c] = turn[d] /\ {pc[c], pc[d]} \subseteq Holding => {c, d} \subseteq ParallelCall

\* An open question of a call that asked another turn, or none, is of a turn that is
\* no longer active; of a call that asked its own, it waits unless it was cancelled.
OpenInv ==
  \A c \in open :
    /\ asked[c] # turn[c] => phase[turn[c]] # "running"
    /\ asked[c] = turn[c] => pc[c] = "waiting" \/ Cancelled(turn[c])

\* The gate has its subscriber from the start of the snapshot to its end.
GateInv ==
  \A k \in Turn :
    /\ snapshot[k] = "none" => gate[k] = "fresh"
    /\ snapshot[k] = "running" => gate[k] = "pending"
    /\ snapshot[k] = "off" => ~Snapshots
    /\ snapshot[k] = "abandoned" => Cancelled(k)

\* The inductive invariant.
IndInv ==
  /\ TypeOK /\ TurnInv /\ CallInv /\ PendingInv /\ GuardInv /\ OpenInv /\ GateInv
  /\ AnswerToItsQuestion /\ NoSyntheticAnswer /\ GrantsOfTheTurn /\ MutatesAfterSnapshot

------------------------------------------------------------------------------
(* Types.                                                                    *)

\* Calls, turns and None are told apart.
LEMMA Distinct ==
  /\ None \notin Call /\ None \notin Turn /\ None \notin Key /\ Call \cap Turn = {}
  /\ PermissionCall \subseteq Call /\ InputCall \subseteq Call /\ MutatingCall \subseteq Call
  /\ PermissionCall \cap InputCall = {} /\ InputCall \cap ParallelCall = {}
  /\ Snapshots \in BOOLEAN
  BY CallAssumption, InputIsExclusive DEF Turn, Key

\* A queue that a call leaves is still one of calls.
LEMMA WithoutType ==
  ASSUME NEW s \in Seq(Call), NEW c \in Call
  PROVE  Without(s, c) \in Seq(Call)
<1> DEFINE places == {i \in 1..Len(s) : s[i] = c}
           i == CHOOSE i \in places : TRUE
<1>1. CASE places = {}
  BY <1>1 DEF Without
<1>2. CASE places # {}
  <2>1. i \in 1..Len(s)
    BY <1>2
  <2> HIDE DEF i
  <2>2. SubSeq(s, 1, i - 1) \in Seq(Call) /\ SubSeq(s, i + 1, Len(s)) \in Seq(Call)
    BY <2>1, LenProperties, SubSeqProperties
  <2>3. SubSeq(s, 1, i - 1) \o SubSeq(s, i + 1, Len(s)) \in Seq(Call)
    BY <2>2, ConcatProperties
  <2> QED
    BY <1>2, <2>3 DEF Without, i
<1> QED
  BY <1>1, <1>2

\* The key of a call that has a turn.
LEMMA KeyType ==
  ASSUME NEW c \in Call, turn[c] \in Turn
  PROVE  KeyOf(c) \in Key
  BY DEF KeyOf, Key

\* What notify_* does, with the call d whose sender it finds, if any.
Answers(c, d, grants) ==
  /\ c \in open /\ ~Aborting /\ (grants => c \in PermissionCall)
  /\ d = None => UNCHANGED <<pending, granted>>
  /\ d # None => /\ active \in Turn /\ KeyOf(c) \in Key /\ d = pending[active][KeyOf(c)]
                 /\ pending' = [pending EXCEPT ![active][KeyOf(c)] = None]
                 /\ granted' = IF grants THEN [granted EXCEPT ![active] = @ \cup {c}] ELSE granted
  /\ \/ /\ d # None /\ pc[d] = "waiting"
        /\ pc' = [pc EXCEPT ![d] = "answered"]
        /\ answerTo' = [answerTo EXCEPT ![d] = c]
     \/ ~(d # None /\ pc[d] = "waiting") /\ UNCHANGED <<pc, answerTo>>
  /\ open' = open \ {c}
  /\ UNCHANGED <<active, phase, gate, snapshot, queue, turn, asked>>

\* It does that.
LEMMA Answering ==
  ASSUME IndInv, NEW c \in Call, NEW grants \in BOOLEAN, Notify(c, grants)
  PROVE  \E d \in Call \cup {None} : Answers(c, d, grants)
<1>1. turn[c] \in Turn
  BY DEF IndInv, CallInv, Notify
<1>2. KeyOf(c) \in Key
  BY <1>1, KeyType
<1> DEFINE d == IF active = None THEN None ELSE pending[active][KeyOf(c)]
<1>3. d \in Call \cup {None} /\ (d # None => active \in Turn)
  BY <1>2 DEF IndInv, TypeOK
<1>4. Answers(c, d, grants)
  BY <1>2, <1>3 DEF Answers, Notify, turnVars
<1> QED
  BY <1>3, <1>4

\* Every step keeps the types.
LEMMA TypeStep == IndInv /\ [Next]_vars => TypeOK'
<1> SUFFICES ASSUME IndInv, [Next]_vars PROVE TypeOK'
  OBVIOUS
<1>0. TypeOK /\ CallInv
  BY DEF IndInv
<1> USE Distinct DEF turnVars
<1>1. ASSUME NEW c \in Call, NEW k \in Turn, SpawnCall(c, k) PROVE TypeOK'
  <2>1. Append(queue[k], c) \in Seq(Call)
    BY <1>0 DEF TypeOK
  <2> QED
    BY <1>0, <1>1, <2>1 DEF TypeOK, SpawnCall, Label
<1>2. ASSUME NEW c \in Call, AcquireGuard(c) PROVE TypeOK'
  <2>1. turn[c] \in Turn /\ pc[c] = "queued"
    BY <1>0, <1>2 DEF CallInv, AcquireGuard
  <2>2. Tail(queue[turn[c]]) \in Seq(Call)
    BY <1>0, <1>2, <2>1, HeadTailProperties DEF TypeOK, AcquireGuard
  <2>3. queue' \in [Turn -> Seq(Call)]
    BY <1>0, <1>2, <2>1, <2>2 DEF TypeOK, AcquireGuard
  <2> QED
    BY <1>0, <1>2, <2>3 DEF TypeOK, AcquireGuard, Label
<1>3. ASSUME NEW c \in Call, PassGate(c) PROVE TypeOK'
  BY <1>0, <1>3 DEF TypeOK, PassGate, Label
<1>4. ASSUME NEW c \in Call, Ask(c) PROVE TypeOK'
  <2>1. turn[c] \in Turn
    BY <1>0, <1>4 DEF CallInv, Ask
  <2>2. KeyOf(c) \in Key
    BY <2>1, KeyType
  <2>3. pending' \in [Turn -> [Key -> Call \cup {None}]]
    <3>1. CASE active = None
      BY <1>0, <1>4, <3>1 DEF TypeOK, Ask
    <3>2. CASE active # None
      <4>1. active \in Turn /\ pending' = [pending EXCEPT ![active][KeyOf(c)] = c]
        BY <1>0, <1>4, <3>2 DEF TypeOK, Ask
      <4> QED
        BY <1>0, <2>2, <4>1 DEF TypeOK
    <3> QED
      BY <3>1, <3>2
  <2>4. pc' \in [Call -> Label]
    BY <1>0, <1>4 DEF TypeOK, Ask, Label
  <2> QED
    BY <1>0, <1>4, <2>3, <2>4 DEF TypeOK, Ask
<1>5. ASSUME NEW c \in Call, FinishCall(c) PROVE TypeOK'
  BY <1>0, <1>5 DEF TypeOK, FinishCall, Label
<1>6. ASSUME NEW c \in Call, CallCancelled(c) PROVE TypeOK'
  <2>1. turn[c] \in Turn
    BY <1>0, <1>6 DEF CallInv, CallCancelled
  <2>2. Without(queue[turn[c]], c) \in Seq(Call)
    BY <1>0, <2>1, WithoutType DEF TypeOK
  <2>3. queue' \in [Turn -> Seq(Call)]
    BY <1>0, <1>6, <2>1, <2>2 DEF TypeOK, CallCancelled
  <2> QED
    BY <1>0, <1>6, <2>3 DEF TypeOK, CallCancelled, Label
<1>7. ASSUME NEW c \in Call, NotifyAbort(c) PROVE TypeOK'
  BY <1>0, <1>7 DEF TypeOK, NotifyAbort, Take, Enter, Phase
<1>8. ASSUME NEW c \in Call, NEW grants \in BOOLEAN, Notify(c, grants) PROVE TypeOK'
  <2>1. PICK d \in Call \cup {None} : Answers(c, d, grants)
    BY <1>8, Answering DEF IndInv
  <2>2. turn[c] \in Turn /\ KeyOf(c) \in Key
    BY <1>0, <1>8, KeyType DEF CallInv, Notify
  <2>3. pending' \in [Turn -> [Key -> Call \cup {None}]] /\ granted' \in [Turn -> SUBSET PermissionCall]
    <3>1. CASE d = None
      BY <1>0, <2>1, <3>1 DEF TypeOK, Answers
    <3>2. CASE d # None
      <4>1. /\ active \in Turn /\ pending' = [pending EXCEPT ![active][KeyOf(c)] = None]
            /\ granted' = IF grants THEN [granted EXCEPT ![active] = @ \cup {c}] ELSE granted
            /\ grants => c \in PermissionCall
        BY <2>1, <3>2 DEF Answers
      <4> QED
        BY <1>0, <2>2, <4>1 DEF TypeOK
    <3> QED
      BY <3>1, <3>2
  <2>4. pc' \in [Call -> Label] /\ answerTo' \in [Call -> Call \cup {None}]
    <3>1. CASE d # None /\ pc[d] = "waiting"
      <4>1. pc' = [pc EXCEPT ![d] = "answered"] /\ answerTo' = [answerTo EXCEPT ![d] = c]
        BY <2>1, <3>1 DEF Answers
      <4> QED
        BY <1>0, <4>1 DEF TypeOK, Label
    <3>2. CASE ~(d # None /\ pc[d] = "waiting")
      BY <1>0, <2>1, <3>2 DEF TypeOK, Answers
    <3> QED
      BY <3>1, <3>2
  <2> QED
    BY <1>0, <1>8, <2>3, <2>4 DEF TypeOK, Notify
<1>9. CASE Interrupt
  BY <1>0, <1>9 DEF TypeOK, Interrupt, Take, Enter, Phase
<1>10. ASSUME NEW k \in Turn, CancelTask(k) \/ KillTask(k) PROVE TypeOK'
  BY <1>0, <1>10 DEF TypeOK, CancelTask, KillTask, Enter, Phase
<1>11. ASSUME NEW k \in Turn, ClearPending(k) PROVE TypeOK'
  BY <1>0, <1>11 DEF TypeOK, ClearPending, Enter, Phase, Drop, Label
<1>12. ASSUME NEW k \in Turn, BeginTurn(k) PROVE TypeOK'
  BY <1>0, <1>12 DEF TypeOK, BeginTurn, Enter, Phase
<1>13. ASSUME NEW k \in Turn, StartSnapshot(k) PROVE TypeOK'
  BY <1>0, <1>13 DEF TypeOK, StartSnapshot
<1>14. ASSUME NEW k \in Turn, SnapshotEnds(k) PROVE TypeOK'
  BY <1>0, <1>14 DEF TypeOK, SnapshotEnds
<1>15. ASSUME NEW k \in Turn, FinishTurn(k) PROVE TypeOK'
  BY <1>0, <1>15 DEF TypeOK, FinishTurn, Enter, Phase, Drop, Label
<1>16. CASE UNCHANGED vars
  BY <1>0, <1>16 DEF TypeOK, vars
<1> QED
  BY <1>1, <1>2, <1>3, <1>4, <1>5, <1>6, <1>7, <1>8, <1>9, <1>10, <1>11, <1>12, <1>13, <1>14,
     <1>15, <1>16 DEF Next, CallStep, Client, AbortStep

------------------------------------------------------------------------------
(* Turns, keys and the guard.                                                *)

\* The steps that move no turn.
LEMMA NoTurnMoves ==
  ASSUME NEW c \in Call,
         \/ CallStep(c) \/ (\E k \in Turn : SpawnCall(c, k))
         \/ (\E grants \in BOOLEAN : Notify(c, grants))
  PROVE  UNCHANGED <<active, phase, snapshot>>
  BY DEF CallStep, SpawnCall, Notify, AcquireGuard, PassGate, Ask, FinishCall, CallCancelled, turnVars

\* A turn that is over stays so, a cancelled one stays cancelled, and none runs again;
\* the active turn is the one that runs.
LEMMA TurnStep ==
  ASSUME IndInv, [Next]_vars
  PROVE  /\ TurnInv'
         /\ \A k \in Turn :
              /\ phase[k] = "over" => phase'[k] = "over"
              /\ Cancelled(k) => Cancelled(k)'
              /\ phase[k] # "new" => phase'[k] # "new"
              /\ phase[k] \notin {"new", "running"} => phase'[k] # "running"
<1> DEFINE Good == /\ TurnInv'
                   /\ \A k \in Turn :
                        /\ phase[k] = "over" => phase'[k] = "over"
                        /\ Cancelled(k) => Cancelled(k)'
                        /\ phase[k] # "new" => phase'[k] # "new"
                        /\ phase[k] \notin {"new", "running"} => phase'[k] # "running"
<1>0. TypeOK /\ TurnInv
  BY DEF IndInv
<1> USE Distinct
<1>1. CASE UNCHANGED <<active, phase>>
  BY <1>0, <1>1 DEF TurnInv, Cancelled
<1>2. CASE Take
  BY <1>0, <1>2 DEF TypeOK, TurnInv, Take, Enter, Cancelled
<1>3. ASSUME NEW k \in Turn, CancelTask(k) PROVE Good
  BY <1>0, <1>3 DEF TypeOK, TurnInv, CancelTask, Enter, Cancelled
<1>4. ASSUME NEW k \in Turn, KillTask(k) PROVE Good
  BY <1>0, <1>4 DEF TypeOK, TurnInv, KillTask, Enter, Cancelled
<1>5. ASSUME NEW k \in Turn, ClearPending(k) PROVE Good
  BY <1>0, <1>5 DEF TypeOK, TurnInv, ClearPending, Enter, Cancelled
<1>6. ASSUME NEW k \in Turn, BeginTurn(k) PROVE Good
  BY <1>0, <1>6 DEF TypeOK, TurnInv, BeginTurn, Enter, Cancelled
<1>7. ASSUME NEW k \in Turn, FinishTurn(k) PROVE Good
  BY <1>0, <1>7 DEF TypeOK, TurnInv, FinishTurn, Enter, Cancelled
<1>8. ASSUME NEW k \in Turn, StartSnapshot(k) \/ SnapshotEnds(k) PROVE UNCHANGED <<active, phase>>
  BY <1>8 DEF StartSnapshot, SnapshotEnds
<1>9. ASSUME NEW c \in Call,
             \/ CallStep(c) \/ (\E k \in Turn : SpawnCall(c, k))
             \/ (\E grants \in BOOLEAN : Notify(c, grants))
      PROVE  UNCHANGED <<active, phase>>
  BY <1>9, NoTurnMoves
<1>10. CASE UNCHANGED vars
  BY <1>1, <1>10 DEF vars
<1>11. ASSUME Interrupt \/ \E c \in Call : NotifyAbort(c) PROVE Take
  BY <1>11 DEF Interrupt, NotifyAbort
<1> QED
  BY <1>1, <1>2, <1>3, <1>4, <1>5, <1>6, <1>7, <1>8, <1>9, <1>10, <1>11 DEF Next, Client, AbortStep

\* Two calls with the same key ask for user input in the same turn.
LEMMA SameKey ==
  ASSUME NEW c \in Call, NEW d \in Call, c # d, turn[c] \in Turn, turn[d] \in Turn, KeyOf(c) = KeyOf(d)
  PROVE  c \in InputCall /\ d \in InputCall /\ turn[c] = turn[d]
  BY Distinct DEF KeyOf

\* So of two such calls at most one is under way.
LEMMA OneAsks ==
  ASSUME IndInv, NEW c \in Call, NEW d \in Call, c # d, turn[c] \in Turn, turn[d] \in Turn,
         KeyOf(c) = KeyOf(d), pc[d] \in Holding
  PROVE  pc[c] \notin Holding
<1>1. c \in InputCall /\ d \in InputCall /\ turn[c] = turn[d]
  BY SameKey
<1> QED
  BY <1>1, Distinct DEF IndInv, GuardInv

\* What request_* does: the sender it replaces, if any, is of a call that is gone.
LEMMA Asking ==
  ASSUME IndInv, NEW c \in Call, Ask(c)
  PROVE  /\ pc[c] = "running" /\ turn[c] \in Turn /\ KeyOf(c) \in Key /\ phase[turn[c]] # "new"
         /\ asked'[c] = active /\ \A d \in Call : d # c => asked'[d] = asked[d]
         /\ pc'[c] = IF Cancelled(turn[c]) THEN "done" ELSE IF active = None THEN "answered" ELSE "waiting"
         /\ \A d \in Call : d # c => pc'[d] = pc[d]
         /\ open' = open \cup {c}
         /\ UNCHANGED <<active, phase, gate, snapshot, queue, granted, turn, answerTo>>
<1>0. TypeOK
  BY DEF IndInv
<1>1. pc[c] = "running" /\ turn[c] \in Turn /\ phase[turn[c]] # "new"
  BY DEF Ask, IndInv, CallInv
<1>2. KeyOf(c) \in Key
  BY <1>1, KeyType
<1>3. asked'[c] = active /\ \A d \in Call : d # c => asked'[d] = asked[d]
  BY <1>0 DEF Ask, TypeOK
<1> DEFINE old == IF active = None THEN None ELSE pending[active][KeyOf(c)]
<1>4. ASSUME NEW d \in Call, d = old, pc[d] = "waiting" PROVE FALSE
  <2>1. active \in Turn /\ pending[active][KeyOf(c)] = d /\ d # None
    BY <1>0, <1>4, Distinct DEF TypeOK
  <2>2. KeyOf(c) = KeyOf(d)
    BY <1>2, <2>1 DEF IndInv, PendingInv
  <2>3. d # c /\ turn[d] \in Turn
    BY <1>1, <1>4 DEF IndInv, CallInv
  <2> QED
    BY <1>1, <1>4, <2>2, <2>3, OneAsks DEF Holding
<1>5. pc' = [d \in Call |->
              CASE d = c -> IF Cancelled(turn[c]) THEN "done"
                            ELSE IF active = None THEN "answered" ELSE "waiting"
                [] d = old /\ pc[d] = "waiting" -> "answered"
                [] OTHER -> pc[d]]
  BY DEF Ask
<1>6. pc'[c] = IF Cancelled(turn[c]) THEN "done" ELSE IF active = None THEN "answered" ELSE "waiting"
  BY <1>1, <1>5
<1>7. \A d \in Call : d # c => pc'[d] = pc[d]
  <2> HIDE DEF old
  <2> QED
    BY <1>4, <1>5
<1> QED
  BY <1>1, <1>2, <1>3, <1>6, <1>7 DEF Ask, turnVars

\* An answer finds a call that waits only if it is the one that asked: a second
\* request for user input of a turn waits for the guard until the first is answered.
LEMMA Delivery ==
  ASSUME IndInv, NEW c \in Call, NEW d \in Call, NEW grants \in BOOLEAN, Answers(c, d, grants),
         pc[d] = "waiting"
  PROVE  d = c
<1> SUFFICES ASSUME d # c PROVE FALSE
  OBVIOUS
<1>0. TypeOK /\ CallInv /\ OpenInv /\ TurnInv /\ d # None
  BY Distinct DEF IndInv
<1>1. active \in Turn /\ KeyOf(c) \in Key /\ d = pending[active][KeyOf(c)] /\ c \in open /\ ~Aborting
  BY <1>0 DEF Answers
<1>2. KeyOf(d) = KeyOf(c)
  BY <1>0, <1>1 DEF IndInv, PendingInv
<1>3. turn[c] \in Turn /\ turn[d] \in Turn /\ phase[turn[d]] \notin {"new", "killed", "over"}
  BY <1>0, <1>1 DEF CallInv
<1>4. turn[c] = turn[d] /\ pc[c] \notin Holding
  BY <1>2, <1>3, SameKey, OneAsks DEF Holding
<1>5. phase[turn[c]] = "running"
  BY <1>0, <1>1, <1>3, <1>4 DEF Aborting, TypeOK, Phase
<1>6. pc[c] = "waiting"
  BY <1>0, <1>1, <1>5 DEF OpenInv, Cancelled
<1> QED
  BY <1>4, <1>6 DEF Holding

------------------------------------------------------------------------------
(* The invariant, step by step.                                              *)

\* A step that moves one call, which is not idle and does not ask, and no turn.
LEMMA Moving ==
  ASSUME TypeOK, NEW c \in Call,
         AcquireGuard(c) \/ PassGate(c) \/ FinishCall(c) \/ CallCancelled(c)
  PROVE  /\ UNCHANGED <<active, phase, snapshot, pending, granted, turn, asked, open, answerTo>>
         /\ \A d \in Call : d # c => pc'[d] = pc[d]
         /\ \/ pc[c] = "queued" /\ pc'[c] = (IF c \in MutatingCall THEN "gate" ELSE "running")
            \/ pc[c] = "gate" /\ pc'[c] = "running"
            \/ pc[c] \in {"running", "answered"} /\ pc'[c] = "done"
            \/ pc[c] # "idle" /\ pc'[c] = "done" /\ Cancelled(turn[c])
<1>1. CASE AcquireGuard(c)
  BY <1>1 DEF AcquireGuard, TypeOK, turnVars
<1>2. CASE PassGate(c)
  BY <1>2 DEF PassGate, TypeOK
<1>3. CASE FinishCall(c) \/ CallCancelled(c)
  BY <1>3 DEF FinishCall, CallCancelled, TypeOK, turnVars
<1> QED
  BY <1>1, <1>2, <1>3

\* The senders of a turn that ends are dropped: the calls that wait for them go on.
LEMMA Dropping ==
  ASSUME IndInv, NEW k \in Turn, FinishTurn(k) \/ ClearPending(k)
  PROVE  /\ \A c \in Call : pc'[c] = IF pc[c] = "waiting" /\ asked[c] = k THEN "answered" ELSE pc[c]
         /\ \A c \in Call : turn[c] = k => pc[c] # "waiting"
         /\ pending' = [pending EXCEPT ![k] = [q \in Key |-> None]]
         /\ phase' = [phase EXCEPT ![k] = "over"]
         /\ phase[k] \notin {"new", "over"}
         /\ UNCHANGED <<gate, snapshot, queue, granted, turn, asked, open, answerTo>>
<1>0. TypeOK /\ CallInv /\ PendingInv
  BY DEF IndInv
<1>1. \A c \in Call : pc'[c] = IF c \in Senders(k) /\ pc[c] = "waiting" THEN "answered" ELSE pc[c]
  BY DEF FinishTurn, ClearPending, Drop
<1>2. ASSUME NEW c \in Call, pc[c] = "waiting" PROVE c \in Senders(k) <=> asked[c] = k
  <2>1. ASSUME c \in Senders(k) PROVE asked[c] = k
    BY <1>0, <2>1 DEF Senders, PendingInv
  <2>2. ASSUME asked[c] = k PROVE c \in Senders(k)
    <3>1. KeyOf(c) \in Key /\ pending[k][KeyOf(c)] = c
      BY <1>0, <1>2, <2>2, KeyType DEF CallInv, PendingInv
    <3> QED
      BY <3>1, Distinct DEF Senders
  <2> QED
    BY <2>1, <2>2
<1>3. \A c \in Call : turn[c] = k => pc[c] # "waiting"
  <2>1. CASE FinishTurn(k)
    BY <2>1 DEF FinishTurn, CallsOf
  <2>2. CASE ClearPending(k)
    BY <1>0, <2>2 DEF ClearPending, CallInv
  <2> QED
    BY <2>1, <2>2
<1> QED
  BY <1>1, <1>2, <1>3 DEF FinishTurn, ClearPending, Enter

\* The steps of turns that leave the calls where they are.
LEMMA CallsRest ==
  ASSUME NEW k \in Turn,
         \/ BeginTurn(k) \/ StartSnapshot(k) \/ SnapshotEnds(k) \/ CancelTask(k) \/ KillTask(k)
         \/ Interrupt \/ (\E c \in Call : NotifyAbort(c))
  PROVE  UNCHANGED <<pending, granted, turn, pc, asked, answerTo>> /\ open' \subseteq open
<1>1. CASE BeginTurn(k) \/ StartSnapshot(k) \/ SnapshotEnds(k) \/ CancelTask(k) \/ KillTask(k)
  BY <1>1 DEF BeginTurn, StartSnapshot, SnapshotEnds, CancelTask, KillTask
<1>2. CASE Interrupt \/ \E c \in Call : NotifyAbort(c)
  BY <1>2 DEF Interrupt, NotifyAbort
<1> QED
  BY <1>1, <1>2

\* The cases of a step.
LEMMA Cases ==
  ASSUME TypeOK, [Next]_vars
  PROVE  \/ \E c \in Call, k \in Turn : SpawnCall(c, k)
         \/ \E c \in Call : AcquireGuard(c) \/ PassGate(c) \/ FinishCall(c) \/ CallCancelled(c)
         \/ \E c \in Call : Ask(c)
         \/ \E c \in Call, grants \in BOOLEAN : Notify(c, grants)
         \/ \E k \in Turn : FinishTurn(k) \/ ClearPending(k)
         \/ \E k \in Turn : \/ BeginTurn(k) \/ StartSnapshot(k) \/ SnapshotEnds(k)
                            \/ CancelTask(k) \/ KillTask(k)
                            \/ Interrupt \/ (\E c \in Call : NotifyAbort(c))
         \/ UNCHANGED vars
<1>1. ASSUME Interrupt \/ \E c \in Call : NotifyAbort(c) PROVE active \in Turn
  BY <1>1 DEF Interrupt, NotifyAbort, Take, TypeOK
<1> QED
  BY <1>1 DEF Next, CallStep, Client, AbortStep

\* Every step keeps what a call has.
LEMMA CallStepInv == IndInv /\ [Next]_vars => CallInv'
<1> SUFFICES ASSUME IndInv, [Next]_vars PROVE CallInv'
  OBVIOUS
<1>0. TypeOK /\ CallInv
  BY DEF IndInv
<1>a. \A k \in Turn : phase[k] # "new" => phase'[k] # "new"
  BY TurnStep
<1>1. ASSUME NEW c \in Call, NEW k \in Turn, SpawnCall(c, k) PROVE CallInv'
  BY <1>0, <1>1, Distinct DEF TypeOK, CallInv, SpawnCall, turnVars
<1>2. ASSUME NEW c \in Call, AcquireGuard(c) \/ PassGate(c) \/ FinishCall(c) \/ CallCancelled(c)
      PROVE  CallInv'
  <2>1. /\ UNCHANGED <<phase, snapshot, turn, asked, open, answerTo>>
        /\ \A d \in Call : d # c => pc'[d] = pc[d]
        /\ \/ pc[c] = "queued" /\ pc'[c] \in {"gate", "running"}
           \/ pc[c] = "gate" /\ pc'[c] = "running"
           \/ pc[c] # "idle" /\ pc'[c] = "done"
    BY <1>0, <1>2, Moving
  <2> QED
    BY <1>0, <2>1 DEF CallInv
<1>3. ASSUME NEW c \in Call, Ask(c) PROVE CallInv'
  <2>1. Cancelled(turn[c]) \/ phase[turn[c]] \notin {"killed", "over"}
    BY DEF Cancelled
  <2>2. /\ pc[c] = "running" /\ UNCHANGED <<phase, snapshot, turn, answerTo>>
        /\ pc'[c] \in {"done", "answered", "waiting"}
        /\ pc'[c] = "waiting" => ~Cancelled(turn[c])
        /\ \A d \in Call : d # c => pc'[d] = pc[d] /\ asked'[d] = asked[d]
        /\ open' = open \cup {c}
    BY <1>3, Asking
  <2> QED
    BY <1>0, <2>1, <2>2 DEF CallInv
<1>4. ASSUME NEW c \in Call, NEW grants \in BOOLEAN, Notify(c, grants) PROVE CallInv'
  <2>1. PICK d \in Call \cup {None} : Answers(c, d, grants)
    BY <1>4, Answering
  <2>2. UNCHANGED <<phase, snapshot, turn, asked>> /\ open' \subseteq open
    BY <2>1 DEF Answers
  <2>3. CASE d # None /\ pc[d] = "waiting"
    <3>1. pc'[d] = "answered" /\ \A e \in Call : e # d => pc'[e] = pc[e] /\ answerTo'[e] = answerTo[e]
      BY <1>0, <2>1, <2>3 DEF Answers, TypeOK
    <3> QED
      BY <1>0, <2>2, <2>3, <3>1 DEF CallInv
  <2>4. CASE ~(d # None /\ pc[d] = "waiting")
    BY <1>0, <2>1, <2>2, <2>4 DEF CallInv, Answers
  <2> QED
    BY <2>3, <2>4
<1>5. ASSUME NEW k \in Turn, FinishTurn(k) \/ ClearPending(k) PROVE CallInv'
  <2>1. \A c \in Call : turn[c] = k => pc[c] \notin {"queued", "gate", "waiting"}
    BY <1>0, <1>5 DEF FinishTurn, ClearPending, CallsOf, CallInv
  <2>2. /\ \A c \in Call : pc'[c] = IF pc[c] = "waiting" /\ asked[c] = k THEN "answered" ELSE pc[c]
        /\ phase' = [phase EXCEPT ![k] = "over"]
        /\ UNCHANGED <<snapshot, turn, asked, open, answerTo>>
    BY <1>5, Dropping
  <2> QED
    BY <1>0, <2>1, <2>2 DEF CallInv, TypeOK
<1>6. ASSUME NEW k \in Turn,
             \/ BeginTurn(k) \/ StartSnapshot(k) \/ SnapshotEnds(k) \/ CancelTask(k) \/ KillTask(k)
             \/ Interrupt \/ (\E c \in Call : NotifyAbort(c))
      PROVE  CallInv'
  <2>1. UNCHANGED <<turn, pc, asked, answerTo>> /\ open' \subseteq open
    BY <1>6, CallsRest
  <2>2. \A j \in Turn : snapshot[j] # "none" => snapshot'[j] # "none"
    BY <1>0, <1>6 DEF TypeOK, BeginTurn, StartSnapshot, SnapshotEnds, CancelTask, KillTask, Interrupt,
                      NotifyAbort
  <2>3. ASSUME NEW c \in Call, pc[c] \in {"queued", "gate", "waiting"}
        PROVE  phase'[turn[c]] \notin {"killed", "over"}
    <3>1. turn[c] \in Turn /\ phase[turn[c]] \notin {"killed", "over"}
      BY <1>0, <2>3 DEF CallInv
    <3>2. CASE KillTask(k)
      BY <1>0, <2>3, <3>1, <3>2 DEF KillTask, CallsOf, Enter, TypeOK
    <3>3. CASE BeginTurn(k) \/ CancelTask(k)
      BY <1>0, <3>1, <3>3 DEF BeginTurn, CancelTask, Enter, TypeOK
    <3>4. CASE StartSnapshot(k) \/ SnapshotEnds(k)
      BY <3>1, <3>4 DEF StartSnapshot, SnapshotEnds
    <3>5. CASE Interrupt \/ \E d \in Call : NotifyAbort(d)
      BY <1>0, <3>1, <3>5 DEF Interrupt, NotifyAbort, Take, Enter, TypeOK
    <3> QED
      BY <1>6, <3>2, <3>3, <3>4, <3>5
  <2> QED
    BY <1>0, <1>a, <2>1, <2>2, <2>3 DEF CallInv
<1>7. CASE UNCHANGED vars
  BY <1>0, <1>7 DEF CallInv, vars
<1> QED
  BY <1>0, <1>1, <1>2, <1>3, <1>4, <1>5, <1>6, <1>7, Cases

\* A turn that holds no sender of a call keeps none when the call moves on; what a
\* question, an answer and the end of a turn do to the senders.
LEMMA PendingStep == IndInv /\ [Next]_vars => PendingInv'
<1> SUFFICES ASSUME IndInv, [Next]_vars PROVE PendingInv'
  OBVIOUS
<1>0. TypeOK /\ CallInv /\ PendingInv /\ TurnInv
  BY DEF IndInv
<1>a. \A k \in Turn, q \in Key : pending[k][q] # None => pending[k][q] \in Call
  BY <1>0 DEF TypeOK
<1> USE Distinct DEF KeyOf
<1>1. ASSUME NEW c \in Call, NEW k \in Turn, SpawnCall(c, k) PROVE PendingInv'
  <2>1. /\ UNCHANGED <<phase, pending, asked>> /\ pc[c] = "idle" /\ pc'[c] = "queued"
        /\ \A d \in Call : d # c => pc'[d] = pc[d] /\ turn'[d] = turn[d]
    BY <1>0, <1>1 DEF TypeOK, SpawnCall, turnVars
  <2> QED
    BY <1>0, <1>a, <2>1 DEF PendingInv
<1>2. ASSUME NEW c \in Call, AcquireGuard(c) \/ PassGate(c) \/ FinishCall(c) \/ CallCancelled(c)
      PROVE  PendingInv'
  <2>1. /\ UNCHANGED <<phase, pending, turn, asked>>
        /\ \A d \in Call : d # c => pc'[d] = pc[d]
        /\ pc'[c] # "waiting" /\ (pc[c] \in {"waiting", "done"} => pc'[c] = "done")
    BY <1>0, <1>2, Moving
  <2> QED
    BY <1>0, <1>a, <2>1 DEF PendingInv
<1>3. ASSUME NEW c \in Call, Ask(c) PROVE PendingInv'
  <2>1. /\ pc[c] = "running" /\ turn[c] \in Turn /\ KeyOf(c) \in Key
        /\ asked'[c] = active /\ UNCHANGED <<active, phase, turn>>
        /\ pc'[c] \in {"done", "answered", "waiting"} /\ (active # None => pc'[c] # "answered")
        /\ (active = None => pc'[c] # "waiting")
        /\ \A d \in Call : d # c => pc'[d] = pc[d] /\ asked'[d] = asked[d]
    BY <1>3, Asking
  <2>2. \A k \in Turn, q \in Key : pending[k][q] # c
    BY <1>0, <1>a, <2>1 DEF PendingInv
  <2>3. CASE active = None
    <3>1. pending' = pending
      BY <1>3, <2>3 DEF Ask
    <3> QED
      BY <1>0, <1>a, <2>1, <2>2, <2>3, <3>1 DEF PendingInv
  <2>4. CASE active # None
    <3>1. /\ active \in Turn /\ phase[active] = "running"
          /\ pending' = [pending EXCEPT ![active][KeyOf(c)] = c]
      BY <1>0, <1>3, <2>4 DEF Ask, TypeOK, TurnInv
    <3>2. /\ pending'[active][KeyOf(c)] = c
          /\ \A k \in Turn, q \in Key : k # active \/ q # KeyOf(c) => pending'[k][q] = pending[k][q]
      BY <1>0, <2>1, <3>1 DEF TypeOK
    <3>3. ASSUME NEW k \in Turn, NEW q \in Key, pending'[k][q] # None
          PROVE  /\ q = KeyOf(pending[k][q])' /\ asked'[pending'[k][q]] = k
                 /\ pc'[pending'[k][q]] \in {"waiting", "done"} /\ phase'[k] \notin {"new", "over"}
      <4>1. CASE k = active /\ q = KeyOf(c)
        BY <2>1, <2>4, <3>1, <3>2, <4>1
      <4>2. CASE k # active \/ q # KeyOf(c)
        BY <1>0, <2>1, <2>2, <3>2, <3>3, <4>2 DEF PendingInv, TypeOK
      <4> QED
        BY <4>1, <4>2
    <3>4. ASSUME NEW d \in Call, pc'[d] = "waiting"
          PROVE  asked'[d] \in Turn /\ pending'[asked'[d]][KeyOf(d)'] = d
      <4>1. CASE d = c
        BY <2>1, <3>1, <3>2, <4>1
      <4>2. CASE d # c
        <5>1. pc[d] = "waiting" /\ turn[d] \in Turn /\ asked[d] \in Turn /\ pending[asked[d]][KeyOf(d)] = d
          BY <1>0, <2>1, <3>4, <4>2 DEF PendingInv, CallInv
        <5>2. KeyOf(d) # KeyOf(c)
          BY <2>1, <4>2, <5>1, OneAsks DEF Holding
        <5>3. KeyOf(d) \in Key
          BY <5>1, KeyType
        <5> QED
          BY <2>1, <3>2, <4>2, <5>1, <5>2, <5>3
      <4> QED
        BY <4>1, <4>2
    <3> QED
      BY <3>3, <3>4 DEF PendingInv
  <2> QED
    BY <2>3, <2>4
<1>4. ASSUME NEW c \in Call, NEW grants \in BOOLEAN, Notify(c, grants) PROVE PendingInv'
  <2>1. PICK d \in Call \cup {None} : Answers(c, d, grants)
    BY <1>4, Answering
  <2>2. UNCHANGED <<phase, turn, asked>>
    BY <2>1 DEF Answers
  <2>3. CASE d = None
    BY <1>0, <2>1, <2>2, <2>3 DEF PendingInv, Answers
  <2>4. CASE d # None
    <3>1. /\ active \in Turn /\ KeyOf(c) \in Key /\ pending[active][KeyOf(c)] = d
          /\ pending' = [pending EXCEPT ![active][KeyOf(c)] = None]
      BY <2>1, <2>4 DEF Answers
    <3>2. /\ pending'[active][KeyOf(c)] = None
          /\ \A k \in Turn, q \in Key : k # active \/ q # KeyOf(c) => pending'[k][q] = pending[k][q]
      BY <1>0, <3>1 DEF TypeOK
    <3>3. pc'[d] \notin {"waiting"} /\ \A e \in Call : e # d => pc'[e] = pc[e]
      BY <1>0, <2>1, <2>4 DEF Answers, TypeOK
    <3>4. asked[d] = active /\ KeyOf(d) = KeyOf(c)
      BY <1>0, <2>4, <3>1 DEF PendingInv
    <3>5. ASSUME NEW k \in Turn, NEW q \in Key, pending'[k][q] # None
          PROVE  /\ q = KeyOf(pending[k][q])' /\ asked'[pending'[k][q]] = k
                 /\ pc'[pending'[k][q]] \in {"waiting", "done"} /\ phase'[k] \notin {"new", "over"}
      <4>1. pending'[k][q] = pending[k][q] /\ (k # active \/ q # KeyOf(c))
        BY <3>2, <3>5
      <4>2. /\ q = KeyOf(pending[k][q]) /\ asked[pending[k][q]] = k /\ pending[k][q] \in Call
            /\ pc[pending[k][q]] \in {"waiting", "done"} /\ phase[k] \notin {"new", "over"}
        BY <1>0, <3>5, <4>1 DEF PendingInv, TypeOK
      <4>3. pending[k][q] # d
        BY <3>4, <4>1, <4>2
      <4> QED
        BY <2>2, <3>3, <4>1, <4>2, <4>3
    <3>6. ASSUME NEW e \in Call, pc'[e] = "waiting"
          PROVE  asked'[e] \in Turn /\ pending'[asked'[e]][KeyOf(e)'] = e
      <4>1. e # d /\ pc[e] = "waiting"
        BY <3>3, <3>6
      <4>2. asked[e] \in Turn /\ pending[asked[e]][KeyOf(e)] = e /\ KeyOf(e) \in Key
        BY <1>0, <4>1, KeyType DEF PendingInv, CallInv
      <4> QED
        BY <2>2, <3>1, <3>2, <4>1, <4>2
    <3> QED
      BY <3>5, <3>6 DEF PendingInv
  <2> QED
    BY <2>3, <2>4
<1>5. ASSUME NEW k \in Turn, FinishTurn(k) \/ ClearPending(k) PROVE PendingInv'
  <2>1. /\ \A c \in Call : pc'[c] = IF pc[c] = "waiting" /\ asked[c] = k THEN "answered" ELSE pc[c]
        /\ pending' = [pending EXCEPT ![k] = [q \in Key |-> None]]
        /\ phase' = [phase EXCEPT ![k] = "over"]
        /\ UNCHANGED <<turn, asked>>
    BY <1>5, Dropping
  <2>2. /\ \A q \in Key : pending'[k][q] = None
        /\ \A j \in Turn : j # k => pending'[j] = pending[j] /\ phase'[j] = phase[j]
    BY <1>0, <2>1 DEF TypeOK
  <2>3. ASSUME NEW j \in Turn, NEW q \in Key, pending'[j][q] # None
        PROVE  /\ q = KeyOf(pending[j][q])' /\ asked'[pending'[j][q]] = j
               /\ pc'[pending'[j][q]] \in {"waiting", "done"} /\ phase'[j] \notin {"new", "over"}
    BY <1>0, <2>1, <2>2, <2>3 DEF PendingInv, TypeOK
  <2>4. ASSUME NEW c \in Call, pc'[c] = "waiting"
        PROVE  asked'[c] \in Turn /\ pending'[asked'[c]][KeyOf(c)'] = c
    BY <1>0, <2>1, <2>2, <2>4 DEF PendingInv
  <2> QED
    BY <2>3, <2>4 DEF PendingInv
<1>6. ASSUME NEW k \in Turn,
             \/ BeginTurn(k) \/ StartSnapshot(k) \/ SnapshotEnds(k) \/ CancelTask(k) \/ KillTask(k)
             \/ Interrupt \/ (\E c \in Call : NotifyAbort(c))
      PROVE  PendingInv'
  <2>1. UNCHANGED <<pending, turn, pc, asked>>
    BY <1>6, CallsRest
  <2>2. \A j \in Turn : phase[j] \notin {"new", "over"} => phase'[j] \notin {"new", "over"}
    BY <1>0, <1>6 DEF TypeOK, BeginTurn, StartSnapshot, SnapshotEnds, CancelTask, KillTask, Interrupt,
                      NotifyAbort, Take, Enter
  <2> QED
    BY <1>0, <2>1, <2>2 DEF PendingInv
<1>7. CASE UNCHANGED vars
  BY <1>0, <1>7 DEF PendingInv, vars
<1> QED
  BY <1>0, <1>1, <1>2, <1>3, <1>4, <1>5, <1>6, <1>7, Cases

\* A guard is given only beside read guards, to a call that takes one itself.
LEMMA GuardStep == IndInv /\ [Next]_vars => GuardInv'
<1> SUFFICES ASSUME IndInv, [Next]_vars PROVE GuardInv'
  OBVIOUS
<1>0. TypeOK /\ CallInv /\ GuardInv
  BY DEF IndInv
<1>1. ASSUME turn' = turn, \A c \in Call : pc'[c] \in Holding => pc[c] \in Holding PROVE GuardInv'
  BY <1>0, <1>1 DEF GuardInv
<1>2. ASSUME NEW c \in Call, NEW k \in Turn, SpawnCall(c, k) PROVE GuardInv'
  <2>1. pc'[c] = "queued" /\ \A d \in Call : d # c => pc'[d] = pc[d] /\ turn'[d] = turn[d]
    BY <1>0, <1>2 DEF TypeOK, SpawnCall
  <2> QED
    BY <1>0, <2>1 DEF GuardInv, Holding
<1>3. ASSUME NEW c \in Call, AcquireGuard(c) PROVE GuardInv'
  <2>1. turn' = turn /\ \A d \in Call : d # c => pc'[d] = pc[d]
    BY <1>0, <1>3, Moving
  <2>2. \A d \in Call : turn[d] = turn[c] /\ pc[d] \in Holding => {c, d} \subseteq ParallelCall
    BY <1>3 DEF AcquireGuard, Admits, CallsOf
  <2> QED
    BY <1>0, <2>1, <2>2 DEF GuardInv
<1>4. ASSUME NEW c \in Call, PassGate(c) \/ FinishCall(c) \/ CallCancelled(c) PROVE GuardInv'
  <2>1. turn' = turn /\ \A d \in Call : d # c => pc'[d] = pc[d]
    BY <1>0, <1>4, Moving
  <2>2. pc'[c] \in Holding => pc[c] \in Holding
    BY <1>0, <1>4 DEF TypeOK, PassGate, FinishCall, CallCancelled, Holding
  <2> QED
    BY <1>1, <2>1, <2>2
<1>5. ASSUME NEW c \in Call, Ask(c) PROVE GuardInv'
  BY <1>1, <1>5, Asking DEF Holding
<1>6. ASSUME NEW c \in Call, NEW grants \in BOOLEAN, Notify(c, grants) PROVE GuardInv'
  <2>1. PICK d \in Call \cup {None} : Answers(c, d, grants)
    BY <1>6, Answering
  <2>2. turn' = turn /\ \A e \in Call : pc'[e] \in Holding => pc[e] \in Holding
    BY <1>0, <2>1 DEF Answers, TypeOK, Holding
  <2> QED
    BY <1>1, <2>2
<1>7. ASSUME NEW k \in Turn, FinishTurn(k) \/ ClearPending(k) PROVE GuardInv'
  BY <1>1, <1>7, Dropping DEF Holding
<1>8. ASSUME UNCHANGED <<turn, pc>> PROVE GuardInv'
  BY <1>1, <1>8
<1> QED
  BY <1>0, <1>2, <1>3, <1>4, <1>5, <1>6, <1>7, <1>8, Cases, CallsRest DEF vars

\* A question stays open until it is answered; until then the call waits, or its turn
\* is being aborted.
LEMMA OpenStep == IndInv /\ [Next]_vars => OpenInv'
<1> SUFFICES ASSUME IndInv, [Next]_vars PROVE OpenInv'
  OBVIOUS
<1>0. TypeOK /\ CallInv /\ OpenInv /\ TurnInv /\ PendingInv
  BY DEF IndInv
<1>a. \A c \in open : c \in Call /\ turn[c] \in Turn /\ phase[turn[c]] # "new"
  BY <1>0 DEF TypeOK, CallInv
<1>b. \A k \in Turn : /\ Cancelled(k) => Cancelled(k)'
                      /\ phase[k] \notin {"new", "running"} => phase'[k] # "running"
  BY TurnStep
<1>1. ASSUME UNCHANGED <<turn, asked>>, open' \subseteq open,
             \A c \in open' : asked[c] = turn[c] /\ pc[c] = "waiting" =>
                              pc'[c] = "waiting" \/ Cancelled(turn[c])'
      PROVE  OpenInv'
  BY <1>0, <1>1, <1>a, <1>b DEF OpenInv, Cancelled
<1>2. ASSUME NEW c \in Call, NEW k \in Turn, SpawnCall(c, k) PROVE OpenInv'
  <2>1. /\ UNCHANGED <<phase, asked, open>> /\ pc[c] = "idle"
        /\ \A d \in Call : d # c => pc'[d] = pc[d] /\ turn'[d] = turn[d]
    BY <1>0, <1>2 DEF TypeOK, SpawnCall, turnVars
  <2>2. c \notin open
    BY <1>0, <2>1 DEF CallInv
  <2> QED
    BY <1>0, <1>a, <2>1, <2>2 DEF OpenInv, Cancelled
<1>3. ASSUME NEW c \in Call, AcquireGuard(c) \/ PassGate(c) \/ FinishCall(c) \/ CallCancelled(c)
      PROVE  OpenInv'
  <2>1. /\ UNCHANGED <<phase, turn, asked, open>> /\ \A d \in Call : d # c => pc'[d] = pc[d]
        /\ pc[c] = "waiting" => Cancelled(turn[c])
    BY <1>0, <1>3, Moving
  <2> QED
    BY <1>1, <1>a, <2>1 DEF Cancelled
<1>4. ASSUME NEW c \in Call, Ask(c) PROVE OpenInv'
  <2>1. /\ UNCHANGED <<active, phase, turn>> /\ open' = open \cup {c} /\ asked'[c] = active
        /\ pc[c] = "running" /\ turn[c] \in Turn
        /\ pc'[c] = IF Cancelled(turn[c]) THEN "done" ELSE IF active = None THEN "answered" ELSE "waiting"
        /\ \A d \in Call : d # c => pc'[d] = pc[d] /\ asked'[d] = asked[d]
    BY <1>4, Asking
  <2>2. active # turn[c] => phase[turn[c]] # "running"
    BY <1>0, <2>1 DEF TurnInv
  <2>3. active = turn[c] => pc'[c] = "waiting" \/ Cancelled(turn[c])
    BY <2>1, Distinct
  <2> QED
    BY <1>0, <1>a, <2>1, <2>2, <2>3 DEF OpenInv, Cancelled
<1>5. ASSUME NEW c \in Call, NEW grants \in BOOLEAN, Notify(c, grants) PROVE OpenInv'
  <2>1. PICK d \in Call \cup {None} : Answers(c, d, grants)
    BY <1>5, Answering
  <2>2. UNCHANGED <<turn, asked, phase>> /\ open' = open \ {c}
    BY <2>1 DEF Answers
  <2>3. CASE d # None /\ pc[d] = "waiting"
    <3>1. d = c
      BY <2>1, <2>3, Delivery
    <3>2. \A e \in Call : e # d => pc'[e] = pc[e]
      BY <1>0, <2>1, <2>3 DEF Answers, TypeOK
    <3> QED
      BY <1>1, <1>a, <2>2, <3>1, <3>2
  <2>4. CASE ~(d # None /\ pc[d] = "waiting")
    BY <1>1, <2>1, <2>2, <2>4 DEF Answers
  <2> QED
    BY <2>3, <2>4
<1>6. ASSUME NEW k \in Turn, FinishTurn(k) \/ ClearPending(k) PROVE OpenInv'
  BY <1>1, <1>6, <1>a, Dropping
<1>7. ASSUME UNCHANGED <<turn, asked, pc>>, open' \subseteq open PROVE OpenInv'
  BY <1>1, <1>7
<1> QED
  BY <1>0, <1>2, <1>3, <1>4, <1>5, <1>6, <1>7, Cases, CallsRest DEF vars

\* The gate and the snapshot go together.
LEMMA GateStep == IndInv /\ [Next]_vars => GateInv'
<1> SUFFICES ASSUME IndInv, [Next]_vars PROVE GateInv'
  OBVIOUS
<1>0. TypeOK /\ CallInv /\ GateInv /\ \A k \in Turn : Cancelled(k) => Cancelled(k)'
  BY TurnStep DEF IndInv
<1>1. CASE UNCHANGED <<gate, snapshot>>
  BY <1>0, <1>1 DEF GateInv
<1>2. ASSUME NEW c \in Call, PassGate(c) PROVE GateInv'
  <2>1. turn[c] \in Turn /\ snapshot[turn[c]] # "none" /\ gate[turn[c]] # "pending"
    BY <1>0, <1>2 DEF PassGate, CallInv
  <2>2. snapshot' = snapshot /\ gate' = [gate EXCEPT ![turn[c]] = "ready"]
    BY <1>2 DEF PassGate
  <2> QED
    BY <1>0, <2>1, <2>2 DEF GateInv, TypeOK
<1>3. ASSUME NEW k \in Turn, StartSnapshot(k) PROVE GateInv'
  <2>1. CASE Snapshots /\ gate[k] # "ready"
    BY <1>0, <1>3, <2>1 DEF StartSnapshot, GateInv, TypeOK
  <2>2. CASE ~(Snapshots /\ gate[k] # "ready")
    <3>1. ~Snapshots
      BY <1>0, <1>3, <2>2 DEF StartSnapshot, GateInv
    <3> QED
      BY <1>0, <1>3, <2>2, <3>1 DEF StartSnapshot, GateInv, TypeOK
  <2> QED
    BY <2>1, <2>2
<1>4. ASSUME NEW k \in Turn, SnapshotEnds(k) PROVE GateInv'
  BY <1>0, <1>4 DEF SnapshotEnds, GateInv, TypeOK, Cancelled
<1> QED
  BY <1>1, <1>2, <1>3, <1>4
  DEF Next, CallStep, Client, AbortStep, SpawnCall, AcquireGuard, Ask, FinishCall, CallCancelled, Notify,
      NotifyAbort, Interrupt, CancelTask, KillTask, ClearPending, BeginTurn, FinishTurn, turnVars, vars

------------------------------------------------------------------------------
(* The properties.                                                           *)

\* Only an answer gives a call an answer, and only its own.
LEMMA AnswerStep == IndInv /\ [Next]_vars => AnswerToItsQuestion'
<1> SUFFICES ASSUME IndInv, [Next]_vars PROVE AnswerToItsQuestion'
  OBVIOUS
<1>0. TypeOK /\ AnswerToItsQuestion
  BY DEF IndInv
<1>1. CASE UNCHANGED answerTo
  BY <1>0, <1>1 DEF AnswerToItsQuestion
<1>2. ASSUME NEW c \in Call, NEW grants \in BOOLEAN, Notify(c, grants) PROVE AnswerToItsQuestion'
  <2>1. PICK d \in Call \cup {None} : Answers(c, d, grants)
    BY <1>2, Answering
  <2>2. CASE d # None /\ pc[d] = "waiting"
    <3>1. d = c
      BY <2>1, <2>2, Delivery
    <3>2. answerTo' = [answerTo EXCEPT ![d] = c]
      BY <2>1, <2>2 DEF Answers
    <3> QED
      BY <1>0, <3>1, <3>2 DEF AnswerToItsQuestion, TypeOK
  <2>3. CASE ~(d # None /\ pc[d] = "waiting")
    BY <1>1, <2>1, <2>3 DEF Answers
  <2> QED
    BY <2>2, <2>3
<1> QED
  BY <1>0, <1>1, <1>2, Cases, Moving, Asking, Dropping, CallsRest DEF SpawnCall, vars

\* A call that goes on without an answer had not asked its own turn: the guard lets
\* no request replace another one, and a turn ends without a call of its own that
\* waits.
LEMMA SyntheticStep == IndInv /\ [Next]_vars => NoSyntheticAnswer'
<1> SUFFICES ASSUME IndInv, [Next]_vars PROVE NoSyntheticAnswer'
  OBVIOUS
<1>0. TypeOK /\ CallInv /\ NoSyntheticAnswer /\ TurnInv
  BY DEF IndInv
<1>1. ASSUME NEW c \in Call, NEW k \in Turn, SpawnCall(c, k) PROVE NoSyntheticAnswer'
  <2>1. /\ UNCHANGED <<asked, answerTo>> /\ pc'[c] = "queued"
        /\ \A d \in Call : d # c => pc'[d] = pc[d] /\ turn'[d] = turn[d]
    BY <1>0, <1>1 DEF TypeOK, SpawnCall
  <2> QED
    BY <1>0, <2>1 DEF NoSyntheticAnswer
<1>2. ASSUME NEW c \in Call, AcquireGuard(c) \/ PassGate(c) \/ FinishCall(c) \/ CallCancelled(c)
      PROVE  NoSyntheticAnswer'
  <2>1. /\ UNCHANGED <<turn, asked, answerTo>> /\ pc'[c] # "answered"
        /\ \A d \in Call : d # c => pc'[d] = pc[d]
    BY <1>0, <1>2, Moving
  <2> QED
    BY <1>0, <2>1 DEF NoSyntheticAnswer
<1>3. ASSUME NEW c \in Call, Ask(c) PROVE NoSyntheticAnswer'
  <2>1. /\ UNCHANGED <<turn, answerTo>> /\ turn[c] \in Turn
        /\ pc'[c] = "answered" => asked'[c] = None
        /\ \A d \in Call : d # c => pc'[d] = pc[d] /\ asked'[d] = asked[d]
    BY <1>3, Asking
  <2> QED
    BY <1>0, <2>1, Distinct DEF NoSyntheticAnswer
<1>4. ASSUME NEW c \in Call, NEW grants \in BOOLEAN, Notify(c, grants) PROVE NoSyntheticAnswer'
  <2>1. PICK d \in Call \cup {None} : Answers(c, d, grants)
    BY <1>4, Answering
  <2>2. UNCHANGED <<turn, asked>>
    BY <2>1 DEF Answers
  <2>3. CASE d # None /\ pc[d] = "waiting"
    <3>1. answerTo'[d] = c /\ \A e \in Call : e # d => pc'[e] = pc[e] /\ answerTo'[e] = answerTo[e]
      BY <1>0, <2>1, <2>3 DEF Answers, TypeOK
    <3> QED
      BY <1>0, <2>2, <3>1, Distinct DEF NoSyntheticAnswer
  <2>4. CASE ~(d # None /\ pc[d] = "waiting")
    BY <1>0, <2>1, <2>2, <2>4 DEF NoSyntheticAnswer, Answers
  <2> QED
    BY <2>3, <2>4
<1>5. ASSUME NEW k \in Turn, FinishTurn(k) \/ ClearPending(k) PROVE NoSyntheticAnswer'
  <2>1. /\ \A c \in Call : pc'[c] = IF pc[c] = "waiting" /\ asked[c] = k THEN "answered" ELSE pc[c]
        /\ \A c \in Call : turn[c] = k => pc[c] # "waiting"
        /\ UNCHANGED <<turn, asked, answerTo>>
    BY <1>5, Dropping
  <2> QED
    BY <1>0, <2>1 DEF NoSyntheticAnswer
<1>6. CASE UNCHANGED <<turn, pc, asked, answerTo>>
  BY <1>0, <1>6 DEF NoSyntheticAnswer
<1> QED
  BY <1>0, <1>1, <1>2, <1>3, <1>4, <1>5, <1>6, Cases, CallsRest DEF vars

\* A permission is recorded with the turn that holds the request: the call's own, or
\* one that began while the call's own was aborted.
LEMMA GrantStep == IndInv /\ [Next]_vars => GrantsOfTheTurn'
<1> SUFFICES ASSUME IndInv, [Next]_vars PROVE GrantsOfTheTurn'
  OBVIOUS
<1>0. TypeOK /\ CallInv /\ GrantsOfTheTurn /\ TurnInv /\ OpenInv /\ PendingInv
  BY DEF IndInv
<1>a. \A k \in Turn : \A c \in granted[k] : c \in Call /\ pc[c] # "idle"
  BY <1>0, Distinct DEF TypeOK, GrantsOfTheTurn, CallInv
<1>b. \A k \in Turn : phase[k] = "over" => phase'[k] = "over"
  BY TurnStep
<1>c. \A k \in Turn : \A c \in granted[k] : turn[c] \in Turn
  BY <1>0, <1>a DEF CallInv
<1>1. ASSUME UNCHANGED <<granted, turn, asked>> PROVE GrantsOfTheTurn'
  BY <1>0, <1>1, <1>b, <1>c DEF GrantsOfTheTurn
<1>2. ASSUME NEW c \in Call, NEW k \in Turn, SpawnCall(c, k) PROVE GrantsOfTheTurn'
  <2>1. UNCHANGED <<phase, granted, asked>> /\ pc[c] = "idle" /\ \A d \in Call : d # c => turn'[d] = turn[d]
    BY <1>0, <1>2 DEF TypeOK, SpawnCall, turnVars
  <2> QED
    BY <1>0, <1>a, <2>1 DEF GrantsOfTheTurn
<1>3. ASSUME NEW c \in Call, Ask(c) PROVE GrantsOfTheTurn'
  <2>1. /\ UNCHANGED <<phase, granted, turn>> /\ pc[c] = "running"
        /\ \A d \in Call : d # c => asked'[d] = asked[d]
    BY <1>3, Asking
  <2>2. asked[c] = None
    BY <1>0, <2>1 DEF CallInv
  <2> QED
    BY <1>0, <1>a, <2>1, <2>2, Distinct DEF GrantsOfTheTurn
<1>4. ASSUME NEW c \in Call, NEW grants \in BOOLEAN, Notify(c, grants) PROVE GrantsOfTheTurn'
  <2>1. PICK d \in Call \cup {None} : Answers(c, d, grants)
    BY <1>4, Answering
  <2>2. UNCHANGED <<turn, asked, phase>> /\ c \in open /\ ~Aborting
    BY <2>1 DEF Answers
  <2>3. CASE d # None /\ grants
    <3>1. /\ active \in Turn /\ KeyOf(c) \in Key /\ d = pending[active][KeyOf(c)] /\ c \in PermissionCall
          /\ granted' = [granted EXCEPT ![active] = @ \cup {c}]
      BY <2>1, <2>3 DEF Answers
    <3>2. turn[c] \in Turn /\ phase[turn[c]] # "new"
      BY <1>0, <2>2 DEF CallInv
    <3>3. d = c /\ asked[c] = active
      <4>1. KeyOf(d) = KeyOf(c) /\ asked[d] = active /\ pc[d] # "idle"
        BY <1>0, <2>3, <3>1 DEF PendingInv
      <4>2. turn[d] \in Turn
        BY <1>0, <2>3, <4>1 DEF CallInv
      <4> QED
        BY <2>3, <3>1, <3>2, <4>1, <4>2, SameKey, Distinct
    <3>4. turn[c] = active \/ phase[turn[c]] = "over"
      <4>1. ASSUME turn[c] # active PROVE phase[turn[c]] # "running"
        BY <1>0, <2>2, <3>3, <4>1 DEF OpenInv
      <4> QED
        BY <1>0, <2>2, <3>2, <4>1 DEF Aborting, TypeOK, Phase
    <3>5. \A k \in Turn : granted'[k] = IF k = active THEN granted[k] \cup {c} ELSE granted[k]
      BY <1>0, <3>1 DEF TypeOK
    <3>6. ASSUME NEW k \in Turn, NEW e \in granted'[k]
          PROVE  turn[e] = k \/ (asked[e] = k /\ phase[turn[e]] = "over")
      <4>1. CASE e \in granted[k]
        BY <1>0, <4>1 DEF GrantsOfTheTurn
      <4>2. CASE e \notin granted[k]
        <5>1. e = c /\ k = active
          BY <3>5, <3>6, <4>2
        <5> QED
          BY <3>3, <3>4, <5>1
      <4> QED
        BY <4>1, <4>2
    <3> QED
      BY <2>2, <3>6 DEF GrantsOfTheTurn
  <2>4. CASE ~(d # None /\ grants)
    BY <1>1, <2>1, <2>2, <2>4 DEF Answers
  <2> QED
    BY <2>3, <2>4
<1> QED
  BY <1>0, <1>1, <1>2, <1>3, <1>4, Cases, Moving, Dropping, CallsRest DEF vars

\* A call passes the gate when the snapshot is over.
LEMMA MutationStep == IndInv /\ [Next]_vars => MutatesAfterSnapshot'
<1> SUFFICES ASSUME IndInv, [Next]_vars PROVE MutatesAfterSnapshot'
  OBVIOUS
<1> DEFINE Acts(c) == pc[c] \in {"running", "waiting", "answered"}
<1>0. TypeOK /\ CallInv /\ GateInv /\ MutatesAfterSnapshot /\ CallInv'
  BY CallStepInv DEF IndInv
<1>a. \A k \in Turn : /\ Cancelled(k) => Cancelled(k)'
                      /\ snapshot[k] = "done" => snapshot'[k] = "done"
  <2>1. ASSUME NEW k \in Turn, StartSnapshot(k) \/ SnapshotEnds(k)
        PROVE  \A j \in Turn : snapshot[j] = "done" => snapshot'[j] = "done"
    BY <1>0, <2>1 DEF StartSnapshot, SnapshotEnds, TypeOK
  <2>2. ASSUME ~ \E k \in Turn : StartSnapshot(k) \/ SnapshotEnds(k) PROVE UNCHANGED snapshot
    BY <2>2 DEF Next, CallStep, Client, AbortStep, SpawnCall, AcquireGuard, PassGate, Ask, FinishCall,
                CallCancelled, Notify, NotifyAbort, Interrupt, CancelTask, KillTask, ClearPending,
                BeginTurn, FinishTurn, turnVars, vars
  <2> QED
    BY <2>1, <2>2, TurnStep
<1>1. ASSUME \A c \in MutatingCall : Acts(c)' =>
                /\ turn'[c] = turn[c]
                /\ Acts(c) \/ (pc[c] = "gate" /\ gate[turn[c]] # "pending")
      PROVE  MutatesAfterSnapshot'
  <2> SUFFICES ASSUME NEW c \in MutatingCall, Snapshots, Acts(c)'
               PROVE  snapshot'[turn'[c]] = "done" \/ Cancelled(turn[c])'
    BY DEF MutatesAfterSnapshot
  <2>1. turn[c] \in Turn /\ turn'[c] = turn[c] /\ snapshot[turn[c]] # "none"
    BY <1>0, <1>1, Distinct DEF CallInv
  <2>2. CASE Acts(c)
    BY <1>0, <1>a, <2>1, <2>2 DEF MutatesAfterSnapshot, Cancelled
  <2>3. CASE pc[c] = "gate" /\ gate[turn[c]] # "pending"
    <3>1. snapshot[turn[c]] = "done" \/ Cancelled(turn[c])
      BY <1>0, <2>1, <2>3 DEF GateInv, TypeOK
    <3> QED
      BY <1>a, <2>1, <3>1 DEF Cancelled
  <2> QED
    BY <1>1, <2>2, <2>3
<1>2. ASSUME NEW c \in Call, NEW k \in Turn, SpawnCall(c, k) PROVE MutatesAfterSnapshot'
  <2>1. pc'[c] = "queued" /\ \A d \in Call : d # c => pc'[d] = pc[d] /\ turn'[d] = turn[d]
    BY <1>0, <1>2 DEF TypeOK, SpawnCall
  <2> QED
    BY <1>1, <2>1, Distinct
<1>3. ASSUME NEW c \in Call, AcquireGuard(c) \/ FinishCall(c) \/ CallCancelled(c)
      PROVE  MutatesAfterSnapshot'
  <2>1. turn' = turn /\ (\A d \in Call : d # c => pc'[d] = pc[d]) /\ (c \in MutatingCall => ~Acts(c)')
    BY <1>0, <1>3 DEF TypeOK, AcquireGuard, FinishCall, CallCancelled
  <2> QED
    BY <1>1, <2>1, Distinct
<1>4. ASSUME NEW c \in Call, PassGate(c) PROVE MutatesAfterSnapshot'
  <2>1. /\ turn' = turn /\ \A d \in Call : d # c => pc'[d] = pc[d]
        /\ pc[c] = "gate" /\ gate[turn[c]] # "pending"
    BY <1>0, <1>4 DEF TypeOK, PassGate
  <2> QED
    BY <1>1, <2>1, Distinct
<1>5. ASSUME NEW c \in Call, Ask(c) PROVE MutatesAfterSnapshot'
  <2>1. turn' = turn /\ (\A d \in Call : d # c => pc'[d] = pc[d]) /\ pc[c] = "running"
    BY <1>5, Asking
  <2> QED
    BY <1>1, <2>1, Distinct
<1>6. ASSUME NEW c \in Call, NEW grants \in BOOLEAN, Notify(c, grants) PROVE MutatesAfterSnapshot'
  <2>1. PICK d \in Call \cup {None} : Answers(c, d, grants)
    BY <1>6, Answering
  <2>2. turn' = turn /\ \A e \in Call : pc'[e] = pc[e] \/ pc[e] = "waiting"
    BY <1>0, <2>1 DEF Answers, TypeOK
  <2> QED
    BY <1>1, <2>2, Distinct
<1>7. ASSUME NEW k \in Turn, FinishTurn(k) \/ ClearPending(k) PROVE MutatesAfterSnapshot'
  <2>1. turn' = turn /\ \A e \in Call : pc'[e] = pc[e] \/ pc[e] = "waiting"
    BY <1>7, Dropping
  <2> QED
    BY <1>1, <2>1, Distinct
<1>8. CASE UNCHANGED <<turn, pc>>
  BY <1>1, <1>8
<1> QED
  BY <1>0, <1>2, <1>3, <1>4, <1>5, <1>6, <1>7, <1>8, Cases, CallsRest DEF vars

------------------------------------------------------------------------------
(* The theorems.                                                             *)

\* The invariant holds before the first turn.
LEMMA Initially == Init => IndInv
<1> SUFFICES ASSUME Init PROVE IndInv
  OBVIOUS
<1> USE Distinct
<1>1. TypeOK
  BY DEF Init, TypeOK, Phase, Label
<1>2. TurnInv /\ CallInv /\ PendingInv
  BY DEF Init, TurnInv, CallInv, PendingInv
<1>3. GuardInv /\ OpenInv /\ GateInv
  BY DEF Init, GuardInv, OpenInv, GateInv, Holding
<1>4. AnswerToItsQuestion /\ NoSyntheticAnswer /\ GrantsOfTheTurn /\ MutatesAfterSnapshot
  BY DEF Init, AnswerToItsQuestion, NoSyntheticAnswer, GrantsOfTheTurn, MutatesAfterSnapshot
<1> QED
  BY <1>1, <1>2, <1>3, <1>4 DEF IndInv

\* Every step keeps it.
LEMMA Inductive == IndInv /\ [Next]_vars => IndInv'
  BY TypeStep, TurnStep, CallStepInv, PendingStep, GuardStep, OpenStep, GateStep, AnswerStep,
     SyntheticStep, GrantStep, MutationStep DEF IndInv

\* It holds in every state of the session.
THEOREM Invariance == Spec => []IndInv
  BY Initially, Inductive, PTL DEF Spec

\* Every variable keeps its type; the permissions of a turn are of requests for
\* permissions.
THEOREM TypeCorrect == Spec => []TypeOK
<1>1. IndInv => TypeOK
  BY DEF IndInv
<1> QED
  BY <1>1, Invariance, PTL

\* An answer reaches the call it was given to.
THEOREM AnswersReach == Spec => []AnswerToItsQuestion
<1>1. IndInv => AnswerToItsQuestion
  BY DEF IndInv
<1> QED
  BY <1>1, Invariance, PTL

\* A question that its own turn holds is answered by the client or not at all.
THEOREM NoneSynthetic == Spec => []NoSyntheticAnswer
<1>1. IndInv => NoSyntheticAnswer
  BY DEF IndInv
<1> QED
  BY <1>1, Invariance, PTL

\* A call that waits is held by a turn that is active or being aborted.
THEOREM WaitersHeld == Spec => []WaiterHeld
<1>1. IndInv => WaiterHeld
  <2> SUFFICES ASSUME IndInv, NEW c \in Call, pc[c] = "waiting"
               PROVE  \E k \in Turn : pending[k][KeyOf(c)] = c /\ phase[k] \notin {"new", "over"}
    BY DEF WaiterHeld
  <2>1. asked[c] \in Turn /\ pending[asked[c]][KeyOf(c)] = c /\ KeyOf(c) \in Key
    BY KeyType DEF IndInv, CallInv, PendingInv
  <2>2. phase[asked[c]] \notin {"new", "over"}
    BY <2>1, Distinct DEF IndInv, PendingInv
  <2> QED
    BY <2>1, <2>2
<1> QED
  BY <1>1, Invariance, PTL

\* A permission granted for a turn is of a call of that turn, but for one that asked
\* while its own turn was aborted and another had begun.
THEOREM GrantsKept == Spec => []GrantsOfTheTurn
<1>1. IndInv => GrantsOfTheTurn
  BY DEF IndInv
<1> QED
  BY <1>1, Invariance, PTL

\* No mutating call runs before the turn's snapshot is taken, unless the turn is
\* cancelled.
THEOREM SnapshotFirst == Spec => []MutatesAfterSnapshot
<1>1. IndInv => MutatesAfterSnapshot
  BY DEF IndInv
<1> QED
  BY <1>1, Invariance, PTL
==============================================================================
