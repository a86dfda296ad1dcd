-------------------------- MODULE UnifiedExecProofs --------------------------
(***************************************************************************)
(* The background processes of a session, for any number of calls, any     *)
(* limit of the store and any number of interrupts and cleanups.           *)
(***************************************************************************)
EXTENDS UnifiedExec, FiniteSetTheorems, WellFoundedInduction, TLAPS

\* The calls that are past opening their process.
Opened == {c \in Call : pc[c] \notin {"idle", "allocated"}}
\* The ids with an entry.
Full == {i \in Id : store[i] # None}

\* A call has an id from its start, and a process and a time of use from its opening;
\* of the running processes none has a failure.
CallInv ==
  \A c \in Call :
    /\ pc[c] # "idle" => id[c] \in Id
    /\ pc[c] \in {"idle", "allocated"} => proc[c] = "none"
    /\ pc[c] \in {"storing", "pruned", "watch", "yield"} => lastUsed[c] > 0
    /\ c \in failed => proc[c] = "exited"

\* An entry is under the id its call was given, and was used.
StoreInv ==
  \A i \in Id : store[i] # None =>
    /\ id[store[i]] = i
    /\ pc[store[i]] \in {"pruned", "watch", "yield", "done"}
    /\ lastUsed[store[i]] > 0

\* No two processes were used at the same time, and each use is an opening or a
\* write: the time is within its bound.
UseInv ==
  /\ used = lastUsed
  /\ \A c \in Call : lastUsed[c] <= clock
  /\ \A c, d \in Call : c # d /\ lastUsed[c] = lastUsed[d] => lastUsed[c] = 0
  /\ clock <= Cardinality(Opened) + polls

\* Nobody else is at work during a write_stdin, so its id denotes its process or
\* nothing.
PollInv ==
  poll = Idle \/
  /\ InFlight = {}
  /\ poll.id \in Id /\ poll.proc \in Call
  /\ store[poll.id] \in {poll.proc, None}

\* Two calls that use the same id, in flight or with an entry, have clashed; the id
\* of a call that is about to store is its own, unless all were given up.
IdInv ==
  /\ \A c, d \in InFlight \cup Stored : c # d /\ id[c] = id[d] => c \in clash
  /\ \A c \in Call : pc[c] \in {"allocated", "storing"} =>
       id[c] \in reserved \/ c \in stale \cup clash

\* The end is reported by the watcher, once there is one, or by a short-lived call.
EndInv ==
  \A c \in Call :
    /\ pc[c] \notin {"yield", "done"} => ends[c] = 0 /\ c \notin watched
    /\ c \in watched => ends[c] = 0

\* A running process that is past being stored does not depend on its call.
OrphanInv ==
  \A p \in Call : proc[p] = "alive" /\ pc[p] # "storing" =>
    \/ p \in Stored \/ p \in killed
    \/ \E c \in Call : victim[c] = p
    \/ p \in abandoned \/ p \in clash

\* The inductive invariant.
IndInv ==
  /\ TypeOK /\ CallInv /\ StoreInv /\ UseInv /\ PollInv /\ IdInv /\ EndInv /\ OrphanInv
  /\ StoreBounded /\ StoredIdReserved /\ OneEnd

------------------------------------------------------------------------------
(* Facts about the store and its clock.                                      *)

\* A nonempty set of naturals has a least element.
LEMMA LeastOfNaturals ==
  ASSUME NEW S \in SUBSET Nat, S # {}
  PROVE  \E n \in S : \A m \in S : n <= m
<1>1. PICK n \in S : \A m \in S : ~(<<m, n>> \in OpToRel(<, Nat))
  BY NatLessThanWellFounded, WFMin
<1>2. ASSUME NEW m \in S PROVE n <= m
  <2>1. ~(<<m, n>> \in OpToRel(<, Nat))
    BY <1>1
  <2>2. ~(m < n)
    BY <2>1 DEF OpToRel
  <2> QED
    BY <2>2
<1> QED
  BY <1>2

\* What the constants are.
LEMMA Bounds ==
  /\ MaxProcesses \in Nat /\ Protected \in Nat /\ Protected < MaxProcesses
  /\ MaxCalls \in Nat /\ MaxPolls \in Nat /\ MaxFaults \in Nat
  /\ None \notin Call /\ None \notin Id /\ None \notin Time
  /\ Call \subseteq Nat /\ Call = Id
  BY StoreAssumption DEF Call, Id, Time

\* There are finitely many calls and ids.
LEMMA Finite ==
  ASSUME NEW S \in SUBSET Call
  PROVE  IsFiniteSet(S) /\ Cardinality(S) \in Nat /\ Cardinality(S) <= MaxCalls
<1>1. IsFiniteSet(Call) /\ Cardinality(Call) = MaxCalls
  <2>1. IsFiniteSet(1..MaxCalls)
    BY Bounds, FS_Interval
  <2>2. Cardinality(1..MaxCalls) = IF 1 > MaxCalls THEN 0 ELSE MaxCalls - 1 + 1
    BY Bounds, FS_Interval
  <2> QED
    BY <2>1, <2>2, Bounds DEF Call
<1>2. IsFiniteSet(S) /\ Cardinality(S) <= Cardinality(Call)
  BY <1>1, FS_Subset
<1>3. Cardinality(S) \in Nat
  BY <1>2, FS_CardinalityType
<1> QED
  BY <1>1, <1>2, <1>3

\* An entry and its reservation are removed, whatever the entry denotes.
LEMMA Removed ==
  ASSUME TypeOK, NEW i \in Id, Remove(i)
  PROVE  /\ store' \in [Id -> Call \cup {None}] /\ reserved' = reserved \ {i}
         /\ store'[i] = None /\ \A j \in Id : j # i => store'[j] = store[j]
  BY DEF TypeOK, Remove

\* A refresh removes only an entry whose process has exited.
LEMMA Refreshed ==
  ASSUME TypeOK, NEW i \in Id, Refresh(i)
  PROVE  \/ store' = store /\ reserved' = reserved
         \/ Remove(i) /\ store[i] # None /\ proc[store[i]] = "exited"
  BY DEF Refresh

\* The steps that end a call or a write and may give its id back.
LEMMA GivesBack ==
  ASSUME IndInv, NEW c \in Call,
         Reject(c) \/ OpenFails(c) \/ Return(c) \/ ReturnShort(c)
  PROVE  /\ id[c] \in Id
         /\ Remove(id[c]) \/ (store' = store /\ reserved' = reserved)
         /\ store' \in [Id -> Call \cup {None}] /\ reserved' \subseteq Id
<1>1. pc[c] # "idle"
  BY DEF Reject, OpenFails, Return, ReturnShort
<1>2. id[c] \in Id
  BY <1>1 DEF IndInv, CallInv
<1>3. Remove(id[c]) \/ (store' = store /\ reserved' = reserved)
  BY <1>2 DEF Reject, OpenFails, Return, ReturnShort, Refresh
<1>4. TypeOK /\ store \in [Id -> Call \cup {None}] /\ reserved \subseteq Id
  BY DEF IndInv, TypeOK
<1>5. ASSUME Remove(id[c]) PROVE store' \in [Id -> Call \cup {None}] /\ reserved' = reserved \ {id[c]}
  BY <1>2, <1>4, <1>5, Removed
<1> QED
  BY <1>2, <1>3, <1>4, <1>5

\* ... and the ends of a write.
LEMMA PollGivesBack ==
  ASSUME IndInv, WriteFails \/ PollEnds
  PROVE  /\ poll.id \in Id /\ poll # Idle
         /\ Remove(poll.id) \/ (store' = store /\ reserved' = reserved)
         /\ store' \in [Id -> Call \cup {None}] /\ reserved' \subseteq Id
<1>1. poll # Idle
  BY DEF Idle, WriteFails, PollEnds
<1>2. poll.id \in Id
  BY <1>1 DEF IndInv, PollInv
<1>3. Remove(poll.id) \/ (store' = store /\ reserved' = reserved)
  BY <1>1, <1>2 DEF WriteFails, PollEnds, Refresh
<1>4. TypeOK /\ store \in [Id -> Call \cup {None}] /\ reserved \subseteq Id
  BY DEF IndInv, TypeOK
<1>5. ASSUME Remove(poll.id) PROVE store' \in [Id -> Call \cup {None}] /\ reserved' = reserved \ {poll.id}
  BY <1>2, <1>4, <1>5, Removed
<1> QED
  BY <1>1, <1>2, <1>3, <1>4, <1>5

\* The time of another use is within its bound.
LEMMA TimeLeft ==
  ASSUME IndInv, Opened # Call \/ polls < MaxPolls
  PROVE  clock + 1 \in Time
<1>1. Opened \in SUBSET Call /\ polls \in 0..MaxPolls /\ clock \in Time
  BY DEF Opened, IndInv, TypeOK
<1>2. Cardinality(Opened) \in Nat /\ Cardinality(Opened) <= MaxCalls
  BY <1>1, Finite
<1>3. Opened # Call => Cardinality(Opened) < MaxCalls
  <2> SUFFICES ASSUME Opened # Call PROVE Cardinality(Opened) < MaxCalls
    OBVIOUS
  <2>1. PICK c \in Call : c \notin Opened
    BY <1>1
  <2>2. Opened \cup {c} \in SUBSET Call
    BY <1>1
  <2>3. IsFiniteSet(Opened)
    BY <1>1, Finite
  <2>4. Cardinality(Opened \cup {c}) = Cardinality(Opened) + 1
    BY <2>1, <2>3, FS_AddElement
  <2>5. Cardinality(Opened \cup {c}) <= MaxCalls
    BY <2>2, Finite
  <2> QED
    BY <1>2, <2>4, <2>5, Bounds
<1>4. clock <= Cardinality(Opened) + polls
  BY DEF IndInv, UseInv
<1> QED
  BY <1>1, <1>2, <1>3, <1>4, Bounds DEF Time

\* What store_process does, with the entries it prunes named.
Stores(c, pruned) ==
  /\ pruned = IF MustPrune THEN {i \in Id : store[i] # None /\ store[i] = ToPrune} ELSE {}
  /\ pc[c] = "storing"
  /\ store' = [i \in Id |-> IF i = id[c] THEN c ELSE IF i \in pruned THEN None ELSE store[i]]
  /\ reserved' = reserved \ pruned
  /\ victim' = [victim EXCEPT ![c] = IF pruned = {} THEN None ELSE ToPrune]
  /\ pc' = [pc EXCEPT ![c] = IF pruned = {} THEN "watch" ELSE "pruned"]

\* It is what store_process does.
LEMMA Storing ==
  ASSUME NEW c \in Call, StoreProcess(c)
  PROVE  \E pruned \in SUBSET Id : Stores(c, pruned)
  BY DEF StoreProcess, Stores, Go

------------------------------------------------------------------------------
(* Type correctness.                                                         *)

\* Every step keeps the types; the time does because each use is an opening or a write.
LEMMA TypeStep == IndInv /\ [Next]_vars => TypeOK'
<1> SUFFICES ASSUME IndInv, [Next]_vars PROVE TypeOK'
  OBVIOUS
<1>0. TypeOK
  BY DEF IndInv
<1> USE Bounds
<1>1. ASSUME NEW c \in Call, NEW i \in Id, Allocate(c, i) PROVE TypeOK'
  <2>1. clash' \subseteq Call
    BY <1>0, <1>1 DEF TypeOK, Allocate, InFlight, Stored
  <2>2. UNCHANGED <<failed, killed, watched, stale, abandoned>>
    BY <1>1 DEF Allocate, procVars
  <2>3. (failed \cup killed \cup watched \cup stale \cup clash \cup abandoned)' \subseteq Call
    BY <1>0, <2>1, <2>2 DEF TypeOK
  <2> QED
    BY <1>0, <1>1, <2>3 DEF TypeOK, Allocate, Go, useVars, pollVars, procVars, Label
<1>2. ASSUME NEW c \in Call, Reject(c) PROVE TypeOK'
  <2>1. store' \in [Id -> Call \cup {None}] /\ reserved' \subseteq Id
    BY <1>2, GivesBack
  <2> QED
    BY <1>0, <1>2, <2>1
    DEF TypeOK, Reject, Go, useVars, pollVars, procVars, history, Label, Terminates
<1>3. ASSUME NEW c \in Call, OpenSession(c) PROVE TypeOK'
  <2>1. clock + 1 \in Time
    BY <1>3, TimeLeft DEF OpenSession, Opened
  <2> QED
    BY <1>0, <1>3, <2>1 DEF TypeOK, OpenSession, Go, pollVars, history, Label
<1>4. ASSUME NEW c \in Call, OpenFails(c) PROVE TypeOK'
  <2>1. store' \in [Id -> Call \cup {None}] /\ reserved' \subseteq Id
    BY <1>4, GivesBack
  <2> QED
    BY <1>0, <1>4, <2>1
    DEF TypeOK, OpenFails, Go, useVars, pollVars, procVars, history, Label, Terminates
<1>5. ASSUME NEW c \in Call, StoreProcess(c) PROVE TypeOK'
  <2>1. PICK pruned \in SUBSET Id : Stores(c, pruned)
    BY <1>5, Storing DEF IndInv
  <2>2. ASSUME pruned # {} PROVE ToPrune \in Call
    <3>1. PICK i \in Id : store[i] = ToPrune /\ store[i] # None
      BY <2>1, <2>2 DEF Stores
    <3> QED
      BY <1>0, <3>1 DEF TypeOK
  <2>3. victim' \in [Call -> Call \cup {None}] /\ pc' \in [Call -> Label]
        /\ \A d \in Call : victim'[d] # None => pc'[d] = "pruned"
    <3>1. pc[c] = "storing"
      BY <1>5 DEF StoreProcess
    <3> QED
      BY <1>0, <2>1, <2>2, <3>1 DEF Stores, TypeOK, Label
  <2>4. store' \in [Id -> Call \cup {None}] /\ reserved' \subseteq Id
    BY <1>0, <2>1 DEF Stores, TypeOK
  <2> QED
    BY <1>0, <1>5, <2>3, <2>4
    DEF TypeOK, StoreProcess, useVars, pollVars, procVars, history, Terminates
<1>6. ASSUME NEW c \in Call, TerminatePruned(c) PROVE TypeOK'
  BY <1>0, <1>6
  DEF TypeOK, TerminatePruned, Go, useVars, pollVars, procVars, history, Label, Terminates
<1>7. ASSUME NEW c \in Call, SpawnWatcher(c) PROVE TypeOK'
  BY <1>0, <1>7 DEF TypeOK, SpawnWatcher, Go, useVars, pollVars, procVars, history, Label
<1>8. ASSUME NEW c \in Call, Return(c) PROVE TypeOK'
  <2>1. store' \in [Id -> Call \cup {None}] /\ reserved' \subseteq Id
    BY <1>8, GivesBack
  <2> QED
    BY <1>0, <1>8, <2>1
    DEF TypeOK, Return, Go, useVars, pollVars, procVars, history, Label, Terminates
<1>9. ASSUME NEW c \in Call, ReturnShort(c) PROVE TypeOK'
  <2>1. store' \in [Id -> Call \cup {None}] /\ reserved' \subseteq Id
    BY <1>9, GivesBack
  <2>2. ends' \in [Call -> Nat]
    BY <1>0, <1>9 DEF TypeOK, ReturnShort
  <2> QED
    BY <1>0, <1>9, <2>1, <2>2
    DEF TypeOK, ReturnShort, Go, useVars, pollVars, procVars, history, Label, Terminates
<1>10. ASSUME NEW c \in Call, Interrupt(c) PROVE TypeOK'
  BY <1>0, <1>10
  DEF TypeOK, Interrupt, Go, Fault, useVars, pollVars, procVars, history, Label, Terminates
<1>11. ASSUME NEW c \in Call, Exits(c) PROVE TypeOK'
  BY <1>0, <1>11 DEF TypeOK, Exits, useVars, callVars, pollVars, history
<1>12. ASSUME NEW c \in Call, WatcherReports(c) PROVE TypeOK'
  BY <1>0, <1>12
  DEF TypeOK, WatcherReports, useVars, callVars, pollVars, procVars, history, Terminates
<1>13. CASE Write
  BY <1>0, <1>13 DEF TypeOK, Write, useVars, callVars, procVars, history
<1>14. CASE WriteFails
  <2>1. store' \in [Id -> Call \cup {None}] /\ reserved' \subseteq Id
    BY <1>14, PollGivesBack
  <2> QED
    BY <1>0, <1>14, <2>1
    DEF TypeOK, WriteFails, Idle, useVars, callVars, procVars, history, Terminates
<1>15. CASE PollEnds
  <2>1. store' \in [Id -> Call \cup {None}] /\ reserved' \subseteq Id
    BY <1>15, PollGivesBack
  <2> QED
    BY <1>0, <1>15, <2>1
    DEF TypeOK, PollEnds, Idle, useVars, callVars, procVars, history, Terminates
<1>16. CASE PollInterrupted
  BY <1>0, <1>16
  DEF TypeOK, PollInterrupted, Idle, Fault, useVars, callVars, procVars, history, Terminates
<1>17. CASE TerminateAll
  <2>1. (failed \cup killed \cup watched \cup stale \cup clash \cup abandoned)' \subseteq Call
    BY <1>0, <1>17 DEF TypeOK, TerminateAll, procVars, InFlight, Terminates
  <2> QED
    BY <1>0, <1>17, <2>1 DEF TypeOK, TerminateAll, Fault, useVars, callVars, pollVars, procVars
<1>18. ASSUME NEW i \in Id, Prepare(i) PROVE TypeOK'
  <2>1. clock + 1 \in Time
    BY <1>18, TimeLeft DEF Prepare
  <2> QED
    BY <1>0, <1>18, <2>1 DEF TypeOK, Prepare, callVars, procVars, history
<1>19. CASE UNCHANGED vars
  BY <1>0, <1>19 DEF TypeOK, vars
<1> QED
  BY <1>1, <1>2, <1>3, <1>4, <1>5, <1>6, <1>7, <1>8, <1>9, <1>10, <1>11, <1>12,
     <1>13, <1>14, <1>15, <1>16, <1>17, <1>18, <1>19
  DEF Next, CallStep, ProcessStep, PollStep

------------------------------------------------------------------------------
(* Calls, their entries and their ends.                                      *)

\* What a call does once it has an id, besides opening its process: it goes on with
\* the id, the process and the time of use it has.
Ongoing(c) ==
  \/ Reject(c) \/ OpenFails(c) \/ StoreProcess(c) \/ TerminatePruned(c)
  \/ SpawnWatcher(c) \/ Return(c) \/ ReturnShort(c) \/ Interrupt(c)

\* A call that goes on is in flight, and leaves every other call where it is.
LEMMA GoesOn ==
  ASSUME TypeOK, NEW c \in Call, Ongoing(c)
  PROVE  /\ UNCHANGED <<id, proc, failed, lastUsed, clock, used, poll, polls>>
         /\ pc[c] \notin {"idle", "done"} /\ pc'[c] \in {"pruned", "watch", "yield", "done"}
         /\ pc'[c] \in {"pruned", "watch", "yield"} => pc[c] \in {"storing", "pruned", "watch"}
         /\ \A d \in Call : d # c => pc'[d] = pc[d]
<1> USE DEF TypeOK, Go, useVars, procVars, pollVars
<1>1. CASE Reject(c) \/ OpenFails(c)
  BY <1>1 DEF Reject, OpenFails
<1>2. CASE StoreProcess(c)
  BY <1>2 DEF StoreProcess
<1>3. CASE TerminatePruned(c)
  BY <1>3 DEF TerminatePruned
<1>4. CASE SpawnWatcher(c)
  BY <1>4 DEF SpawnWatcher
<1>5. CASE Return(c) \/ ReturnShort(c)
  BY <1>5 DEF Return, ReturnShort
<1>6. CASE Interrupt(c)
  BY <1>6 DEF Interrupt, InFlight
<1> QED
  BY <1>1, <1>2, <1>3, <1>4, <1>5, <1>6 DEF Ongoing

\* The steps that concern no call.
Apart ==
  \/ \E p \in Call : WatcherReports(p)
  \/ Write \/ WriteFails \/ PollEnds \/ PollInterrupted \/ TerminateAll
  \/ UNCHANGED vars

\* They leave the calls, their processes and the times of use alone.
LEMMA Aside ==
  ASSUME TypeOK, Apart
  PROVE  /\ UNCHANGED <<pc, id, victim, proc, failed, lastUsed, clock, used, polls>>
         /\ reserved' \subseteq reserved \/ UNCHANGED vars
<1> USE DEF useVars, procVars, pollVars, callVars
<1>1. CASE \E p \in Call : WatcherReports(p)
  BY <1>1 DEF WatcherReports
<1>2. CASE Write
  BY <1>2 DEF Write
<1>3. CASE WriteFails \/ PollEnds
  BY <1>3 DEF WriteFails, PollEnds, Refresh, Remove
<1>4. CASE PollInterrupted
  BY <1>4 DEF PollInterrupted
<1>5. CASE TerminateAll
  BY <1>5 DEF TerminateAll
<1>6. CASE UNCHANGED vars
  BY <1>6 DEF vars
<1> QED
  BY <1>1, <1>2, <1>3, <1>4, <1>5, <1>6 DEF Apart

\* The cases of a step.
LEMMA Cases ==
  ASSUME [Next]_vars
  PROVE  \/ \E c \in Call, i \in Id : Allocate(c, i)
         \/ \E c \in Call : OpenSession(c)
         \/ \E c \in Call : Ongoing(c)
         \/ \E p \in Call : Exits(p)
         \/ \E i \in Id : Prepare(i)
         \/ Apart
  BY DEF Next, CallStep, ProcessStep, PollStep, Ongoing, Apart

\* Every step keeps what a call has.
LEMMA CallStepInv == IndInv /\ [Next]_vars => CallInv'
<1> SUFFICES ASSUME IndInv, [Next]_vars PROVE CallInv'
  OBVIOUS
<1>0. TypeOK /\ CallInv
  BY DEF IndInv
<1>1. ASSUME NEW c \in Call, NEW i \in Id, Allocate(c, i) PROVE CallInv'
  BY <1>0, <1>1 DEF TypeOK, CallInv, Allocate, Go, useVars, procVars
<1>2. ASSUME NEW c \in Call, OpenSession(c) PROVE CallInv'
  <2>1. clock + 1 > 0
    BY <1>0, Bounds DEF TypeOK, Time
  <2>2. c \notin failed
    BY <1>0, <1>2 DEF CallInv, OpenSession
  <2> QED
    BY <1>0, <1>2, <2>1, <2>2 DEF TypeOK, CallInv, OpenSession, Go
<1>3. ASSUME NEW c \in Call, Ongoing(c) PROVE CallInv'
  <2>1. /\ UNCHANGED <<id, proc, failed, lastUsed>>
        /\ pc[c] # "idle" /\ pc'[c] \in {"pruned", "watch", "yield", "done"}
        /\ pc'[c] \in {"pruned", "watch", "yield"} => pc[c] \in {"storing", "pruned", "watch"}
        /\ \A d \in Call : d # c => pc'[d] = pc[d]
    BY <1>0, <1>3, GoesOn
  <2> QED
    BY <1>0, <2>1 DEF CallInv
<1>4. ASSUME NEW p \in Call, Exits(p) PROVE CallInv'
  BY <1>0, <1>4 DEF TypeOK, CallInv, Exits, callVars, useVars
<1>5. ASSUME NEW i \in Id, Prepare(i) PROVE CallInv'
  <2>1. clock + 1 > 0
    BY <1>0, Bounds DEF TypeOK, Time
  <2>2. store[i] \in Call
    BY <1>0, <1>5 DEF TypeOK, Prepare
  <2> QED
    BY <1>0, <1>5, <2>1, <2>2 DEF TypeOK, CallInv, Prepare, callVars, procVars
<1>6. ASSUME Apart PROVE CallInv'
  BY <1>0, <1>6, Aside DEF CallInv
<1> QED
  BY <1>1, <1>2, <1>3, <1>4, <1>5, <1>6, Cases

\* Outside of store_process, a call gives up its id or leaves the store alone.
LEMMA OwnIdOnly ==
  ASSUME IndInv, NEW c \in Call, Ongoing(c), ~StoreProcess(c)
  PROVE  /\ id[c] \in Id
         /\ Remove(id[c]) \/ (store' = store /\ reserved' = reserved)
         /\ \A i \in Id : store'[i] \in {store[i], None} /\ (i # id[c] => store'[i] = store[i])
<1>1. TypeOK
  BY DEF IndInv
<1>2. id[c] \in Id
  BY <1>1, GoesOn DEF IndInv, CallInv
<1>3. Remove(id[c]) \/ (store' = store /\ reserved' = reserved)
  <2>1. CASE Reject(c) \/ OpenFails(c) \/ Return(c) \/ ReturnShort(c)
    BY <2>1, GivesBack
  <2>2. CASE TerminatePruned(c) \/ SpawnWatcher(c) \/ Interrupt(c)
    BY <2>2 DEF TerminatePruned, SpawnWatcher, Interrupt
  <2> QED
    BY <2>1, <2>2 DEF Ongoing
<1>4. ASSUME Remove(id[c]), NEW i \in Id
      PROVE  store'[i] \in {store[i], None} /\ (i # id[c] => store'[i] = store[i])
  BY <1>1, <1>2, <1>4, Removed
<1> QED
  BY <1>2, <1>3, <1>4

\* No other step adds an entry.
LEMMA NoNewEntry ==
  ASSUME IndInv, Apart
  PROVE  \A i \in Id : store'[i] \in {store[i], None}
<1>1. CASE WriteFails \/ PollEnds
  <2>1. poll.id \in Id /\ (Remove(poll.id) \/ store' = store)
    BY <1>1, PollGivesBack
  <2>2. ASSUME Remove(poll.id), NEW i \in Id PROVE store'[i] \in {store[i], None}
    BY <2>1, <2>2, Removed DEF IndInv
  <2> QED
    BY <2>1, <2>2
<1>2. CASE TerminateAll
  BY <1>2 DEF TerminateAll
<1>3. CASE (\E p \in Call : WatcherReports(p)) \/ Write \/ PollInterrupted \/ UNCHANGED vars
  BY <1>3 DEF WatcherReports, Write, PollInterrupted, vars
<1> QED
  BY <1>1, <1>2, <1>3 DEF Apart

\* Every step keeps the entries under the ids of their calls.
LEMMA StoreStepInv == IndInv /\ [Next]_vars => StoreInv'
<1> SUFFICES ASSUME IndInv, [Next]_vars PROVE StoreInv'
  OBVIOUS
<1>0. TypeOK /\ StoreInv /\ CallInv
  BY DEF IndInv
<1>1. ASSUME NEW c \in Call, NEW i \in Id, Allocate(c, i) PROVE StoreInv'
  BY <1>0, <1>1 DEF TypeOK, StoreInv, Allocate, Go, useVars
<1>2. ASSUME NEW c \in Call, OpenSession(c) PROVE StoreInv'
  BY <1>0, <1>2 DEF TypeOK, StoreInv, OpenSession, Go
<1>3. ASSUME NEW c \in Call, StoreProcess(c) PROVE StoreInv'
  <2>1. PICK pruned \in SUBSET Id : Stores(c, pruned)
    BY <1>3, Storing
  <2>2. UNCHANGED <<id, lastUsed>> /\ pc'[c] \in {"watch", "pruned"} /\ pc[c] = "storing"
        /\ \A d \in Call : d # c => pc'[d] = pc[d]
    BY <1>0, <1>3, <2>1, GoesOn DEF Ongoing, Stores, TypeOK
  <2>3. lastUsed[c] > 0
    BY <1>0, <2>2 DEF CallInv
  <2>4. ASSUME NEW i \in Id, store'[i] # None
        PROVE  (i = id[c] /\ store'[i] = c) \/ (store'[i] = store[i] /\ store[i] # c /\ store[i] \in Call)
    BY <1>0, <2>1, <2>2, <2>4 DEF Stores, TypeOK, StoreInv
  <2> QED
    BY <1>0, <2>2, <2>3, <2>4 DEF StoreInv
<1>4. ASSUME NEW c \in Call, Ongoing(c), ~StoreProcess(c) PROVE StoreInv'
  <2>1. UNCHANGED <<id, lastUsed>> /\ pc'[c] \in {"pruned", "watch", "yield", "done"}
        /\ \A d \in Call : d # c => pc'[d] = pc[d]
    BY <1>0, <1>4, GoesOn
  <2>2. \A i \in Id : store'[i] \in {store[i], None}
    BY <1>4, OwnIdOnly
  <2> QED
    BY <1>0, <2>1, <2>2 DEF StoreInv, TypeOK
<1>5. ASSUME NEW p \in Call, Exits(p) PROVE StoreInv'
  BY <1>0, <1>5 DEF StoreInv, Exits, callVars, useVars
<1>6. ASSUME NEW i \in Id, Prepare(i) PROVE StoreInv'
  <2>1. clock + 1 > 0
    BY <1>0, Bounds DEF TypeOK, Time
  <2> QED
    BY <1>0, <1>6, <2>1 DEF TypeOK, StoreInv, Prepare, callVars
<1>7. ASSUME Apart PROVE StoreInv'
  BY <1>0, <1>7, Aside, NoNewEntry DEF StoreInv
<1> QED
  BY <1>1, <1>2, <1>3, <1>4, <1>5, <1>6, <1>7, Cases

\* Every step keeps the ends to one, and the watcher the only one to report it.
LEMMA EndStepInv == IndInv /\ [Next]_vars => EndInv' /\ OneEnd'
<1> SUFFICES ASSUME IndInv, [Next]_vars PROVE EndInv' /\ OneEnd'
  OBVIOUS
<1>0. TypeOK /\ EndInv /\ OneEnd
  BY DEF IndInv
<1> USE <1>0 DEF TypeOK, EndInv, OneEnd
<1>1. ASSUME NEW c \in Call, NEW i \in Id, Allocate(c, i) PROVE EndInv' /\ OneEnd'
  BY <1>1 DEF Allocate, Go
<1>2. ASSUME NEW c \in Call, OpenSession(c) PROVE EndInv' /\ OneEnd'
  BY <1>2 DEF OpenSession, Go
<1>3. ASSUME NEW c \in Call, Reject(c) \/ OpenFails(c) \/ Return(c) \/ Interrupt(c) PROVE EndInv' /\ OneEnd'
  BY <1>3 DEF Reject, OpenFails, Return, Interrupt, Go
<1>4. ASSUME NEW c \in Call, StoreProcess(c) PROVE EndInv' /\ OneEnd'
  BY <1>4 DEF StoreProcess, Go
<1>5. ASSUME NEW c \in Call, TerminatePruned(c) PROVE EndInv' /\ OneEnd'
  BY <1>5 DEF TerminatePruned, Go
<1>6. ASSUME NEW c \in Call, SpawnWatcher(c) PROVE EndInv' /\ OneEnd'
  BY <1>6 DEF SpawnWatcher, Go
<1>7. ASSUME NEW c \in Call, ReturnShort(c) PROVE EndInv' /\ OneEnd'
  BY <1>7 DEF ReturnShort, Go
<1>8. ASSUME NEW p \in Call, Exits(p) PROVE EndInv' /\ OneEnd'
  BY <1>8 DEF Exits, callVars
<1>9. ASSUME NEW p \in Call, WatcherReports(p) PROVE EndInv' /\ OneEnd'
  BY <1>9 DEF WatcherReports, callVars
<1>10. ASSUME NEW i \in Id, Prepare(i) PROVE EndInv' /\ OneEnd'
  BY <1>10 DEF Prepare, callVars
<1>11. ASSUME Write \/ WriteFails \/ PollEnds \/ PollInterrupted \/ TerminateAll \/ UNCHANGED vars
       PROVE  EndInv' /\ OneEnd'
  <2>1. UNCHANGED <<pc, watched, ends>>
    BY <1>11 DEF Write, WriteFails, PollEnds, PollInterrupted, TerminateAll, vars, callVars
  <2> QED
    BY <2>1
<1> QED
  BY <1>1, <1>2, <1>3, <1>4, <1>5, <1>6, <1>7, <1>8, <1>9, <1>10, <1>11, Cases DEF Apart, Ongoing

------------------------------------------------------------------------------
(* The times of use.                                                         *)

\* Each use is at a new time, and counts as an opening or a write.
LEMMA UseStepInv == IndInv /\ [Next]_vars => UseInv'
<1> SUFFICES ASSUME IndInv, [Next]_vars PROVE UseInv'
  OBVIOUS
<1>0. TypeOK /\ UseInv /\ clock \in Nat /\ polls \in Nat /\ \A c \in Call : lastUsed[c] \in Nat
  BY Bounds DEF IndInv, TypeOK, Time
<1>1. /\ Opened \in SUBSET Call /\ IsFiniteSet(Opened) /\ Cardinality(Opened) \in Nat
      /\ Opened' \in SUBSET Call /\ IsFiniteSet(Opened') /\ Cardinality(Opened') \in Nat
  BY Finite DEF Opened
<1>2. ASSUME UNCHANGED <<lastUsed, used, clock, polls>>, Opened \subseteq Opened' PROVE UseInv'
  <2>1. Cardinality(Opened) <= Cardinality(Opened')
    BY <1>1, <1>2, FS_Subset
  <2> QED
    BY <1>0, <1>1, <1>2, <2>1 DEF UseInv
<1>3. ASSUME NEW c \in Call, NEW i \in Id, Allocate(c, i) PROVE UseInv'
  <2>1. Opened \subseteq Opened'
    BY <1>0, <1>3 DEF TypeOK, Allocate, Go, Opened
  <2> QED
    BY <1>2, <1>3, <2>1 DEF Allocate, useVars, pollVars
<1>4. ASSUME NEW c \in Call, OpenSession(c) PROVE UseInv'
  <2>1. c \notin Opened /\ Opened' = Opened \cup {c}
    BY <1>0, <1>4 DEF TypeOK, OpenSession, Go, Opened
  <2>2. Cardinality(Opened') = Cardinality(Opened) + 1
    BY <1>1, <2>1, FS_AddElement
  <2>3. /\ lastUsed' = [lastUsed EXCEPT ![c] = clock + 1] /\ used' = [used EXCEPT ![c] = clock + 1]
        /\ clock' = clock + 1 /\ polls' = polls
    BY <1>4 DEF OpenSession, pollVars
  <2>4. clock' <= Cardinality(Opened') + polls'
    BY <1>0, <1>1, <2>2, <2>3 DEF UseInv
  <2> QED
    BY <1>0, <2>3, <2>4 DEF UseInv, TypeOK
<1>5. ASSUME NEW c \in Call, Ongoing(c) PROVE UseInv'
  <2>1. /\ UNCHANGED <<lastUsed, used, clock, polls>>
        /\ pc'[c] \notin {"idle", "allocated"} /\ \A d \in Call : d # c => pc'[d] = pc[d]
    BY <1>0, <1>5, GoesOn
  <2>2. Opened \subseteq Opened'
    BY <2>1 DEF Opened
  <2> QED
    BY <1>2, <2>1, <2>2
<1>6. ASSUME NEW p \in Call, Exits(p) PROVE UseInv'
  BY <1>2, <1>6 DEF Exits, useVars, pollVars, callVars, Opened
<1>7. ASSUME NEW i \in Id, Prepare(i) PROVE UseInv'
  <2>1. /\ lastUsed' = [lastUsed EXCEPT ![store[i]] = clock + 1]
        /\ used' = [used EXCEPT ![store[i]] = clock + 1]
        /\ clock' = clock + 1 /\ polls' = polls + 1 /\ pc' = pc
    BY <1>7 DEF Prepare, callVars
  <2>2. store[i] \in Call
    BY <1>0, <1>7 DEF TypeOK, Prepare
  <2>3. clock' <= Cardinality(Opened') + polls'
    BY <1>0, <1>1, <2>1 DEF UseInv, Opened
  <2> QED
    BY <1>0, <2>1, <2>2, <2>3 DEF UseInv, TypeOK
<1>8. ASSUME Apart PROVE UseInv'
  BY <1>0, <1>2, <1>8, Aside DEF Opened
<1> QED
  BY <1>3, <1>4, <1>5, <1>6, <1>7, <1>8, Cases

\* A write runs alone: nothing is stored while it does.
LEMMA PollStepInv == IndInv /\ [Next]_vars => PollInv'
<1> SUFFICES ASSUME IndInv, [Next]_vars PROVE PollInv'
  OBVIOUS
<1>0. TypeOK /\ PollInv
  BY DEF IndInv
<1>1. ASSUME NEW c \in Call, NEW i \in Id, Allocate(c, i) PROVE PollInv'
  BY <1>1 DEF PollInv, Allocate, pollVars
<1>2. ASSUME NEW c \in Call, pc[c] \notin {"idle", "done"}, poll' = poll PROVE PollInv'
  BY <1>0, <1>2 DEF PollInv, InFlight
<1>3. ASSUME NEW c \in Call, OpenSession(c) \/ Ongoing(c) PROVE PollInv'
  <2>1. CASE OpenSession(c)
    BY <1>2, <2>1 DEF OpenSession, pollVars
  <2>2. CASE Ongoing(c)
    BY <1>0, <1>2, <2>2, GoesOn
  <2> QED
    BY <1>3, <2>1, <2>2
<1>4. ASSUME NEW p \in Call, Exits(p) PROVE PollInv'
  BY <1>0, <1>4 DEF PollInv, Exits, pollVars, callVars, InFlight
<1>5. ASSUME NEW i \in Id, Prepare(i) PROVE PollInv'
  <2>1. store[i] \in Call /\ store' = store /\ InFlight' = {}
    BY <1>0, <1>5 DEF TypeOK, Prepare, callVars, InFlight
  <2>2. poll'.id = i /\ poll'.proc = store[i]
    BY <1>5 DEF Prepare
  <2> QED
    BY <2>1, <2>2 DEF PollInv
<1>6. ASSUME Apart PROVE PollInv'
  <2>1. InFlight' = InFlight /\ \A i \in Id : store'[i] \in {store[i], None}
    BY <1>0, <1>6, Aside, NoNewEntry DEF InFlight
  <2>2. CASE UNCHANGED poll
    BY <1>0, <2>1, <2>2 DEF PollInv
  <2>3. CASE Write
    <3>1. poll # Idle /\ poll'.id = poll.id /\ poll'.proc = poll.proc
      BY <1>0, <2>3 DEF TypeOK, Write, Idle
    <3> QED
      BY <1>0, <2>1, <3>1 DEF PollInv
  <2>4. CASE WriteFails \/ PollEnds \/ PollInterrupted
    BY <2>4 DEF WriteFails, PollEnds, PollInterrupted, PollInv
  <2> QED
    BY <1>6, <2>2, <2>3, <2>4 DEF Apart, WatcherReports, TerminateAll, pollVars, vars
<1> QED
  BY <1>1, <1>3, <1>4, <1>5, <1>6, Cases

------------------------------------------------------------------------------
(* Ids.                                                                      *)

\* The calls that use the id they were given: in flight, or with an entry.
Users == InFlight \cup Stored

\* Only an allocation adds a user of an id.
LEMMA UsersKept ==
  ASSUME IndInv, [Next]_vars, ~ \E c \in Call, i \in Id : Allocate(c, i)
  PROVE  Users' \subseteq Users /\ id' = id /\ clash' = clash /\ stale \subseteq stale'
<1>0. TypeOK
  BY DEF IndInv
<1>1. ASSUME NEW c \in Call, OpenSession(c)
      PROVE  Users' \subseteq Users /\ id' = id /\ clash' = clash /\ stale' = stale
  BY <1>0, <1>1 DEF TypeOK, OpenSession, Go, history, Users, InFlight, Stored
<1>2. ASSUME NEW c \in Call, Ongoing(c)
      PROVE  Users' \subseteq Users /\ id' = id /\ clash' = clash /\ stale' = stale
  <2>1. /\ id' = id /\ pc[c] \notin {"idle", "done"} /\ \A d \in Call : d # c => pc'[d] = pc[d]
    BY <1>0, <1>2, GoesOn
  <2>2. InFlight' \subseteq InFlight /\ c \in InFlight
    BY <2>1 DEF InFlight
  <2>3. clash' = clash /\ stale' = stale
    BY <1>2 DEF Ongoing, Reject, OpenFails, StoreProcess, TerminatePruned, SpawnWatcher, Return,
                ReturnShort, Interrupt, history
  <2>4. Stored' \subseteq Stored \cup {c}
    <3>1. CASE StoreProcess(c)
      <4>1. PICK pruned \in SUBSET Id : Stores(c, pruned)
        BY <3>1, Storing
      <4> QED
        BY <4>1 DEF Stores, Stored
    <3>2. CASE ~StoreProcess(c)
      BY <1>2, <3>2, OwnIdOnly DEF Stored
    <3> QED
      BY <3>1, <3>2
  <2> QED
    BY <2>1, <2>2, <2>3, <2>4 DEF Users
<1>3. ASSUME NEW p \in Call, Exits(p)
      PROVE  Users' \subseteq Users /\ id' = id /\ clash' = clash /\ stale' = stale
  BY <1>3 DEF Exits, callVars, history, Users, InFlight, Stored
<1>4. ASSUME NEW i \in Id, Prepare(i)
      PROVE  Users' \subseteq Users /\ id' = id /\ clash' = clash /\ stale' = stale
  BY <1>4 DEF Prepare, callVars, history, Users, InFlight, Stored
<1>5. ASSUME Apart PROVE Users' \subseteq Users /\ id' = id /\ clash' = clash /\ stale \subseteq stale'
  <2>1. id' = id /\ InFlight' = InFlight /\ \A i \in Id : store'[i] \in {store[i], None}
    BY <1>0, <1>5, Aside, NoNewEntry DEF InFlight
  <2>2. clash' = clash /\ stale \subseteq stale'
    BY <1>5 DEF Apart, WatcherReports, Write, WriteFails, PollEnds, PollInterrupted, TerminateAll,
                vars, history
  <2> QED
    BY <2>1, <2>2 DEF Users, Stored
<1> QED
  BY <1>1, <1>2, <1>3, <1>4, <1>5, Cases

\* Whoever is given an id that is in use clashes with its user.
LEMMA ClashStep ==
  ASSUME IndInv, [Next]_vars
  PROVE  \A c, d \in Users' : c # d /\ id'[c] = id'[d] => c \in clash'
<1>0. TypeOK /\ StoreInv /\ \A c, d \in Users : c # d /\ id[c] = id[d] => c \in clash
  BY DEF IndInv, IdInv, Users
<1>1. ASSUME NEW c \in Call, NEW i \in Id, Allocate(c, i)
      PROVE  \A d, e \in Users' : d # e /\ id'[d] = id'[e] => d \in clash'
  <2>1. Users' \subseteq Users \cup {c} /\ c \notin Users /\ Users \subseteq Call
    BY <1>0, <1>1 DEF TypeOK, StoreInv, Allocate, Go, Users, InFlight, Stored
  <2>2. id'[c] = i /\ \A d \in Call : d # c => id'[d] = id[d]
    BY <1>0, <1>1 DEF TypeOK, Allocate
  <2>3. clash \subseteq clash' /\ \A d \in Users : id[d] = i => d \in clash' /\ c \in clash'
    BY <1>1 DEF Allocate, Users
  <2> QED
    BY <1>0, <2>1, <2>2, <2>3
<1>2. CASE ~ \E c \in Call, i \in Id : Allocate(c, i)
  BY <1>0, <1>2, UsersKept
<1> QED
  BY <1>1, <1>2

\* The ids of the entries and of the calls that are about to store are theirs.
LEMMA IdStepInv == IndInv /\ [Next]_vars => IdInv' /\ StoredIdReserved'
<1> SUFFICES ASSUME IndInv, [Next]_vars PROVE IdInv' /\ StoredIdReserved'
  OBVIOUS
<1> DEFINE Own(c) == id[c] \in reserved \/ c \in stale \cup clash
           Storable(c) == pc[c] \in {"allocated", "storing"}
<1>0. /\ TypeOK /\ StoreInv /\ CallInv /\ PollInv
      /\ \A c, d \in Users : c # d /\ id[c] = id[d] => c \in clash
      /\ \A c \in Call : Storable(c) => Own(c)
      /\ \A i \in Id : store[i] # None => Own(store[i])
  BY DEF IndInv, IdInv, Users, StoredIdReserved, StoreInv
<1>a. /\ \A c \in Call : pc[c] \notin {"idle", "done"} => c \in Users
      /\ \A i \in Id : store[i] # None => store[i] \in Users /\ store[i] \in Call /\ id[store[i]] = i
  BY <1>0 DEF Users, InFlight, Stored, StoreInv, TypeOK
<1>b. StoreInv'
  BY StoreStepInv
<1> SUFFICES /\ \A c \in Call : Storable(c)' => Own(c)'
             /\ \A i \in Id : store'[i] # None => Own(store[i])'
  BY <1>b, ClashStep DEF IdInv, StoredIdReserved, Users, StoreInv
<1>c. ASSUME reserved \subseteq reserved', stale \subseteq stale', clash \subseteq clash', id' = id
      PROVE  \A c \in Call : Own(c) => Own(c)'
  BY <1>c
<1>1. ASSUME NEW c \in Call, NEW i \in Id, Allocate(c, i)
      PROVE  /\ \A d \in Call : Storable(d)' => Own(d)'
             /\ \A j \in Id : store'[j] # None => Own(store[j])'
  <2>1. id'[c] = i /\ i \in reserved' /\ reserved \subseteq reserved' /\ clash \subseteq clash'
        /\ stale' = stale /\ store' = store /\ pc[c] = "idle"
        /\ \A d \in Call : d # c => id'[d] = id[d] /\ pc'[d] = pc[d]
    BY <1>0, <1>1 DEF TypeOK, Allocate, Go
  <2> QED
    BY <1>0, <1>a, <2>1
<1>2. ASSUME NEW c \in Call, OpenSession(c)
      PROVE  /\ \A d \in Call : Storable(d)' => Own(d)'
             /\ \A j \in Id : store'[j] # None => Own(store[j])'
  <2>1. UNCHANGED <<id, reserved, stale, clash, store>> /\ pc[c] = "allocated"
        /\ \A d \in Call : d # c => pc'[d] = pc[d]
    BY <1>0, <1>2 DEF TypeOK, OpenSession, Go, history
  <2> QED
    BY <1>0, <2>1
<1>3. ASSUME NEW c \in Call, Ongoing(c), ~StoreProcess(c)
      PROVE  /\ \A d \in Call : Storable(d)' => Own(d)'
             /\ \A j \in Id : store'[j] # None => Own(store[j])'
  <2>1. /\ id' = id /\ pc[c] \notin {"idle", "done"} /\ pc'[c] \in {"pruned", "watch", "yield", "done"}
        /\ \A d \in Call : d # c => pc'[d] = pc[d]
    BY <1>0, <1>3, GoesOn
  <2>2. clash' = clash /\ stale' = stale
    BY <1>3 DEF Ongoing, Reject, OpenFails, StoreProcess, TerminatePruned, SpawnWatcher, Return,
                ReturnShort, Interrupt, history
  <2>3. CASE store' = store /\ reserved' = reserved
    BY <1>0, <2>1, <2>2, <2>3
  <2>4. CASE Remove(id[c])
    <3>1. /\ id[c] \in Id /\ reserved' = reserved \ {id[c]} /\ store'[id[c]] = None
          /\ \A j \in Id : j # id[c] => store'[j] = store[j]
      BY <1>0, <1>3, <2>4, OwnIdOnly, Removed
    <3>2. ASSUME NEW d \in Call, Storable(d)' PROVE Own(d)'
      <4>1. d # c /\ Own(d) /\ d \in Users /\ c \in Users
        BY <1>0, <1>a, <2>1, <3>2
      <4> QED
        BY <1>0, <2>1, <2>2, <3>1, <4>1
    <3>3. ASSUME NEW j \in Id, store'[j] # None PROVE Own(store[j])'
      BY <1>0, <1>a, <2>1, <2>2, <3>1, <3>3
    <3> QED
      BY <3>2, <3>3
  <2> QED
    BY <1>3, <2>3, <2>4, OwnIdOnly
<1>4. ASSUME NEW c \in Call, StoreProcess(c)
      PROVE  /\ \A d \in Call : Storable(d)' => Own(d)'
             /\ \A j \in Id : store'[j] # None => Own(store[j])'
  <2>1. PICK pruned \in SUBSET Id : Stores(c, pruned)
    BY <1>4, Storing
  <2>2. UNCHANGED <<id, stale, clash>>
    BY <1>4 DEF StoreProcess, history
  <2>3. reserved' = reserved \ pruned /\ pc[c] = "storing" /\ pc'[c] \in {"watch", "pruned"}
        /\ \A d \in Call : d # c => pc'[d] = pc[d]
    BY <1>0, <2>1 DEF Stores, TypeOK
  <2>4. ASSUME NEW d \in Call, Storable(d) PROVE Own(d)'
    <3>1. ASSUME id[d] \in pruned PROVE d \in clash
      <4>1. store[id[d]] # None /\ id[d] \in Id
        BY <2>1, <3>1 DEF Stores
      <4>2. store[id[d]] # d
        BY <1>0, <2>4, <4>1 DEF StoreInv
      <4> QED
        BY <1>0, <1>a, <2>4, <4>1, <4>2
    <3> QED
      BY <1>0, <2>2, <2>3, <2>4, <3>1
  <2>5. ASSUME NEW j \in Id, store'[j] # None PROVE Own(store[j])'
    <3>1. CASE j = id[c]
      BY <2>1, <2>3, <2>4, <3>1 DEF Stores
    <3>2. CASE j # id[c]
      <4>1. store'[j] = store[j] /\ j \notin pruned
        BY <2>1, <2>5, <3>2 DEF Stores
      <4> QED
        BY <1>0, <1>a, <2>2, <2>3, <2>5, <4>1
    <3> QED
      BY <3>1, <3>2
  <2> QED
    BY <2>3, <2>4, <2>5
<1>5. ASSUME NEW p \in Call, Exits(p)
      PROVE  /\ \A d \in Call : Storable(d)' => Own(d)'
             /\ \A j \in Id : store'[j] # None => Own(store[j])'
  BY <1>0, <1>5 DEF Exits, callVars, history
<1>6. ASSUME NEW i \in Id, Prepare(i)
      PROVE  /\ \A d \in Call : Storable(d)' => Own(d)'
             /\ \A j \in Id : store'[j] # None => Own(store[j])'
  BY <1>0, <1>6 DEF Prepare, callVars, history
<1>7. ASSUME WriteFails \/ PollEnds
      PROVE  /\ \A d \in Call : Storable(d)' => Own(d)'
             /\ \A j \in Id : store'[j] # None => Own(store[j])'
  <2>1. UNCHANGED <<pc, id, stale, clash>>
    BY <1>7 DEF WriteFails, PollEnds, callVars, history
  <2>2. poll.id \in Id /\ poll # Idle /\ (Remove(poll.id) \/ (store' = store /\ reserved' = reserved))
    BY <1>7, PollGivesBack
  <2>3. InFlight = {}
    BY <1>0, <2>2 DEF PollInv
  <2>4. \A d \in Call : ~Storable(d)'
    BY <2>1, <2>3 DEF InFlight
  <2>5. CASE Remove(poll.id)
    <3>1. reserved' = reserved \ {poll.id} /\ store'[poll.id] = None
          /\ \A j \in Id : j # poll.id => store'[j] = store[j]
      BY <1>0, <2>2, <2>5, Removed
    <3> QED
      BY <1>0, <1>a, <2>1, <2>4, <3>1
  <2>6. CASE store' = store /\ reserved' = reserved
    BY <1>0, <2>1, <2>4, <2>6
  <2> QED
    BY <2>2, <2>5, <2>6
<1>8. ASSUME TerminateAll
      PROVE  /\ \A d \in Call : Storable(d)' => Own(d)'
             /\ \A j \in Id : store'[j] # None => Own(store[j])'
  BY <1>8 DEF TerminateAll, callVars, InFlight
<1>9. ASSUME (\E p \in Call : WatcherReports(p)) \/ Write \/ PollInterrupted \/ UNCHANGED vars
      PROVE  /\ \A d \in Call : Storable(d)' => Own(d)'
             /\ \A j \in Id : store'[j] # None => Own(store[j])'
  <2>1. UNCHANGED <<pc, id, stale, clash, store, reserved>>
    BY <1>9 DEF WatcherReports, Write, PollInterrupted, vars, callVars, history
  <2> QED
    BY <1>0, <2>1
<1> QED
  BY <1>1, <1>2, <1>3, <1>4, <1>5, <1>6, <1>7, <1>8, <1>9, Cases DEF Apart

------------------------------------------------------------------------------
(* Orphans.                                                                  *)

\* What keeps a running process from being an orphan once it was stored.
Kept(p) ==
  \/ p \in Stored \/ p \in killed
  \/ \E c \in Call : victim[c] = p
  \/ p \in abandoned \/ p \in clash

\* A process whose entry is removed under the id of a call in flight is that call's,
\* or has clashed with it.
LEMMA RemovedByCall ==
  ASSUME IndInv, NEW c \in Call, pc[c] \notin {"idle", "done"}, NEW p \in Call,
         p \in Stored, p # c, id[p] = id[c]
  PROVE  p \in clash
  BY DEF IndInv, IdInv, InFlight

\* Past its storing, a running process is in the store, told to terminate, about to
\* be, or known to be lost.
LEMMA OrphanStepInv == IndInv /\ [Next]_vars => OrphanInv'
<1> SUFFICES ASSUME IndInv, [Next]_vars PROVE OrphanInv'
  OBVIOUS
<1> DEFINE Running(p) == proc[p] = "alive" /\ pc[p] # "storing"
<1>0. /\ TypeOK /\ StoreInv /\ CallInv /\ PollInv /\ EndInv
      /\ \A p \in Call : Running(p) => Kept(p)
  BY DEF IndInv, OrphanInv, Kept
<1>a. \A p \in Stored : \E i \in Id : store[i] = p /\ p \in Call /\ id[p] = i
  BY <1>0 DEF Stored, StoreInv, TypeOK
<1> SUFFICES ASSUME NEW p \in Call, Running(p)' PROVE Kept(p)'
  BY DEF OrphanInv, Kept
<1>1. ASSUME NEW c \in Call, NEW i \in Id, Allocate(c, i) PROVE Kept(p)'
  <2>1. /\ UNCHANGED <<store, killed, victim, abandoned, proc>> /\ clash \subseteq clash'
        /\ pc[c] = "idle" /\ \A d \in Call : d # c => pc'[d] = pc[d]
    BY <1>0, <1>1 DEF TypeOK, Allocate, Go, procVars
  <2>2. Running(p)
    BY <2>1
  <2> QED
    BY <1>0, <2>1, <2>2 DEF Kept, Stored
<1>2. ASSUME NEW c \in Call, OpenSession(c) PROVE Kept(p)'
  <2>1. /\ UNCHANGED <<store, killed, victim, abandoned, clash>>
        /\ \A d \in Call : d # c => pc'[d] = pc[d] /\ proc'[d] = proc[d]
        /\ proc'[c] = "alive" => pc'[c] = "storing"
    BY <1>0, <1>2 DEF TypeOK, OpenSession, Go, history
  <2>2. Running(p)
    BY <2>1
  <2> QED
    BY <1>0, <2>1, <2>2 DEF Kept, Stored
<1>3. ASSUME NEW c \in Call, StoreProcess(c) PROVE Kept(p)'
  <2>1. PICK pruned \in SUBSET Id : Stores(c, pruned)
    BY <1>3, Storing
  <2>2. UNCHANGED <<abandoned, clash, proc, id>> /\ killed \subseteq killed' /\ id[c] \in Id
        /\ victim[c] = None /\ pc[c] = "storing"
    BY <1>0, <1>3 DEF StoreProcess, Terminates, history, procVars, TypeOK, CallInv
  <2>3. \A d \in Call : d # c => pc'[d] = pc[d] /\ victim'[d] = victim[d]
    BY <1>0, <2>1 DEF Stores, TypeOK
  <2>4. CASE p = c
    <3>1. store'[id[c]] = c /\ c # None
      BY <2>1, <2>2, Bounds DEF Stores
    <3> QED
      BY <2>2, <2>4, <3>1 DEF Kept, Stored
  <2>5. CASE p # c
    <3>1. Running(p)
      BY <2>2, <2>3, <2>5
    <3>2. CASE p \in Stored
      <4>1. PICK i \in Id : store[i] = p /\ id[p] = i
        BY <1>a, <3>2
      <4>2. CASE i = id[c]
        BY <2>2, <2>5, <3>2, <4>1, <4>2, RemovedByCall DEF Kept
      <4>3. CASE i # id[c] /\ i \in pruned
        BY <1>0, <2>1, <4>1, <4>3 DEF Stores, Kept, TypeOK
      <4>4. CASE i # id[c] /\ i \notin pruned
        BY <2>1, <4>1, <4>4, Bounds DEF Stores, Kept, Stored
      <4> QED
        BY <4>2, <4>3, <4>4
    <3>3. CASE \E d \in Call : victim[d] = p
      BY <2>2, <2>3, <3>3, Bounds DEF Kept
    <3>4. CASE p \in killed \cup abandoned \cup clash
      BY <2>2, <3>4 DEF Kept
    <3> QED
      BY <1>0, <3>1, <3>2, <3>3, <3>4 DEF Kept
  <2> QED
    BY <2>4, <2>5
<1>4. ASSUME NEW c \in Call, TerminatePruned(c) PROVE Kept(p)'
  <2>1. /\ UNCHANGED <<store, abandoned, clash, proc>> /\ killed \subseteq killed'
        /\ \A d \in Call : d # c => pc'[d] = pc[d] /\ victim'[d] = victim[d]
        /\ pc[c] = "pruned"
        /\ proc[p] = "alive" /\ victim[c] = p => p \in killed'
    BY <1>0, <1>4, Bounds DEF TypeOK, TerminatePruned, Go, procVars, history, Terminates
  <2>2. Running(p)
    BY <2>1
  <2> QED
    BY <1>0, <2>1, <2>2 DEF Kept, Stored
<1>5. ASSUME NEW c \in Call, SpawnWatcher(c) PROVE Kept(p)'
  <2>1. UNCHANGED <<store, killed, victim, abandoned, clash, proc>>
        /\ pc[c] = "watch" /\ \A d \in Call : d # c => pc'[d] = pc[d]
    BY <1>0, <1>5 DEF TypeOK, SpawnWatcher, Go, procVars, history
  <2> QED
    BY <1>0, <2>1 DEF Kept, Stored
<1>6. ASSUME NEW c \in Call, Interrupt(c) PROVE Kept(p)'
  <2>1. /\ UNCHANGED <<store, clash, proc, poll, watched>> /\ abandoned \subseteq abandoned'
        /\ killed \subseteq killed'
        /\ \A d \in Call : d # c => pc'[d] = pc[d] /\ victim'[d] = victim[d]
        /\ victim[c] = p => p \in abandoned'
        /\ c \in InFlight /\ pc'[c] = "done"
    BY <1>0, <1>6, Bounds DEF TypeOK, Interrupt, Go, procVars, pollVars, history, Terminates
  <2>2. CASE Running(p)
    BY <1>0, <2>1, <2>2 DEF Kept, Stored
  <2>3. CASE ~Running(p)
    <3>1. p = c /\ pc[p] = "storing" /\ proc[p] = "alive"
      BY <2>1, <2>3
    <3>2. p \notin watched' /\ poll'.proc # p /\ p \notin InFlight'
      <4>1. p \notin watched
        BY <1>0, <3>1 DEF EndInv
      <4>2. poll = Idle
        BY <1>0, <2>1 DEF PollInv
      <4> QED
        BY <2>1, <3>1, <4>1, <4>2, Bounds DEF Idle, InFlight
    <3>3. CASE Held(p)'
      BY <3>2, <3>3 DEF Held, Kept, InFlight
    <3>4. CASE ~Held(p)'
      BY <1>6, <3>1, <3>4 DEF Interrupt, Terminates, Kept
    <3> QED
      BY <3>3, <3>4
  <2> QED
    BY <2>2, <2>3
<1>7. ASSUME NEW c \in Call, Reject(c) \/ OpenFails(c) \/ Return(c) \/ ReturnShort(c) PROVE Kept(p)'
  <2>1. /\ UNCHANGED <<victim, abandoned, clash, proc, id>> /\ killed \subseteq killed'
        /\ pc[c] \in {"allocated", "yield", "short"}
    BY <1>7 DEF Reject, OpenFails, Return, ReturnShort, procVars, history, Terminates
  <2>2. \A d \in Call : d # c => pc'[d] = pc[d]
    BY <1>0, <1>7, GoesOn DEF Ongoing
  <2>3. Running(p)
    BY <2>1, <2>2
  <2>4. CASE p \in Stored
    <3>1. PICK i \in Id : store[i] = p /\ id[p] = i
      BY <1>a, <2>4
    <3>2. CASE store'[i] = p
      BY <3>2, Bounds DEF Kept, Stored
    <3>3. CASE store'[i] # p
      <4>1. i = id[c] /\ Remove(id[c])
        BY <1>7, <3>1, <3>3, OwnIdOnly
        DEF Ongoing, Reject, OpenFails, Return, ReturnShort, StoreProcess
      <4>2. p # c
        <5>1. CASE Return(c)
          <6>1. c \in failed \/ Refresh(id[c])
            BY <5>1 DEF Return
          <6>2. ASSUME p = c PROVE proc[p] = "exited"
            <7>1. CASE c \in failed
              BY <1>0, <6>2, <7>1 DEF CallInv
            <7>2. CASE Refresh(id[c])
              BY <3>1, <3>3, <4>1, <7>2 DEF Refresh
            <7> QED
              BY <6>1, <7>1, <7>2
          <6> QED
            BY <2>3, <6>2
        <5>2. CASE Reject(c) \/ OpenFails(c) \/ ReturnShort(c)
          BY <1>0, <3>1, <5>2, Bounds DEF Reject, OpenFails, ReturnShort, StoreInv
        <5> QED
          BY <1>7, <5>1, <5>2
      <4> QED
        BY <2>1, <2>4, <3>1, <4>1, <4>2, RemovedByCall DEF Kept
    <3> QED
      BY <3>2, <3>3
  <2>5. CASE p \notin Stored
    BY <1>0, <2>1, <2>3, <2>5 DEF Kept
  <2> QED
    BY <2>4, <2>5
<1>8. ASSUME NEW q \in Call, Exits(q) PROVE Kept(p)'
  <2>1. UNCHANGED <<store, killed, victim, abandoned, clash, pc>>
        /\ proc[q] = "alive" /\ \A r \in Call : r # q => proc'[r] = proc[r]
    BY <1>0, <1>8 DEF TypeOK, Exits, callVars, history
  <2> QED
    BY <1>0, <2>1 DEF Kept, Stored
<1>9. ASSUME NEW i \in Id, Prepare(i) PROVE Kept(p)'
  BY <1>0, <1>9 DEF Prepare, callVars, procVars, history, Kept, Stored
<1>10. ASSUME WriteFails \/ PollEnds PROVE Kept(p)'
  <2>1. UNCHANGED <<victim, abandoned, clash, proc, pc>> /\ killed \subseteq killed'
    BY <1>10 DEF WriteFails, PollEnds, callVars, procVars, history, Terminates
  <2>2. /\ poll.id \in Id /\ store[poll.id] \in {poll.proc, None} /\ poll.proc \in Call
        /\ Remove(poll.id) \/ (store' = store /\ reserved' = reserved)
    BY <1>0, <1>10, PollGivesBack DEF PollInv
  <2>3. Running(p)
    BY <2>1
  <2>4. CASE p \in Stored
    <3>1. PICK i \in Id : store[i] = p /\ id[p] = i
      BY <1>a, <2>4
    <3>2. CASE store'[i] = p
      BY <3>2, Bounds DEF Kept, Stored
    <3>3. CASE store'[i] # p
      <4>1. i = poll.id /\ p = poll.proc
        <5>1. Remove(poll.id)
          BY <2>2, <3>1, <3>3
        <5>2. i = poll.id
          BY <1>0, <2>2, <3>1, <3>3, <5>1, Removed
        <5> QED
          BY <2>2, <3>1, <5>2, Bounds
      <4>2. ~Refresh(poll.id)
        BY <2>3, <3>1, <3>3, <4>1 DEF Refresh
      <4>3. p \notin failed
        BY <1>0, <2>3 DEF CallInv
      <4> QED
        BY <1>10, <2>1, <2>3, <4>1, <4>2, <4>3 DEF WriteFails, PollEnds, Terminates, Kept
    <3> QED
      BY <3>2, <3>3
  <2>5. CASE p \notin Stored
    BY <1>0, <2>1, <2>3, <2>5 DEF Kept
  <2> QED
    BY <2>4, <2>5
<1>11. ASSUME TerminateAll PROVE Kept(p)'
  <2>1. /\ UNCHANGED <<victim, abandoned, clash, proc, pc>> /\ killed \subseteq killed'
        /\ proc[p] = "alive" /\ p \in Stored => p \in killed'
    BY <1>11 DEF TerminateAll, callVars, procVars, Terminates
  <2>2. Running(p) /\ Kept(p)
    BY <1>0, <2>1
  <2> QED
    BY <2>1, <2>2 DEF Kept
<1>12. ASSUME (\E q \in Call : WatcherReports(q)) \/ Write \/ PollInterrupted \/ UNCHANGED vars
       PROVE  Kept(p)'
  <2>1. UNCHANGED <<store, victim, abandoned, clash, proc, pc>> /\ killed \subseteq killed'
    BY <1>12
    DEF WatcherReports, Write, PollInterrupted, vars, callVars, procVars, history, Terminates
  <2> QED
    BY <1>0, <2>1 DEF Kept, Stored
<1> QED
  BY <1>1, <1>2, <1>3, <1>4, <1>5, <1>6, <1>7, <1>8, <1>9, <1>10, <1>11, <1>12, Cases
  DEF Apart, Ongoing

------------------------------------------------------------------------------
(* Pruning.                                                                  *)

\* A full store has more entries than are protected, and the times of use tell them
\* apart: there is one to prune, an exited one when an unprotected one has exited.
LEMMA Pruning ==
  ASSUME IndInv, MustPrune
  PROVE  /\ ToPrune \in Stored \ Recent
         /\ proc[ToPrune] # "exited" => \A q \in Stored \ Recent : proc[q] # "exited"
<1>0. TypeOK /\ StoreInv /\ UseInv /\ \A c \in Call : lastUsed[c] \in Nat
  BY Bounds DEF IndInv, TypeOK, Time
<1>1. Stored \in SUBSET Call /\ IsFiniteSet(Stored) /\ Cardinality(Stored) \in Nat
  <2>1. Stored \in SUBSET Call
    BY <1>0 DEF Stored, TypeOK
  <2> QED
    BY <2>1, Finite
<1>2. Cardinality(Stored) >= MaxProcesses
  <2>1. Full \in SUBSET Call /\ IsFiniteSet(Full) /\ Cardinality(Full) \in Nat
    BY Finite, Bounds DEF Full
  <2> DEFINE f == [i \in Full |-> store[i]]
  <2>2. f \in Injection(Full, Stored)
    BY <1>0 DEF Injection, IsInjective, Full, Stored, StoreInv
  <2>3. Cardinality(Full) <= Cardinality(Stored)
    BY <1>1, <2>2, FS_Injection
  <2> QED
    BY <1>1, <2>1, <2>3, Bounds DEF MustPrune, Full
<1>3. PICK p \in Stored : \A q \in Stored : lastUsed[p] <= lastUsed[q]
  <2> DEFINE T == {lastUsed[q] : q \in Stored}
  <2>1. Stored # {}
    BY <1>2, FS_EmptySet, Bounds
  <2>2. T \in SUBSET Nat /\ T # {}
    BY <1>0, <1>1, <2>1
  <2>3. PICK n \in T : \A m \in T : n <= m
    BY <2>2, LeastOfNaturals
  <2> QED
    BY <2>3
<1>4. p \in Stored \ Recent
  <2> DEFINE newer == {q \in Stored : lastUsed[q] > lastUsed[p]}
  <2>1. \A q \in Stored : lastUsed[q] > 0
    BY <1>0 DEF Stored, StoreInv
  <2>2. ASSUME NEW q \in Stored, q # p PROVE lastUsed[q] > lastUsed[p]
    BY <1>0, <1>1, <1>3, <2>1, <2>2 DEF UseInv
  <2>3. newer = Stored \ {p}
    BY <1>0, <1>1, <1>3, <2>2
  <2>4. Cardinality(newer) = Cardinality(Stored) - 1
    BY <1>1, <1>3, <2>3, FS_RemoveElement
  <2>5. ~(Cardinality(newer) < Protected)
    BY <1>1, <1>2, <2>4, Bounds
  <2> QED
    BY <1>3, <2>5 DEF Recent
<1> DEFINE unprotected == Stored \ Recent
           exited == {q \in unprotected : proc[q] = "exited"}
           from == IF exited # {} THEN exited ELSE unprotected
<1>5. from # {} /\ from \subseteq Stored /\ from \subseteq unprotected
  BY <1>4
<1>6. \E q \in from : \A r \in from : lastUsed[q] <= lastUsed[r]
  <2> HIDE DEF from
  <2> DEFINE T == {lastUsed[q] : q \in from}
  <2>1. T \in SUBSET Nat /\ T # {}
    BY <1>0, <1>1, <1>5
  <2>2. PICK n \in T : \A m \in T : n <= m
    BY <2>1, LeastOfNaturals
  <2> QED
    BY <2>2
<1>7. ToPrune = CHOOSE q \in from : \A r \in from : lastUsed[q] <= lastUsed[r]
  BY DEF ToPrune
<1>8. ToPrune \in from
  <2> HIDE DEF from
  <2> QED
    BY <1>6, <1>7
<1> QED
  BY <1>5, <1>8

\* A full store loses an entry before it gets another one.
LEMMA BoundStep == IndInv /\ [Next]_vars => StoreBounded'
<1> SUFFICES ASSUME IndInv, [Next]_vars PROVE StoreBounded'
  OBVIOUS
<1>0. TypeOK /\ Cardinality(Full) <= MaxProcesses
  BY DEF IndInv, StoreBounded, Full
<1>1. /\ Full \in SUBSET Call /\ IsFiniteSet(Full) /\ Cardinality(Full) \in Nat
      /\ Full' \in SUBSET Call /\ IsFiniteSet(Full') /\ Cardinality(Full') \in Nat
  BY Finite, Bounds DEF Full
<1>2. ASSUME Full' \subseteq Full PROVE StoreBounded'
  <2>1. Cardinality(Full') <= Cardinality(Full)
    BY <1>1, <1>2, FS_Subset
  <2> QED
    BY <1>0, <1>1, <2>1, Bounds DEF StoreBounded, Full
<1>3. ASSUME NEW c \in Call, StoreProcess(c) PROVE StoreBounded'
  <2>1. PICK pruned \in SUBSET Id : Stores(c, pruned)
    BY <1>3, Storing
  <2>2. ASSUME NEW rest \in SUBSET Full, Cardinality(rest) < MaxProcesses,
               Full' \subseteq rest \cup {id[c]}
        PROVE  StoreBounded'
    <3>1. IsFiniteSet(rest) /\ Cardinality(rest) \in Nat
      BY <1>1, Finite
    <3>2. IsFiniteSet(rest \cup {id[c]})
      BY <3>1, FS_AddElement
    <3>3. Cardinality(rest \cup {id[c]}) <= Cardinality(rest) + 1
      BY <3>1, FS_AddElement
    <3>4. Cardinality(rest \cup {id[c]}) \in Nat
      BY <3>2, FS_CardinalityType
    <3>5. Cardinality(Full') <= Cardinality(rest \cup {id[c]})
      BY <2>2, <3>2, FS_Subset
    <3> QED
      BY <1>1, <2>2, <3>1, <3>3, <3>4, <3>5, Bounds DEF StoreBounded, Full
  <2>3. CASE MustPrune
    <3>1. ToPrune \in Stored
      BY <2>3, Pruning
    <3>2. PICK i \in Id : store[i] = ToPrune /\ store[i] # None
      BY <3>1 DEF Stored
    <3>3. i \in Full /\ i \in pruned
      BY <2>1, <2>3, <3>2 DEF Stores, Full
    <3>4. Full' \subseteq (Full \ {i}) \cup {id[c]}
      BY <2>1, <3>3 DEF Stores, Full
    <3>5. Cardinality(Full \ {i}) = Cardinality(Full) - 1
      BY <1>1, <3>3, FS_RemoveElement
    <3>6. Cardinality(Full \ {i}) < MaxProcesses
      BY <1>0, <1>1, <3>5, Bounds
    <3> QED
      BY <2>2, <3>4, <3>6
  <2>4. CASE ~MustPrune
    <3>1. Cardinality(Full) < MaxProcesses
      BY <1>1, <2>4, Bounds DEF MustPrune, Full
    <3>2. Full' \subseteq Full \cup {id[c]}
      BY <2>1 DEF Stores, Full
    <3> QED
      BY <2>2, <3>1, <3>2
  <2> QED
    BY <2>3, <2>4
<1>4. ASSUME NEW c \in Call, Ongoing(c), ~StoreProcess(c) PROVE StoreBounded'
  <2>1. Full' \subseteq Full
    BY <1>4, OwnIdOnly DEF Full
  <2> QED
    BY <1>2, <2>1
<1>5. ASSUME Apart PROVE StoreBounded'
  <2>1. Full' \subseteq Full
    BY <1>5, NoNewEntry DEF Full
  <2> QED
    BY <1>2, <2>1
<1>6. CASE store' = store
  BY <1>2, <1>6 DEF Full
<1> QED
  BY <1>3, <1>4, <1>5, <1>6, Cases DEF Allocate, OpenSession, Exits, Prepare

------------------------------------------------------------------------------
(* The theorems.                                                             *)

\* The invariant holds before the first call.
LEMMA Initially == Init => IndInv
<1> SUFFICES ASSUME Init PROVE IndInv
  OBVIOUS
<1> USE Bounds
<1>1. TypeOK
  BY DEF Init, TypeOK, Label, Idle, Time
<1>2. Full = {} /\ Stored = {} /\ InFlight = {} /\ Opened = {}
  BY DEF Init, Full, Stored, InFlight, Opened
<1>3. CallInv /\ StoreInv /\ PollInv /\ EndInv /\ OneEnd /\ StoredIdReserved /\ OrphanInv
  BY DEF Init, CallInv, StoreInv, PollInv, EndInv, OneEnd, StoredIdReserved, OrphanInv
<1>4. IdInv
  BY <1>2 DEF Init, IdInv
<1>5. UseInv /\ StoreBounded
  <2>1. Cardinality({}) = 0
    BY FS_EmptySet
  <2> QED
    BY <1>2, <2>1 DEF Init, UseInv, StoreBounded, Full
<1> QED
  BY <1>1, <1>3, <1>4, <1>5 DEF IndInv

\* Every step keeps it.
LEMMA Inductive == IndInv /\ [Next]_vars => IndInv'
  BY TypeStep, CallStepInv, StoreStepInv, UseStepInv, PollStepInv, IdStepInv, EndStepInv,
     OrphanStepInv, BoundStep DEF IndInv

\* It holds in every state of the session.
THEOREM Invariance == Spec => []IndInv
  BY Initially, Inductive, PTL DEF Spec

\* Every variable keeps its type; the victim of a prune is held by the call that
\* pruned it, until it has terminated it.
THEOREM TypeCorrect == Spec => []TypeOK
<1>1. IndInv => TypeOK
  BY DEF IndInv
<1> QED
  BY <1>1, Invariance, PTL

\* The store never holds more than its limit, with any number of calls that store in
\* parallel and with ids that were given out twice.
THEOREM LimitKept == Spec => []StoreBounded
<1>1. IndInv => StoreBounded
  BY DEF IndInv
<1> QED
  BY <1>1, Invariance, PTL

\* The id of a stored process is reserved, unless all ids were given up while its
\* call was on its way to store it, or the id was given out twice.
THEOREM IdsReserved == Spec => []StoredIdReserved
<1>1. IndInv => StoredIdReserved
  BY DEF IndInv
<1> QED
  BY <1>1, Invariance, PTL

\* At most one end is reported for a call.
THEOREM EndsOnce == Spec => []OneEnd
<1>1. IndInv => OneEnd
  BY DEF IndInv
<1> QED
  BY <1>1, Invariance, PTL

\* A process that runs can be reached or is on its way out, but for the two known
\* ways to lose one.
THEOREM NoneOrphaned == Spec => []NoOrphan
<1>1. IndInv => NoOrphan
  <2> SUFFICES ASSUME IndInv, NEW p \in Call, proc[p] = "alive"
               PROVE  \/ p \in Stored \/ p \in InFlight \/ p \in killed
                      \/ \E c \in InFlight : victim[c] = p
                      \/ p \in abandoned \/ p \in clash
    BY DEF NoOrphan
  <2>1. CASE pc[p] = "storing"
    BY <2>1 DEF InFlight
  <2>2. CASE \E c \in Call : victim[c] = p
    <3>1. PICK c \in Call : victim[c] = p
      BY <2>2
    <3>2. pc[c] = "pruned"
      BY <3>1, Bounds DEF IndInv, TypeOK
    <3> QED
      BY <3>1, <3>2 DEF InFlight
  <2> QED
    BY <2>1, <2>2 DEF IndInv, OrphanInv
<1> QED
  BY <1>1, Invariance, PTL

\* Only store_process names a victim.
LEMMA VictimOfStore ==
  ASSUME IndInv, [Next]_vars, NEW c \in Call, victim'[c] # victim[c], victim'[c] # None
  PROVE  StoreProcess(c) /\ MustPrune /\ victim'[c] = ToPrune
<1>0. TypeOK
  BY DEF IndInv
<1>1. ASSUME NEW d \in Call, Ongoing(d), ~StoreProcess(d) PROVE victim'[c] \in {victim[c], None}
  BY <1>0, <1>1 DEF TypeOK, Ongoing, Reject, OpenFails, TerminatePruned, SpawnWatcher, Return,
                    ReturnShort, Interrupt
<1>2. ASSUME NEW d \in Call, StoreProcess(d) PROVE StoreProcess(c) /\ MustPrune /\ victim'[c] = ToPrune
  <2>1. PICK pruned \in SUBSET Id : Stores(d, pruned)
    BY <1>2, Storing
  <2> QED
    BY <1>0, <1>2, <2>1 DEF TypeOK, Stores
<1>3. ~Apart
  BY <1>0, Aside
<1> QED
  BY <1>1, <1>2, <1>3, Cases DEF Allocate, OpenSession, Exits, Prepare, callVars

\* A running process is pruned only when at least Protected stored ones were used
\* after it, and none of the others had exited.
THEOREM PrunesOnlyIdle == Spec => PrunesTheIdle
<1>1. ASSUME IndInv, [Next]_vars PROVE \A c \in Call : PrunesIdle(c)
  <2> SUFFICES ASSUME NEW c \in Call, victim'[c] # victim[c], victim'[c] # None
               PROVE  PrunesIdle(c)
    BY DEF PrunesIdle
  <2>1. MustPrune /\ victim'[c] = ToPrune
    BY <1>1, VictimOfStore
  <2>2. /\ ToPrune \in Stored \ Recent
        /\ proc[ToPrune] # "exited" => \A q \in Stored \ Recent : proc[q] # "exited"
    BY <1>1, <2>1, Pruning
  <2>3. used = lastUsed
    BY <1>1 DEF IndInv, UseInv
  <2> DEFINE newer(q) == {r \in Stored : used[r] > used[q]}
  <2>4. \A q \in Stored : q \in Recent <=> Cardinality(newer(q)) < Protected
    BY <2>3 DEF Recent
  <2>5. \A q \in Stored : Cardinality(newer(q)) \in Nat
    <3>1. \A q \in Stored : newer(q) \in SUBSET Call
      BY <1>1 DEF IndInv, TypeOK, Stored
    <3> QED
      BY <3>1, Finite
  <2>6. Cardinality(newer(ToPrune)) >= Protected
    BY <2>2, <2>4, <2>5, Bounds
  <2>7. proc[ToPrune] = "alive" => \A q \in Stored : proc[q] = "exited" => Cardinality(newer(q)) < Protected
    BY <2>2, <2>4
  <2> QED
    BY <2>1, <2>6, <2>7 DEF PrunesIdle
<1>2. IndInv /\ [Next]_vars => [\A c \in Call : PrunesIdle(c)]_vars
  BY <1>1
<1> QED
  BY <1>2, Invariance, PTL DEF Spec, PrunesTheIdle
==============================================================================
