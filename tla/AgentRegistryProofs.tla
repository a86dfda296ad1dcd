------------------------- MODULE AgentRegistryProofs -------------------------
(***************************************************************************)
(* The slot counter, the path reservations and the nicknames of the agent  *)
(* registry, for any finite sets of calls, paths and threads and any limit.*)
(***************************************************************************)
EXTENDS AgentRegistry, FiniteSetTheorems, TLAPS

\* The sets the counter covers are finite, so their sizes are numbers.
LEMMA SlotSets ==
  /\ IsFiniteSet(Holders) /\ Cardinality(Holders) \in Nat
  /\ IsFiniteSet(Counted) /\ Cardinality(Counted) \in Nat
<1>1. IsFiniteSet(Holders)
  <2>1. Holders \in SUBSET Call
    BY DEF Holders
  <2> QED
    BY <2>1, FiniteAssumption, FS_Subset
<1>2. IsFiniteSet(Counted)
  <2>1. IsFiniteSet(Path \cup Thread)
    BY FiniteAssumption, FS_Union
  <2>2. Counted \in SUBSET (Path \cup Thread)
    BY DEF Counted, Key
  <2> QED
    BY <2>1, <2>2, FS_Subset
<1> QED
  BY <1>1, <1>2, FS_CardinalityType

\* A call that holds a slot accounts for one unit of the counter at least.
LEMMA HolderCounts ==
  ASSUME NEW c \in Call, pc[c] \in HoldingSlot
  PROVE  Cardinality(Holders) >= 1
<1>1. c \in Holders
  BY DEF Holders
<1> QED
  BY <1>1, SlotSets, FS_EmptySet

\* How the number of holders changes when a call moves from one place to another.
LEMMA HoldersMove ==
  ASSUME TypeOK, NEW c \in Call, NEW l \in Label, Goto(c, l)
  PROVE  Cardinality(Holders') = Cardinality(Holders)
                                   + (IF l \in HoldingSlot THEN 1 ELSE 0)
                                   - (IF pc[c] \in HoldingSlot THEN 1 ELSE 0)
<1>1. pc \in [Call -> Label] /\ pc' = [pc EXCEPT ![c] = l]
  BY DEF TypeOK, Goto
<1>2. CASE l \in HoldingSlot
  <2>1. Holders' = Holders \cup {c}
    BY <1>1, <1>2 DEF Holders
  <2>2. Cardinality(Holders \cup {c}) = IF c \in Holders THEN Cardinality(Holders) ELSE Cardinality(Holders) + 1
    BY SlotSets, FS_AddElement
  <2>3. c \in Holders <=> pc[c] \in HoldingSlot
    BY <1>2 DEF Holders
  <2> QED
    BY <1>2, <2>1, <2>2, <2>3, SlotSets
<1>3. CASE l \notin HoldingSlot
  <2>1. Holders' = Holders \ {c}
    BY <1>1, <1>3 DEF Holders
  <2>2. Cardinality(Holders \ {c}) = IF c \in Holders THEN Cardinality(Holders) - 1 ELSE Cardinality(Holders)
    BY SlotSets, FS_RemoveElement
  <2>3. c \in Holders <=> pc[c] \in HoldingSlot
    BY <1>3 DEF Holders
  <2> QED
    BY <1>3, <2>1, <2>2, <2>3, SlotSets
<1> QED
  BY <1>2, <1>3

\* How the number of registered agents changes when an entry is written.
LEMMA CountedMove ==
  ASSUME TypeOK, NEW k \in Key, NEW v, agent_tree' = [agent_tree EXCEPT ![k] = v]
  PROVE  Cardinality(Counted') = Cardinality(Counted)
                                   + (IF k # RootPath /\ v \in Thread THEN 1 ELSE 0)
                                   - (IF k # RootPath /\ agent_tree[k] \in Thread THEN 1 ELSE 0)
<1>1. DOMAIN agent_tree = Key
  BY DEF TypeOK
<1>2. CASE k = RootPath
  <2>1. Counted' = Counted
    BY <1>1, <1>2 DEF Counted
  <2> QED
    BY <1>2, <2>1, SlotSets
<1>3. CASE k # RootPath /\ v \in Thread
  <2>1. Counted' = Counted \cup {k}
    BY <1>1, <1>3 DEF Counted
  <2>2. Cardinality(Counted \cup {k}) = IF k \in Counted THEN Cardinality(Counted) ELSE Cardinality(Counted) + 1
    BY SlotSets, FS_AddElement
  <2>3. k \in Counted <=> agent_tree[k] \in Thread
    BY <1>3 DEF Counted
  <2> QED
    BY <1>3, <2>1, <2>2, <2>3, SlotSets
<1>4. CASE k # RootPath /\ v \notin Thread
  <2>1. Counted' = Counted \ {k}
    BY <1>1, <1>4 DEF Counted
  <2>2. Cardinality(Counted \ {k}) = IF k \in Counted THEN Cardinality(Counted) - 1 ELSE Cardinality(Counted)
    BY SlotSets, FS_RemoveElement
  <2>3. k \in Counted <=> agent_tree[k] \in Thread
    BY <1>4 DEF Counted
  <2> QED
    BY <1>4, <2>1, <2>2, <2>3, SlotSets
<1> QED
  BY <1>2, <1>3, <1>4

\* A step that leaves the tree alone leaves the registered agents alone.
LEMMA CountedSame ==
  ASSUME UNCHANGED agent_tree
  PROVE  Cardinality(Counted') = Cardinality(Counted)
  BY DEF Counted

\* A call in flight accounts for one unit of the counter, which the operations
\* that subtract can therefore take.
LEMMA TypeStep ==
  ASSUME IndInv, NEW c \in Call, Start(c) \/ Advance(c)
  PROVE  TypeOK'
<1> USE DEF registryVars, nickVars, threadVars, localVars
<1>0. TypeOK /\ LocalInv
  BY DEF IndInv
<1>1. ASSUME pc[c] \in HoldingSlot PROVE total_count - 1 \in Nat
  BY <1>1, HolderCounts, SlotSets DEF IndInv, SlotsCovered, TypeOK
<1>2. ASSUME NEW l \in Label, Goto(c, l) PROVE pc' \in [Call -> Label]
  BY <1>0, <1>2 DEF TypeOK, Goto
<1>3. ASSUME NEW p \in Path \cup {None}, SpawnAgent(c, p) PROVE TypeOK'
  <2>1. pc' \in [Call -> Label]
    BY <1>2, <1>3 DEF SpawnAgent, Reserve, Label
  <2> QED
    BY <1>0, <1>3, <2>1 DEF TypeOK, SpawnAgent
<1>4. ASSUME NEW t \in Thread, ResumeAgent(c, t) PROVE TypeOK'
  <2>1. pc' \in [Call -> Label]
    BY <1>2, <1>4 DEF ResumeAgent, Reserve, Label
  <2> QED
    BY <1>0, <1>4, <2>1 DEF TypeOK, ResumeAgent
<1>5. ASSUME NEW t \in Thread, ShutdownAgent(c, t) PROVE TypeOK'
  <2>1. pc' \in [Call -> Label]
    BY <1>2, <1>5 DEF ShutdownAgent, Label
  <2> QED
    BY <1>0, <1>5, <2>1 DEF TypeOK, ShutdownAgent
<1>6. CASE LoadCount(c)
  <2>1. pc' \in [Call -> Label]
    BY <1>2, <1>6 DEF LoadCount, Label
  <2> QED
    BY <1>0, <1>6, <2>1 DEF TypeOK, LoadCount
<1>7. CASE CompareExchange(c)
  <2>1. pc' \in [Call -> Label]
    BY <1>0, <1>2, <1>7 DEF CompareExchange, Label, TypeOK
  <2> QED
    BY <1>0, <1>7, <2>1 DEF TypeOK, CompareExchange
<1>8. CASE AddCount(c)
  <2>1. pc' \in [Call -> Label]
    BY <1>2, <1>8 DEF AddCount, Label
  <2> QED
    BY <1>0, <1>8, <2>1 DEF TypeOK, AddCount
<1>9. CASE RegisterRootThread(c)
  <2>1. pc' \in [Call -> Label]
    BY <1>2, <1>9 DEF RegisterRootThread, Label
  <2> QED
    BY <1>0, <1>9, <2>1, NameAssumption DEF TypeOK, RegisterRootThread, InsertRoot
<1>10. CASE SkipPrepare(c)
  <2>1. pc' \in [Call -> Label]
    BY <1>2, <1>10 DEF SkipPrepare, Label
  <2> QED
    BY <1>0, <1>10, <2>1 DEF TypeOK, SkipPrepare
<1>11. CASE ReserveAgentPath(c)
  <2>1. pc' \in [Call -> Label]
    BY <1>2, <1>11 DEF ReserveAgentPath, Label
  <2> QED
    BY <1>0, <1>11, <2>1 DEF TypeOK, ReserveAgentPath
<1>12. ASSUME NEW names \in Candidates, NEW preferred \in Preferred(c),
              ReserveAgentNickname(c, names, preferred)
       PROVE  TypeOK'
  <2>1. pc' \in [Call -> Label]
    BY <1>2, <1>12 DEF ReserveAgentNickname, Drop, Label
  <2>2. preferred # None => preferred \in Nickname
    BY <1>0 DEF TypeOK, Preferred
  <2>3. \A n \in names : /\ <<n, nickname_reset_count>> \in Nickname
                         /\ <<n, nickname_reset_count + 1>> \in Nickname
    BY <1>0, <1>12 DEF TypeOK, Nickname
  <2>4. Offered(names) \subseteq Nickname
    BY <2>3 DEF Offered
  <2>5. /\ used_agent_nicknames' \subseteq Nickname
        /\ nickname_reset_count' \in Nat
        /\ nick' \in [Call -> Nickname \cup {None}]
    <3>1. ASSUME NEW name \in Nickname, nick' = [nick EXCEPT ![c] = name]
          PROVE  nick' \in [Call -> Nickname \cup {None}]
      BY <1>0, <3>1 DEF TypeOK
    <3>2. CASE preferred = None /\ names = {}
      BY <1>0, <1>12, <3>2 DEF TypeOK, ReserveAgentNickname
    <3>3. CASE preferred # None
      BY <1>0, <1>12, <2>2, <3>1, <3>3 DEF TypeOK, ReserveAgentNickname
    <3>4. CASE preferred = None /\ names # {} /\ Offered(names) # {}
      <4>1. PICK name \in Offered(names) :
              /\ nick' = [nick EXCEPT ![c] = name]
              /\ used_agent_nicknames' = used_agent_nicknames \cup {name}
        BY <1>12, <3>4 DEF ReserveAgentNickname
      <4> QED
        BY <1>0, <1>12, <2>4, <3>1, <3>4, <4>1 DEF TypeOK, ReserveAgentNickname
    <3>5. CASE preferred = None /\ names # {} /\ Offered(names) = {}
      <4>1. PICK n \in names :
              /\ nick' = [nick EXCEPT ![c] = <<n, nickname_reset_count + 1>>]
              /\ used_agent_nicknames' = {<<n, nickname_reset_count + 1>>}
        BY <1>12, <3>5 DEF ReserveAgentNickname
      <4>2. <<n, nickname_reset_count + 1>> \in Nickname
        BY <2>3
      <4> QED
        BY <1>0, <1>12, <3>1, <3>5, <4>1, <4>2 DEF TypeOK, ReserveAgentNickname
    <3> QED
      BY <3>2, <3>3, <3>4, <3>5
  <2> QED
    BY <1>0, <1>12, <2>1, <2>5 DEF TypeOK, ReserveAgentNickname
<1>13. ASSUME NEW t \in Thread, CreateThread(c, t) PROVE TypeOK'
  <2>1. pc' \in [Call -> Label]
    BY <1>2, <1>13 DEF CreateThread, Label
  <2> QED
    BY <1>0, <1>13, <2>1 DEF TypeOK, CreateThread
<1>14. CASE CreateFails(c)
  <2>1. pc' \in [Call -> Label]
    BY <1>2, <1>14 DEF CreateFails, Drop, Label
  <2> QED
    BY <1>0, <1>14, <2>1 DEF TypeOK, CreateFails
<1>15. CASE Commit(c)
  <2>1. pc' \in [Call -> Label]
    BY <1>2, <1>15 DEF Commit, Label
  <2>2. thread[c] \in Thread
    BY <1>0, <1>15 DEF Commit, LocalInv
  <2>3. agent_tree' \in [Key -> Thread \cup {Absent, Pending}]
    BY <1>0, <1>15, <2>2 DEF TypeOK, Commit
  <2>4. /\ used_agent_nicknames' \subseteq Nickname
        /\ nickname_of' \in [Thread -> Nickname \cup {None}]
    BY <1>0, <1>15, <2>2 DEF TypeOK, Commit
  <2> QED
    BY <1>0, <1>15, <2>1, <2>3, <2>4 DEF TypeOK, Commit
<1>16. CASE SendInput(c)
  <2>1. pc' \in [Call -> Label]
    BY <1>2, <1>16 DEF SendInput, Label
  <2> QED
    BY <1>0, <1>16, <2>1 DEF TypeOK, SendInput
<1>17. CASE DropPath(c)
  <2>1. pc' \in [Call -> Label]
    BY <1>2, <1>17 DEF DropPath, Label
  <2> QED
    BY <1>0, <1>17, <2>1 DEF TypeOK, DropPath
<1>18. CASE DropCount(c)
  <2>1. pc' \in [Call -> Label]
    BY <1>2, <1>18 DEF DropCount, Label
  <2>2. total_count' \in Nat
    BY <1>1, <1>18 DEF DropCount, HoldingSlot
  <2> QED
    BY <1>0, <1>18, <2>1, <2>2 DEF TypeOK, DropCount
<1>19. CASE RemoveThread(c)
  <2>1. pc' \in [Call -> Label]
    BY <1>2, <1>19 DEF RemoveThread, Label
  <2> QED
    BY <1>0, <1>19, <2>1 DEF TypeOK, RemoveThread
<1>20. CASE ReleaseSpawnedThread(c)
  <2>1. pc' \in [Call -> Label]
    BY <1>2, <1>20 DEF ReleaseSpawnedThread, Label
  <2> QED
    BY <1>0, <1>20, <2>1 DEF TypeOK, ReleaseSpawnedThread
<1>21. CASE DecrementCount(c)
  <2>1. pc' \in [Call -> Label]
    BY <1>2, <1>21 DEF DecrementCount, Label
  <2>2. total_count' \in Nat
    BY <1>1, <1>21 DEF DecrementCount, HoldingSlot
  <2> QED
    BY <1>0, <1>21, <2>1, <2>2 DEF TypeOK, DecrementCount
<1> QED
  BY <1>3, <1>4, <1>5, <1>6, <1>7, <1>8, <1>9, <1>10, <1>11, <1>12, <1>13, <1>14, <1>15, <1>16,
     <1>17, <1>18, <1>19, <1>20, <1>21 DEF Start, Advance

\* What a call has in hand where it is.
LEMMA LocalStep ==
  ASSUME IndInv, NEW c \in Call, Start(c) \/ Advance(c)
  PROVE  LocalInv'
<1> USE DEF registryVars, nickVars, threadVars, localVars
<1>0. TypeOK /\ LocalInv
  BY DEF IndInv
<1>1. \A d \in Call \ {c} : pc'[d] = pc[d] /\ path'[d] = path[d] /\ thread'[d] = thread[d]
  <2>1. \A d \in Call \ {c} : pc'[d] = pc[d]
    BY <1>0 DEF TypeOK, Start, Advance, Goto, SpawnAgent, ResumeAgent, ShutdownAgent, LoadCount,
                CompareExchange, AddCount, RegisterRootThread, SkipPrepare, ReserveAgentPath,
                ReserveAgentNickname, CreateThread, CreateFails, Commit, SendInput, DropPath,
                DropCount, RemoveThread, ReleaseSpawnedThread, DecrementCount
  <2>2. \A d \in Call \ {c} : path'[d] = path[d] /\ thread'[d] = thread[d]
    BY <1>0 DEF TypeOK, Start, Advance, SpawnAgent, ResumeAgent, ShutdownAgent, LoadCount,
                CompareExchange, AddCount, RegisterRootThread, SkipPrepare, ReserveAgentPath,
                ReserveAgentNickname, CreateThread, CreateFails, Commit, SendInput, DropPath,
                DropCount, RemoveThread, ReleaseSpawnedThread, DecrementCount
  <2> QED
    BY <2>1, <2>2
<1> DEFINE Local(d) ==
      /\ pc[d] \in {"path", "drop_path"} => path[d] \in Path
      /\ pc[d] \in {"commit", "send", "remove", "release", "decrement"} => thread[d] \in Thread
      /\ pc[d] = "add" => ~Limited
<1>2. \A d \in Call \ {c} : Local(d)'
  BY <1>0, <1>1 DEF LocalInv
<1>3. Local(c)'
  <2>0. /\ path[c] \in Path \cup {None} /\ thread[c] \in Thread \cup {None}
        /\ pc[c] \in {"send", "remove", "release", "decrement"} => thread[c] \in Thread
        /\ c \in DOMAIN pc /\ c \in DOMAIN path /\ c \in DOMAIN thread
    BY <1>0 DEF TypeOK, LocalInv
  <2>1. ASSUME NEW p \in Path \cup {None}, SpawnAgent(c, p) PROVE Local(c)'
    BY <2>0, <2>1 DEF SpawnAgent, Reserve, Goto
  <2>2. ASSUME NEW t \in Thread, ResumeAgent(c, t) PROVE Local(c)'
    BY <2>0, <2>2 DEF ResumeAgent, Reserve, Goto
  <2>3. ASSUME NEW t \in Thread, ShutdownAgent(c, t) PROVE Local(c)'
    BY <2>0, <2>3 DEF ShutdownAgent, Goto
  <2>4. CASE LoadCount(c) \/ CompareExchange(c) \/ AddCount(c)
    BY <2>0, <2>4 DEF LoadCount, CompareExchange, AddCount, Goto
  <2>5. CASE RegisterRootThread(c) \/ SkipPrepare(c) \/ ReserveAgentPath(c)
    BY <2>0, <2>5 DEF RegisterRootThread, SkipPrepare, ReserveAgentPath, Goto
  <2>6. ASSUME NEW names \in Candidates, NEW preferred \in Preferred(c),
               ReserveAgentNickname(c, names, preferred)
        PROVE  Local(c)'
    <3>1. Goto(c, "create") \/ Goto(c, Drop(c))
      BY <2>6 DEF ReserveAgentNickname
    <3>2. UNCHANGED <<path, thread>>
      BY <2>6 DEF ReserveAgentNickname
    <3> QED
      BY <2>0, <3>1, <3>2 DEF Goto, Drop
  <2>7. ASSUME NEW t \in Thread, CreateThread(c, t) PROVE Local(c)'
    BY <2>0, <2>7 DEF CreateThread, Goto
  <2>8. CASE CreateFails(c)
    BY <2>0, <2>8 DEF CreateFails, Drop, Goto
  <2>9. CASE Commit(c)
    BY <1>0, <2>0, <2>9 DEF Commit, Goto, LocalInv
  <2>10. CASE SendInput(c) \/ DropPath(c) \/ DropCount(c)
    BY <2>0, <2>10 DEF SendInput, DropPath, DropCount, Goto
  <2>11. CASE RemoveThread(c) \/ ReleaseSpawnedThread(c) \/ DecrementCount(c)
    BY <2>0, <2>11 DEF RemoveThread, ReleaseSpawnedThread, DecrementCount, Goto
  <2> QED
    BY <2>1, <2>2, <2>3, <2>4, <2>5, <2>6, <2>7, <2>8, <2>9, <2>10, <2>11 DEF Start, Advance
<1> QED
  BY <1>2, <1>3 DEF LocalInv

\* What the counter has above the slots in use.
Slack == total_count - (Cardinality(Holders) + Cardinality(Counted))

\* register_spawned_thread replaces an agent that holds a slot.
Overwrites(c) ==
  Commit(c) /\ agent_tree[IF path[c] = None THEN thread[c] ELSE path[c]] \in Thread

\* Every step keeps the counter in step with the slots, but for the commit that
\* overwrites an agent: the slot of the one it replaces is nobody's from then on.
LEMMA SlackStep ==
  ASSUME IndInv, NEW c \in Call, Start(c) \/ Advance(c)
  PROVE  Slack' = Slack \/ (Overwrites(c) /\ Slack' = Slack + 1)
<1> USE DEF registryVars, localVars
<1>0. /\ TypeOK /\ LocalInv
      /\ total_count \in Nat /\ Cardinality(Holders) \in Nat /\ Cardinality(Counted) \in Nat
  BY SlotSets DEF IndInv, TypeOK
<1>1. ASSUME NEW l \in Label, Goto(c, l), UNCHANGED <<agent_tree, total_count>>,
             l \in HoldingSlot <=> pc[c] \in HoldingSlot
      PROVE  Slack' = Slack
  BY <1>0, <1>1, HoldersMove, CountedSame DEF Slack
<1>2. ASSUME NEW p \in Path \cup {None}, SpawnAgent(c, p) PROVE Slack' = Slack
  BY <1>1, <1>2 DEF SpawnAgent, Reserve, Label, HoldingSlot
<1>3. ASSUME NEW t \in Thread, ResumeAgent(c, t) PROVE Slack' = Slack
  BY <1>1, <1>3 DEF ResumeAgent, Reserve, Label, HoldingSlot
<1>4. ASSUME NEW t \in Thread, ShutdownAgent(c, t) PROVE Slack' = Slack
  BY <1>1, <1>4 DEF ShutdownAgent, Label, HoldingSlot
<1>5. CASE LoadCount(c)
  BY <1>1, <1>5 DEF LoadCount, Label, HoldingSlot
<1>6. CASE CompareExchange(c)
  <2>1. CASE Goto(c, "done") /\ UNCHANGED <<agent_tree, total_count>>
    BY <1>1, <1>6, <2>1 DEF CompareExchange, Label, HoldingSlot
  <2>2. CASE Goto(c, "prepare") /\ total_count' = total_count + 1 /\ UNCHANGED agent_tree
    <3>1. Cardinality(Holders') = Cardinality(Holders) + 1
      BY <1>0, <1>6, <2>2, HoldersMove DEF CompareExchange, Label, HoldingSlot
    <3> QED
      BY <1>0, <2>2, <3>1, CountedSame DEF Slack
  <2>3. CASE UNCHANGED <<pc, total_count, agent_tree>>
    BY <1>0, <2>3 DEF Slack, Holders, Counted
  <2> QED
    BY <1>6, <2>1, <2>2, <2>3 DEF CompareExchange
<1>7. CASE AddCount(c)
  <2>1. Cardinality(Holders') = Cardinality(Holders) + 1
    BY <1>0, <1>7, HoldersMove DEF AddCount, Label, HoldingSlot
  <2> QED
    BY <1>0, <1>7, <2>1, CountedSame DEF AddCount, Slack
<1>8. CASE RegisterRootThread(c)
  <2>1. Cardinality(Holders') = Cardinality(Holders)
    BY <1>0, <1>8, HoldersMove DEF RegisterRootThread, Label, HoldingSlot
  <2>2. Cardinality(Counted') = Cardinality(Counted)
    <3>1. RootPath \in Key
      BY DEF Key
    <3> QED
      BY <1>0, <1>8, <3>1, CountedMove, CountedSame DEF RegisterRootThread, InsertRoot
  <2> QED
    BY <1>0, <1>8, <2>1, <2>2 DEF RegisterRootThread, Slack
<1>9. CASE SkipPrepare(c)
  BY <1>1, <1>9 DEF SkipPrepare, Label, HoldingSlot
<1>10. CASE ReserveAgentPath(c)
  <2>1. Cardinality(Holders') = Cardinality(Holders)
    BY <1>0, <1>10, HoldersMove DEF ReserveAgentPath, Label, HoldingSlot
  <2>2. Cardinality(Counted') = Cardinality(Counted)
    <3>1. path[c] \in Key /\ Pending \notin Thread /\ Absent \notin Thread
      BY <1>0, <1>10, NameAssumption DEF ReserveAgentPath, LocalInv, Key
    <3> QED
      BY <1>0, <1>10, <3>1, CountedMove, CountedSame DEF ReserveAgentPath
  <2> QED
    BY <1>0, <1>10, <2>1, <2>2 DEF ReserveAgentPath, Slack
<1>11. ASSUME NEW names \in Candidates, NEW preferred \in Preferred(c),
              ReserveAgentNickname(c, names, preferred)
       PROVE  Slack' = Slack
  BY <1>1, <1>11 DEF ReserveAgentNickname, Drop, Label, HoldingSlot
<1>12. ASSUME NEW t \in Thread, CreateThread(c, t) PROVE Slack' = Slack
  BY <1>1, <1>12 DEF CreateThread, Label, HoldingSlot
<1>13. CASE CreateFails(c)
  BY <1>1, <1>13 DEF CreateFails, Drop, Label, HoldingSlot
<1>14. CASE Commit(c)
  <2> DEFINE k == IF path[c] = None THEN thread[c] ELSE path[c]
  <2>1. Cardinality(Holders') = Cardinality(Holders) - 1
    BY <1>0, <1>14, HoldersMove DEF Commit, Label, HoldingSlot
  <2>2. k \in Key /\ k # RootPath /\ thread[c] \in Thread
    BY <1>0, <1>14, NameAssumption DEF Commit, LocalInv, TypeOK, Key
  <2>3. agent_tree' = [agent_tree EXCEPT ![k] = thread[c]]
    BY <1>14 DEF Commit
  <2> HIDE DEF k
  <2>4. Cardinality(Counted') = Cardinality(Counted) + 1
                                  - (IF agent_tree[k] \in Thread THEN 1 ELSE 0)
    BY <1>0, <2>2, <2>3, CountedMove
  <2>5. Overwrites(c) <=> agent_tree[k] \in Thread
    BY <1>14 DEF Overwrites, k
  <2> QED
    BY <1>0, <1>14, <2>1, <2>4, <2>5 DEF Commit, Slack
<1>15. CASE SendInput(c)
  BY <1>1, <1>15 DEF SendInput, Label, HoldingSlot
<1>16. CASE DropPath(c)
  <2>1. Cardinality(Holders') = Cardinality(Holders)
    BY <1>0, <1>16, HoldersMove DEF DropPath, Label, HoldingSlot
  <2>2. path[c] \in Key /\ Pending \notin Thread /\ Absent \notin Thread
    BY <1>0, <1>16, NameAssumption DEF DropPath, LocalInv, Key
  <2> DEFINE v == IF agent_tree[path[c]] = Pending THEN Absent ELSE agent_tree[path[c]]
  <2>3. agent_tree' = [agent_tree EXCEPT ![path[c]] = v]
    BY <1>16 DEF DropPath
  <2>4. v \in Thread <=> agent_tree[path[c]] \in Thread
    BY <2>2
  <2> HIDE DEF v
  <2>5. Cardinality(Counted') = Cardinality(Counted)
    <3>1. Cardinality(Counted')
            = Cardinality(Counted)
                + (IF path[c] # RootPath /\ v \in Thread THEN 1 ELSE 0)
                - (IF path[c] # RootPath /\ agent_tree[path[c]] \in Thread THEN 1 ELSE 0)
      BY <1>0, <2>2, <2>3, CountedMove
    <3> QED
      BY <1>0, <2>4, <3>1
  <2> QED
    BY <1>0, <1>16, <2>1, <2>5 DEF DropPath, Slack
<1>17. CASE DropCount(c)
  <2>1. Cardinality(Holders') = Cardinality(Holders) - 1
    BY <1>0, <1>17, HoldersMove DEF DropCount, Label, HoldingSlot
  <2> QED
    BY <1>0, <1>17, <2>1, CountedSame DEF DropCount, Slack
<1>18. CASE RemoveThread(c)
  BY <1>1, <1>18 DEF RemoveThread, Label, HoldingSlot
<1>19. CASE ReleaseSpawnedThread(c)
  <2>1. CASE Goto(c, "done") /\ UNCHANGED <<agent_tree, total_count>>
    BY <1>1, <1>19, <2>1 DEF ReleaseSpawnedThread, Label, HoldingSlot
  <2>2. ASSUME NEW k \in Key, agent_tree[k] = thread[c],
               agent_tree' = [agent_tree EXCEPT ![k] = Absent],
               Goto(c, IF k = RootPath THEN "done" ELSE "decrement")
        PROVE  Slack' = Slack
    <3>1. thread[c] \in Thread /\ Absent \notin Thread /\ UNCHANGED total_count
      BY <1>0, <1>19, NameAssumption DEF ReleaseSpawnedThread, LocalInv
    <3>2. Cardinality(Holders') = Cardinality(Holders) + (IF k = RootPath THEN 0 ELSE 1)
      <4>1. pc[c] \notin HoldingSlot
        BY <1>19 DEF ReleaseSpawnedThread, HoldingSlot
      <4>2. CASE k = RootPath
        BY <1>0, <2>2, <4>1, <4>2, HoldersMove DEF Label, HoldingSlot
      <4>3. CASE k # RootPath
        BY <1>0, <2>2, <4>1, <4>3, HoldersMove DEF Label, HoldingSlot
      <4> QED
        BY <4>2, <4>3
    <3>3. Cardinality(Counted') = Cardinality(Counted) - (IF k = RootPath THEN 0 ELSE 1)
      <4>1. agent_tree[k] \in Thread
        BY <2>2, <3>1
      <4>2. Cardinality(Counted') = Cardinality(Counted)
                                      + (IF k # RootPath /\ Absent \in Thread THEN 1 ELSE 0)
                                      - (IF k # RootPath /\ agent_tree[k] \in Thread THEN 1 ELSE 0)
        BY <1>0, <2>2, CountedMove
      <4> QED
        BY <1>0, <3>1, <4>1, <4>2
    <3> QED
      BY <1>0, <3>1, <3>2, <3>3 DEF Slack
  <2> QED
    BY <1>19, <2>1, <2>2 DEF ReleaseSpawnedThread
<1>20. CASE DecrementCount(c)
  <2>1. Cardinality(Holders') = Cardinality(Holders) - 1
    BY <1>0, <1>20, HoldersMove DEF DecrementCount, Label, HoldingSlot
  <2> QED
    BY <1>0, <1>20, <2>1, CountedSame DEF DecrementCount, Slack
<1> QED
  BY <1>2, <1>3, <1>4, <1>5, <1>6, <1>7, <1>8, <1>9, <1>10, <1>11, <1>12, <1>13, <1>14, <1>15,
     <1>16, <1>17, <1>18, <1>19, <1>20 DEF Start, Advance

\* So every step keeps the slots in use covered by the counter.
LEMMA SlotStep ==
  ASSUME IndInv, NEW c \in Call, Start(c) \/ Advance(c)
  PROVE  SlotsCovered'
<1>1. total_count \in Nat /\ total_count' \in Nat
  BY TypeStep DEF IndInv, TypeOK
<1>2. Cardinality(Holders) \in Nat /\ Cardinality(Counted) \in Nat
  BY SlotSets
<1>3. Cardinality(Holders') \in Nat /\ Cardinality(Counted') \in Nat
  <2>1. IsFiniteSet(Holders') /\ IsFiniteSet(Counted')
    <3>1. Holders' \in SUBSET Call /\ Counted' \in SUBSET (Path \cup Thread)
      BY DEF Holders, Counted, Key
    <3> QED
      BY <3>1, FiniteAssumption, FS_Union, FS_Subset
  <2> QED
    BY <2>1, FS_CardinalityType
<1> QED
  BY <1>1, <1>2, <1>3, SlackStep DEF IndInv, SlotsCovered, Slack

\* A step that changes neither which paths are reserved nor who owns one keeps
\* the owners.
LEMMA PathKept ==
  ASSUME PathOwned,
         \A p \in Path : agent_tree'[p] = Pending <=> agent_tree[p] = Pending,
         \A d \in Call, p \in Path : OwnsPath(d, p)' <=> OwnsPath(d, p)
  PROVE  PathOwned'
  BY DEF PathOwned

\* Every step keeps each reserved path with its one owner.
LEMMA PathStep ==
  ASSUME IndInv, NEW c \in Call, Start(c) \/ Advance(c)
  PROVE  PathOwned'
<1> USE DEF registryVars, threadVars, nickVars, localVars
<1>0. /\ TypeOK /\ LocalInv /\ PathOwned
      /\ None \notin Path /\ Pending # Absent /\ Pending \notin Thread
      /\ RootPath \notin Path /\ Path \cap Thread = {}
      /\ DOMAIN agent_tree = Key /\ DOMAIN pc = Call /\ DOMAIN path = Call
      /\ path[c] \in Path \cup {None}
  BY NameAssumption DEF IndInv, TypeOK
\* The step of c moves c alone.
<1>1. ASSUME NEW l \in Label, Goto(c, l)
      PROVE  \A d \in Call : pc'[d] = IF d = c THEN l ELSE pc[d]
  BY <1>0, <1>1 DEF Goto
\* It keeps the owners if c moves between places of one kind, or has no path ...
<1>2. ASSUME NEW l \in Label, Goto(c, l), UNCHANGED path,
             \/ l \in HoldingPath <=> pc[c] \in HoldingPath
             \/ path[c] = None
      PROVE  \A d \in Call, p \in Path : OwnsPath(d, p)' <=> OwnsPath(d, p)
  BY <1>0, <1>1, <1>2 DEF OwnsPath
\* ... or starts.
<1>3. ASSUME NEW l \in Label \ HoldingPath, Goto(c, l), pc[c] \notin HoldingPath,
             \A d \in Call \ {c} : path'[d] = path[d]
      PROVE  \A d \in Call, p \in Path : OwnsPath(d, p)' <=> OwnsPath(d, p)
  BY <1>0, <1>1, <1>3 DEF OwnsPath
<1>4. ASSUME NEW p \in Path \cup {None}, SpawnAgent(c, p) PROVE PathOwned'
  <2>1. \A d \in Call, q \in Path : OwnsPath(d, q)' <=> OwnsPath(d, q)
    BY <1>0, <1>3, <1>4 DEF SpawnAgent, Reserve, Label, HoldingPath
  <2> QED
    BY <1>0, <1>4, <2>1, PathKept DEF SpawnAgent
<1>5. ASSUME NEW t \in Thread, ResumeAgent(c, t) \/ ShutdownAgent(c, t) PROVE PathOwned'
  <2>1. \A d \in Call, q \in Path : OwnsPath(d, q)' <=> OwnsPath(d, q)
    BY <1>3, <1>5 DEF ResumeAgent, ShutdownAgent, Reserve, Label, HoldingPath
  <2> QED
    BY <1>0, <1>5, <2>1, PathKept DEF ResumeAgent, ShutdownAgent
<1>6. CASE LoadCount(c) \/ AddCount(c) \/ SkipPrepare(c)
  <2>1. \A d \in Call, q \in Path : OwnsPath(d, q)' <=> OwnsPath(d, q)
    BY <1>2, <1>6 DEF LoadCount, AddCount, SkipPrepare, Label, HoldingPath
  <2> QED
    BY <1>0, <1>6, <2>1, PathKept DEF LoadCount, AddCount, SkipPrepare
<1>7. CASE CompareExchange(c)
  <2>1. CASE Goto(c, "done") \/ Goto(c, "prepare")
    <3>1. \A d \in Call, q \in Path : OwnsPath(d, q)' <=> OwnsPath(d, q)
      BY <1>2, <1>7, <2>1 DEF CompareExchange, Label, HoldingPath
    <3> QED
      BY <1>0, <1>7, <3>1, PathKept DEF CompareExchange
  <2>2. CASE UNCHANGED pc
    BY <1>0, <1>7, <2>2 DEF CompareExchange, PathOwned, OwnsPath
  <2> QED
    BY <1>7, <2>1, <2>2 DEF CompareExchange
<1>8. CASE RegisterRootThread(c)
  <2>1. \A d \in Call, q \in Path : OwnsPath(d, q)' <=> OwnsPath(d, q)
    <3>1. CASE path[c] = None
      BY <1>2, <1>8, <3>1 DEF RegisterRootThread, Label
    <3>2. CASE path[c] # None
      BY <1>2, <1>8, <3>2 DEF RegisterRootThread, Label, HoldingPath
    <3> QED
      BY <3>1, <3>2
  <2>2. \A p \in Path : agent_tree'[p] = agent_tree[p]
    <3> DEFINE v == IF agent_tree[RootPath] = Absent THEN Root ELSE agent_tree[RootPath]
    <3>1. \/ agent_tree' = [agent_tree EXCEPT ![RootPath] = v]
          \/ UNCHANGED agent_tree
      BY <1>8 DEF RegisterRootThread, InsertRoot
    <3> HIDE DEF v
    <3> QED
      BY <1>0, <3>1 DEF Key
  <2> QED
    BY <1>0, <2>1, <2>2, PathKept
<1>9. CASE ReserveAgentPath(c)
  <2>0. path[c] \in Path /\ path[c] \in Key /\ pc[c] \notin HoldingPath
    BY <1>0, <1>9 DEF ReserveAgentPath, LocalInv, HoldingPath, Key
  <2>1. CASE agent_tree[path[c]] = Absent
    <3>1. /\ Goto(c, "nickname") /\ UNCHANGED path
          /\ agent_tree' = [agent_tree EXCEPT ![path[c]] = Pending]
      BY <1>9, <2>1 DEF ReserveAgentPath
    <3>2. \A d \in Call, p \in Path :
            OwnsPath(d, p)' <=> OwnsPath(d, p) \/ (d = c /\ p = path[c])
      BY <1>0, <1>1, <3>1 DEF OwnsPath, Label, HoldingPath
    <3>3. \A d \in Call : ~OwnsPath(d, path[c])
      BY <1>0, <2>0, <2>1 DEF PathOwned
    <3>4. \A p \in Path : agent_tree'[p] = IF p = path[c] THEN Pending ELSE agent_tree[p]
      BY <1>0, <3>1 DEF Key
    <3>5. ASSUME NEW p \in Path
          PROVE  /\ agent_tree'[p] = Pending <=> \E d \in Call : OwnsPath(d, p)'
                 /\ \A d, e \in Call : OwnsPath(d, p)' /\ OwnsPath(e, p)' => d = e
      <4>1. CASE p = path[c]
        BY <3>2, <3>3, <3>4, <4>1
      <4>2. CASE p # path[c]
        BY <1>0, <3>2, <3>4, <4>2 DEF PathOwned
      <4> QED
        BY <4>1, <4>2
    <3> QED
      BY <3>5 DEF PathOwned
  <2>2. CASE agent_tree[path[c]] # Absent
    <3>1. \A d \in Call, q \in Path : OwnsPath(d, q)' <=> OwnsPath(d, q)
      BY <1>2, <1>9, <2>0, <2>2 DEF ReserveAgentPath, Label, HoldingPath
    <3> QED
      BY <1>0, <1>9, <2>2, <3>1, PathKept DEF ReserveAgentPath
  <2> QED
    BY <2>1, <2>2
<1>10. ASSUME NEW names \in Candidates, NEW preferred \in Preferred(c),
              ReserveAgentNickname(c, names, preferred)
       PROVE  PathOwned'
  <2>1. /\ pc[c] = "nickname" /\ UNCHANGED <<agent_tree, path>>
        /\ Goto(c, "create") \/ Goto(c, Drop(c))
    BY <1>10 DEF ReserveAgentNickname
  <2>2. \A d \in Call, q \in Path : OwnsPath(d, q)' <=> OwnsPath(d, q)
    BY <1>2, <2>1 DEF Drop, Label, HoldingPath
  <2> QED
    BY <1>0, <2>1, <2>2, PathKept
<1>11. ASSUME NEW t \in Thread, CreateThread(c, t) PROVE PathOwned'
  <2>1. \A d \in Call, q \in Path : OwnsPath(d, q)' <=> OwnsPath(d, q)
    BY <1>2, <1>11 DEF CreateThread, Label, HoldingPath
  <2> QED
    BY <1>0, <1>11, <2>1, PathKept DEF CreateThread
<1>12. CASE CreateFails(c)
  <2>1. \A d \in Call, q \in Path : OwnsPath(d, q)' <=> OwnsPath(d, q)
    BY <1>2, <1>12 DEF CreateFails, Drop, Label, HoldingPath
  <2> QED
    BY <1>0, <1>12, <2>1, PathKept DEF CreateFails
\* An owner that gives its path up leaves an entry that is not reserved.
<1>13. ASSUME NEW l \in Label \ HoldingPath, Goto(c, l), UNCHANGED path,
              pc[c] \in HoldingPath, path[c] \in Path, NEW v, v # Pending,
              agent_tree' = [agent_tree EXCEPT ![path[c]] = v]
       PROVE  PathOwned'
  <2>1. \A d \in Call, p \in Path : OwnsPath(d, p)' <=> OwnsPath(d, p) /\ d # c
    BY <1>0, <1>1, <1>13 DEF OwnsPath
  <2>2. OwnsPath(c, path[c])
    BY <1>13 DEF OwnsPath
  <2>3. \A p \in Path : agent_tree'[p] = IF p = path[c] THEN v ELSE agent_tree[p]
    BY <1>0, <1>13 DEF Key
  <2>4. ASSUME NEW p \in Path
        PROVE  /\ agent_tree'[p] = Pending <=> \E d \in Call : OwnsPath(d, p)'
               /\ \A d, e \in Call : OwnsPath(d, p)' /\ OwnsPath(e, p)' => d = e
    <3>1. CASE p = path[c]
      BY <1>0, <1>13, <2>1, <2>2, <2>3, <3>1 DEF PathOwned
    <3>2. CASE p # path[c]
      <4>1. ~OwnsPath(c, p)
        BY <3>2 DEF OwnsPath
      <4> QED
        BY <1>0, <2>1, <2>3, <3>2, <4>1 DEF PathOwned
    <3> QED
      BY <3>1, <3>2
  <2> QED
    BY <2>4 DEF PathOwned
<1>14. CASE Commit(c)
  <2>0. /\ thread[c] \in Thread /\ pc[c] \in HoldingPath /\ UNCHANGED path
        /\ thread[c] # Pending
    BY <1>0, <1>14 DEF Commit, LocalInv, HoldingPath
  <2>1. PICK l \in Label \ HoldingPath : Goto(c, l)
    BY <1>14 DEF Commit, Label, HoldingPath
  <2>2. CASE path[c] = None
    <3>1. agent_tree' = [agent_tree EXCEPT ![thread[c]] = thread[c]]
      BY <1>14, <2>2 DEF Commit
    <3>2. \A p \in Path : agent_tree'[p] = agent_tree[p]
      BY <1>0, <2>0, <3>1 DEF Key
    <3>3. \A d \in Call, q \in Path : OwnsPath(d, q)' <=> OwnsPath(d, q)
      BY <1>2, <2>0, <2>1, <2>2
    <3> QED
      BY <1>0, <3>2, <3>3, PathKept
  <2>3. CASE path[c] # None
    <3>1. agent_tree' = [agent_tree EXCEPT ![path[c]] = thread[c]]
      BY <1>14, <2>3 DEF Commit
    <3> QED
      BY <1>0, <1>13, <2>0, <2>1, <2>3, <3>1
  <2> QED
    BY <2>2, <2>3
<1>15. CASE SendInput(c) \/ DropCount(c) \/ RemoveThread(c) \/ DecrementCount(c)
  <2>1. \A d \in Call, q \in Path : OwnsPath(d, q)' <=> OwnsPath(d, q)
    BY <1>2, <1>15 DEF SendInput, DropCount, RemoveThread, DecrementCount, Label, HoldingPath
  <2> QED
    BY <1>0, <1>15, <2>1, PathKept DEF SendInput, DropCount, RemoveThread, DecrementCount
<1>16. CASE DropPath(c)
  <2> DEFINE v == IF agent_tree[path[c]] = Pending THEN Absent ELSE agent_tree[path[c]]
  <2>1. /\ v # Pending /\ path[c] \in Path /\ pc[c] \in HoldingPath /\ UNCHANGED path
        /\ agent_tree' = [agent_tree EXCEPT ![path[c]] = v]
    BY <1>0, <1>16 DEF DropPath, LocalInv, HoldingPath
  <2>2. Goto(c, "drop_count") /\ "drop_count" \in Label \ HoldingPath
    BY <1>16 DEF DropPath, Label, HoldingPath
  <2> HIDE DEF v
  <2> QED
    BY <1>13, <2>1, <2>2
<1>17. CASE ReleaseSpawnedThread(c)
  <2>1. \A d \in Call, q \in Path : OwnsPath(d, q)' <=> OwnsPath(d, q)
    BY <1>2, <1>17 DEF ReleaseSpawnedThread, Label, HoldingPath
  <2>2. \A p \in Path : agent_tree'[p] = Pending <=> agent_tree[p] = Pending
    <3>1. thread[c] # Pending
      BY <1>0, <1>17 DEF ReleaseSpawnedThread, LocalInv
    <3> QED
      BY <1>0, <1>17, <3>1 DEF ReleaseSpawnedThread, Key
  <2> QED
    BY <1>0, <2>1, <2>2, PathKept
<1> QED
  BY <1>4, <1>5, <1>6, <1>7, <1>8, <1>9, <1>10, <1>11, <1>12, <1>14, <1>15, <1>16, <1>17
     DEF Start, Advance

\* With a limit the counter is only raised by a compare_exchange that saw it
\* below the limit.
LEMMA LimitStep ==
  ASSUME IndInv, NEW c \in Call, Start(c) \/ Advance(c)
  PROVE  LimitInv'
<1> USE DEF registryVars
<1>0. /\ LimitInv /\ LocalInv /\ total_count \in Nat /\ current[c] \in Nat /\ MaxThreads \in Nat
  BY LimitAssumption DEF IndInv, TypeOK
<1>1. CASE UNCHANGED total_count
  BY <1>0, <1>1 DEF LimitInv
<1>2. CASE total_count' = total_count - 1
  BY <1>0, <1>2 DEF LimitInv
<1>3. CASE CompareExchange(c)
  BY <1>0, <1>3 DEF CompareExchange, LimitInv
<1>4. CASE AddCount(c)
  BY <1>0, <1>4 DEF AddCount, LocalInv, LimitInv
<1>5. \/ UNCHANGED total_count \/ total_count' = total_count - 1
      \/ CompareExchange(c) \/ AddCount(c)
  BY DEF Start, Advance, SpawnAgent, ResumeAgent, ShutdownAgent, LoadCount, RegisterRootThread,
         SkipPrepare, ReserveAgentPath, ReserveAgentNickname, CreateThread, CreateFails, Commit,
         SendInput, DropPath, DropCount, RemoveThread, ReleaseSpawnedThread, DecrementCount
<1> QED
  BY <1>1, <1>2, <1>3, <1>4, <1>5

\* Registering the root changes its own entry only, which counts for nothing.
LEMMA RootStep ==
  ASSUME IndInv, RegisterSessionRoot
  PROVE  IndInv'
<1> DEFINE v == IF agent_tree[RootPath] = Absent THEN Root ELSE agent_tree[RootPath]
<1>0. /\ TypeOK /\ LocalInv /\ PathOwned /\ SlotsCovered /\ LimitInv
      /\ DOMAIN agent_tree = Key /\ RootPath \in Key /\ RootPath \notin Path
  BY NameAssumption DEF IndInv, TypeOK, Key
<1>1. /\ agent_tree' = [agent_tree EXCEPT ![RootPath] = v]
      /\ UNCHANGED <<total_count, used_agent_nicknames, nickname_reset_count, threads, created,
                     nickname_of, pc, current, path, thread, nick>>
  BY DEF RegisterSessionRoot, InsertRoot, nickVars, threadVars, localVars
<1>2. v \in Thread \cup {Absent, Pending}
  BY <1>0, NameAssumption DEF TypeOK
<1> HIDE DEF v
<1>3. TypeOK'
  BY <1>0, <1>1, <1>2 DEF TypeOK
<1>4. LocalInv' /\ LimitInv'
  BY <1>0, <1>1 DEF LocalInv, LimitInv
<1>5. PathOwned'
  <2>1. \A p \in Path : agent_tree'[p] = agent_tree[p]
    BY <1>0, <1>1 DEF Key
  <2>2. \A d \in Call, p \in Path : OwnsPath(d, p)' <=> OwnsPath(d, p)
    BY <1>1 DEF OwnsPath
  <2> QED
    BY <1>0, <2>1, <2>2, PathKept
<1>6. SlotsCovered'
  <2>1. Counted' = Counted
    BY <1>0, <1>1 DEF Counted
  <2>2. Holders' = Holders
    BY <1>1 DEF Holders
  <2> QED
    BY <1>0, <1>1, <2>1, <2>2 DEF SlotsCovered
<1> QED
  BY <1>3, <1>4, <1>5, <1>6 DEF IndInv

\* A session begins with no agent and no call.
LEMMA IndInvInit == Init => IndInv
<1> SUFFICES ASSUME Init PROVE IndInv
  OBVIOUS
<1>1. TypeOK
  BY NameAssumption DEF Init, TypeOK, Label
<1>2. LocalInv /\ PathOwned /\ LimitInv
  BY NameAssumption, LimitAssumption
     DEF Init, LocalInv, PathOwned, OwnsPath, HoldingPath, LimitInv, Key
<1>3. SlotsCovered
  <2>1. Holders = {} /\ Counted = {}
    BY NameAssumption DEF Init, Holders, Counted, HoldingSlot
  <2> QED
    BY <2>1, FS_EmptySet DEF Init, SlotsCovered
<1> QED
  BY <1>1, <1>2, <1>3 DEF IndInv

\* The invariant is inductive.
LEMMA IndInvStep == IndInv /\ [Next]_vars => IndInv'
<1> SUFFICES ASSUME IndInv, [Next]_vars PROVE IndInv'
  OBVIOUS
<1>0. CASE RegisterSessionRoot
  BY <1>0, RootStep
<1>1. CASE \E c \in Call : Start(c) \/ Advance(c)
  <2>1. PICK c \in Call : Start(c) \/ Advance(c)
    BY <1>1
  <2>2. TypeOK'
    BY <2>1, TypeStep
  <2>3. LocalInv'
    BY <2>1, LocalStep
  <2>4. SlotsCovered'
    BY <2>1, SlotStep
  <2>5. PathOwned'
    BY <2>1, PathStep
  <2>6. LimitInv'
    BY <2>1, LimitStep
  <2> QED
    BY <2>2, <2>3, <2>4, <2>5, <2>6 DEF IndInv
<1>2. CASE UNCHANGED vars
  <2>1. TypeOK' /\ LocalInv' /\ PathOwned' /\ LimitInv'
    BY <1>2 DEF vars, IndInv, TypeOK, LocalInv, PathOwned, OwnsPath, LimitInv
  <2>2. SlotsCovered'
    BY <1>2 DEF vars, IndInv, SlotsCovered, Holders, Counted
  <2> QED
    BY <2>1, <2>2 DEF IndInv
<1> QED
  BY <1>0, <1>1, <1>2 DEF Next

\* It holds of every reachable state.
LEMMA Inductive == Spec => []IndInv
  BY IndInvInit, IndInvStep, PTL DEF Spec

\* The registry, the threads and the calls keep their types; the counter, an
\* AtomicUsize, never goes below zero.
THEOREM TypeCorrect == Spec => []TypeOK
<1>1. IndInv => TypeOK
  BY DEF IndInv
<1> QED
  BY <1>1, Inductive, PTL

\* Whatever the interleaving of spawns, resumes and shutdowns, total_count covers
\* the reservations in flight and the agents registered.
THEOREM CounterCoversSlots == Spec => []SlotsCovered
<1>1. IndInv => SlotsCovered
  BY DEF IndInv
<1> QED
  BY <1>1, Inductive, PTL

\* With agent_max_threads set, the reservations in flight and the agents
\* registered never exceed it.
THEOREM LimitKept == Spec => []AgentsWithinLimit
<1>1. IndInv => AgentsWithinLimit
  BY SlotSets, LimitAssumption DEF IndInv, TypeOK, SlotsCovered, LimitInv, AgentsWithinLimit
<1> QED
  BY <1>1, Inductive, PTL

\* A path entry without an agent id is the reservation of exactly one spawn in
\* flight, and a spawn that reserved its path still has it.
THEOREM PathsHaveOneOwner == Spec => []PathOwned
<1>1. IndInv => PathOwned
  BY DEF IndInv
<1> QED
  BY <1>1, Inductive, PTL

-----------------------------------------------------------------------------
(* Nicknames.                                                              *)

\* The places of a call before it has reserved a nickname.
Early == {"idle", "load", "exchange", "add", "prepare", "path", "nickname"}

\* A name that cannot be offered: it is of an earlier generation, or in use in this one.
Taken(x) ==
  x[2] <= nickname_reset_count /\ (x[2] = nickname_reset_count => x \in used_agent_nicknames)

\* A name that a call has in hand or a thread has was taken, and it is one thread's:
\* two calls have one name only if they resume one thread, whose name it is.
NickInv ==
  /\ \A c \in Call : pc[c] \in Early => nick[c] = None
  /\ \A c \in Call : nick[c] # None => Taken(nick[c])
  /\ \A t \in Thread : nickname_of[t] # None => Taken(nickname_of[t])
  /\ \A c, d \in Call : c # d /\ nick[c] # None /\ nick[c] = nick[d]
                          => thread[c] = thread[d] /\ thread[c] \in Thread
  /\ \A c \in Call, t \in Thread : nick[c] # None /\ nick[c] = nickname_of[t] => thread[c] = t
  /\ NicknamesDistinct

\* The steps of a call that neither take a name nor give one to a thread.
NamesKept(c) ==
  /\ UNCHANGED <<used_agent_nicknames, nickname_reset_count, nickname_of, nick>>
  /\ pc'[c] \in Early => pc[c] \in Early
  /\ \A d \in Call : d # c => pc'[d] = pc[d] /\ thread'[d] = thread[d]
  /\ thread'[c] # thread[c] => pc[c] \in Early \/ thread[c] = None

\* Every step but the two that do is such a step.
LEMMA NamesCases ==
  ASSUME IndInv, NEW c \in Call, Start(c) \/ Advance(c)
  PROVE  \/ NamesKept(c) \/ Commit(c)
         \/ \E names \in Candidates, preferred \in Preferred(c) :
              ReserveAgentNickname(c, names, preferred)
<1> USE DEF registryVars, nickVars, threadVars, localVars, NamesKept, Goto, Early
<1>0. pc \in [Call -> Label] /\ thread \in [Call -> Thread \cup {None}]
  BY DEF IndInv, TypeOK
<1>1. ASSUME NEW p, SpawnAgent(c, p) PROVE NamesKept(c)
  BY <1>0, <1>1 DEF SpawnAgent
<1>2. ASSUME NEW t \in Thread, ResumeAgent(c, t) PROVE NamesKept(c)
  BY <1>0, <1>2 DEF ResumeAgent
<1>3. ASSUME NEW t \in Thread, ShutdownAgent(c, t) PROVE NamesKept(c)
  BY <1>0, <1>3 DEF ShutdownAgent
<1>4. CASE LoadCount(c) \/ CompareExchange(c) \/ AddCount(c)
  BY <1>0, <1>4 DEF LoadCount, CompareExchange, AddCount
<1>5. CASE RegisterRootThread(c) \/ SkipPrepare(c) \/ ReserveAgentPath(c)
  BY <1>0, <1>5 DEF RegisterRootThread, SkipPrepare, ReserveAgentPath
<1>6. ASSUME NEW t \in Thread, CreateThread(c, t) PROVE NamesKept(c)
  BY <1>0, <1>6 DEF CreateThread
<1>7. CASE CreateFails(c) \/ SendInput(c) \/ DropPath(c) \/ DropCount(c)
  BY <1>0, <1>7 DEF CreateFails, Drop, SendInput, DropPath, DropCount
<1>8. CASE RemoveThread(c) \/ ReleaseSpawnedThread(c) \/ DecrementCount(c)
  BY <1>0, <1>8 DEF RemoveThread, ReleaseSpawnedThread, DecrementCount
<1> QED
  BY <1>1, <1>2, <1>3, <1>4, <1>5, <1>6, <1>7, <1>8 DEF Start, Advance

\* A call takes a name: the one the thread it resumes had, or one nobody has.
LEMMA ReserveNicknameKeeps ==
  ASSUME IndInv, NickInv, NEW c \in Call, NEW names \in Candidates, NEW preferred \in Preferred(c),
         ReserveAgentNickname(c, names, preferred)
  PROVE  NickInv'
<1>0. /\ pc \in [Call -> Label] /\ nick \in [Call -> Nickname \cup {None}]
      /\ nickname_of \in [Thread -> Nickname \cup {None}] /\ nickname_reset_count \in Nat
      /\ thread \in [Call -> Thread \cup {None}] /\ None \notin Thread
      /\ \A x \in Nickname : x[2] \in Nat
  BY NameAssumption DEF IndInv, TypeOK, Nickname
<1>1. /\ pc[c] = "nickname" /\ nick[c] = None
      /\ UNCHANGED <<nickname_of, thread>>
      /\ \A d \in Call : d # c => pc'[d] = pc[d]
      /\ pc'[c] \notin Early
  BY <1>0 DEF ReserveAgentNickname, NickInv, Early, localVars, Goto, Drop
<1>2. CASE preferred = None /\ names = {}
  <2>1. UNCHANGED <<used_agent_nicknames, nickname_reset_count, nick>>
    BY <1>2 DEF ReserveAgentNickname
  <2> QED
    BY <1>1, <2>1 DEF NickInv, Taken, NicknamesDistinct
<1>3. CASE preferred # None
  <2>1. /\ nick' = [nick EXCEPT ![c] = preferred]
        /\ used_agent_nicknames' = used_agent_nicknames \cup {preferred}
        /\ UNCHANGED nickname_reset_count
    BY <1>3 DEF ReserveAgentNickname
  <2>2. thread[c] \in Thread /\ preferred = nickname_of[thread[c]]
    BY <1>0, <1>3 DEF Preferred
  <2>3. nick'[c] = preferred /\ \A d \in Call : d # c => nick'[d] = nick[d]
    BY <1>0, <2>1
  <2>4. \A x : Taken(x) => Taken(x)'
    BY <2>1 DEF Taken
  <2>5. Taken(preferred)
    BY <1>3, <2>2 DEF NickInv
  <2>6. \A d \in Call : nick[d] = preferred => thread[d] = thread[c]
    BY <1>3, <2>2 DEF NickInv
  <2>7. \A t \in Thread : nickname_of[t] = preferred => t = thread[c]
    BY <1>3, <2>2 DEF NickInv, NicknamesDistinct
  <2>8. \A d \in Call : pc'[d] \in Early => nick'[d] = None
    BY <1>1, <2>3 DEF NickInv
  <2>9. /\ \A d \in Call : nick'[d] # None => Taken(nick[d])'
        /\ \A t \in Thread : nickname_of'[t] # None => Taken(nickname_of[t])'
    BY <1>1, <2>3, <2>4, <2>5 DEF NickInv
  <2>10. \A d, e \in Call : d # e /\ nick'[d] # None /\ nick'[d] = nick'[e]
                             => thread'[d] = thread'[e] /\ thread'[d] \in Thread
    BY <1>1, <2>2, <2>3, <2>6 DEF NickInv
  <2>11. \A d \in Call, t \in Thread : nick'[d] # None /\ nick'[d] = nickname_of'[t] => thread'[d] = t
    BY <1>1, <2>2, <2>3, <2>7 DEF NickInv
  <2> QED
    BY <1>1, <2>8, <2>9, <2>10, <2>11 DEF NickInv, NicknamesDistinct
<1>4. CASE preferred = None /\ names # {}
  <2>1. \E x : /\ nick' = [nick EXCEPT ![c] = x] /\ x \in Nickname
               /\ ~Taken(x) /\ Taken(x)'
               /\ \A y \in Nickname : Taken(y) => Taken(y)'
    <3>1. CASE Offered(names) # {}
      <4>1. PICK x \in Offered(names) : /\ nick' = [nick EXCEPT ![c] = x]
                                        /\ used_agent_nicknames' = used_agent_nicknames \cup {x}
        BY <1>4, <3>1 DEF ReserveAgentNickname
      <4>2. UNCHANGED nickname_reset_count
        BY <1>4, <3>1 DEF ReserveAgentNickname
      <4>3. x[2] = nickname_reset_count /\ x \notin used_agent_nicknames /\ x \in Nickname
        BY <1>0 DEF Offered, Nickname
      <4>4. ~Taken(x) /\ Taken(x)' /\ \A y : Taken(y) => Taken(y)'
        BY <1>0, <4>1, <4>2, <4>3 DEF Taken
      <4> QED
        BY <4>1, <4>3, <4>4
    <3>2. CASE Offered(names) = {}
      <4>1. PICK n \in names :
              /\ nick' = [nick EXCEPT ![c] = <<n, nickname_reset_count + 1>>]
              /\ used_agent_nicknames' = {<<n, nickname_reset_count + 1>>}
        BY <1>4, <3>2 DEF ReserveAgentNickname
      <4>2. nickname_reset_count' = nickname_reset_count + 1
        BY <1>4, <3>2 DEF ReserveAgentNickname
      <4>3. PICK x : x = <<n, nickname_reset_count + 1>>
        OBVIOUS
      <4>4. x[2] = nickname_reset_count + 1 /\ x \in Nickname
        BY <1>0, <4>3 DEF Nickname
      <4>5. ~Taken(x)
        BY <1>0, <4>4 DEF Taken
      <4>6. Taken(x)'
        BY <1>0, <4>1, <4>2, <4>3, <4>4 DEF Taken
      <4>7. \A y \in Nickname : Taken(y) => Taken(y)'
        BY <1>0, <4>2 DEF Taken
      <4> QED
        BY <4>1, <4>3, <4>4, <4>5, <4>6, <4>7
    <3> QED
      BY <3>1, <3>2
  <2>2. PICK x : /\ nick' = [nick EXCEPT ![c] = x] /\ x \in Nickname
                 /\ ~Taken(x) /\ Taken(x)'
                 /\ \A y \in Nickname : Taken(y) => Taken(y)'
    BY <2>1
  <2>3. nick'[c] = x /\ \A d \in Call : d # c => nick'[d] = nick[d]
    BY <1>0, <2>2
  <2>4. /\ \A d \in Call : nick[d] # None => nick[d] # x
        /\ \A t \in Thread : nickname_of[t] # None => nickname_of[t] # x
    BY <2>2 DEF NickInv
  <2>5. \A d \in Call : pc'[d] \in Early => nick'[d] = None
    BY <1>1, <2>3 DEF NickInv
  <2>6. /\ \A d \in Call : nick'[d] # None => Taken(nick[d])'
        /\ \A t \in Thread : nickname_of'[t] # None => Taken(nickname_of[t])'
    BY <1>0, <1>1, <2>2, <2>3 DEF NickInv
  <2>7. \A d, e \in Call : d # e /\ nick'[d] # None /\ nick'[d] = nick'[e]
                            => thread'[d] = thread'[e] /\ thread'[d] \in Thread
    BY <1>1, <2>3, <2>4 DEF NickInv
  <2>8. \A d \in Call, t \in Thread : nick'[d] # None /\ nick'[d] = nickname_of'[t] => thread'[d] = t
    BY <1>1, <2>3, <2>4 DEF NickInv
  <2> QED
    BY <1>1, <2>5, <2>6, <2>7, <2>8 DEF NickInv, NicknamesDistinct
<1> QED
  BY <1>2, <1>3, <1>4

\* A thread gets the name its call has in hand.
LEMMA CommitNamesKeeps ==
  ASSUME IndInv, NickInv, NEW c \in Call, Commit(c)
  PROVE  NickInv'
<1>0. /\ pc \in [Call -> Label] /\ nickname_of \in [Thread -> Nickname \cup {None}]
      /\ thread[c] \in Thread
  BY DEF IndInv, TypeOK, LocalInv, Commit
<1>1. /\ UNCHANGED <<nick, thread, nickname_reset_count>>
      /\ nickname_of'[thread[c]] = nick[c]
      /\ \A t \in Thread : t # thread[c] => nickname_of'[t] = nickname_of[t]
      /\ used_agent_nicknames \subseteq used_agent_nicknames'
      /\ \A d \in Call : d # c => pc'[d] = pc[d]
      /\ pc'[c] \notin Early
  BY <1>0 DEF Commit, localVars, Goto, Early
<1>2. \A x : Taken(x) => Taken(x)'
  BY <1>1 DEF Taken
<1>3. \A d \in Call : pc'[d] \in Early => nick'[d] = None
  BY <1>1 DEF NickInv
<1>4. /\ \A d \in Call : nick'[d] # None => Taken(nick[d])'
      /\ \A t \in Thread : nickname_of'[t] # None => Taken(nickname_of[t])'
  BY <1>1, <1>2 DEF NickInv
<1>5. \A d \in Call, t \in Thread : nick'[d] # None /\ nick'[d] = nickname_of'[t] => thread'[d] = t
  BY <1>0, <1>1 DEF NickInv
<1>6. NicknamesDistinct'
  <2>1. ASSUME NEW t \in Thread, NEW u \in Thread, t # u, nickname_of'[t] # None
        PROVE  nickname_of'[t] # nickname_of'[u]
    <3>1. CASE t = thread[c]
      BY <1>0, <1>1, <2>1, <3>1 DEF NickInv
    <3>2. CASE u = thread[c]
      BY <1>0, <1>1, <2>1, <3>2 DEF NickInv
    <3>3. CASE t # thread[c] /\ u # thread[c]
      BY <1>1, <2>1, <3>3 DEF NickInv, NicknamesDistinct
    <3> QED
      BY <3>1, <3>2, <3>3
  <2> QED
    BY <2>1 DEF NicknamesDistinct
<1> QED
  BY <1>1, <1>3, <1>4, <1>5, <1>6 DEF NickInv

\* Every step keeps the names apart.
LEMMA NickStep == IndInv /\ NickInv /\ [Next]_vars => NickInv'
<1> SUFFICES ASSUME IndInv, NickInv, [Next]_vars PROVE NickInv'
  OBVIOUS
<1>1. ASSUME NEW c \in Call, NamesKept(c) PROVE NickInv'
  <2>0. None \notin Thread
    BY NameAssumption
  <2>1. \A d \in Call : pc'[d] \in Early => nick'[d] = None
    BY <1>1 DEF NamesKept, NickInv
  <2>2. /\ \A d \in Call : nick'[d] # None => Taken(nick[d])'
        /\ \A t \in Thread : nickname_of'[t] # None => Taken(nickname_of[t])'
    BY <1>1 DEF NamesKept, NickInv, Taken
  <2>3. nick[c] # None /\ thread'[c] # thread[c] => thread[c] = None
    BY <1>1 DEF NamesKept, NickInv
  <2>4. \A d, e \in Call : d # e /\ nick'[d] # None /\ nick'[d] = nick'[e]
                            => thread'[d] = thread'[e] /\ thread'[d] \in Thread
    BY <1>1, <2>0, <2>3 DEF NamesKept, NickInv
  <2>5. \A d \in Call, t \in Thread : nick'[d] # None /\ nick'[d] = nickname_of'[t] => thread'[d] = t
    BY <1>1, <2>0, <2>3 DEF NamesKept, NickInv
  <2> QED
    BY <1>1, <2>1, <2>2, <2>4, <2>5 DEF NamesKept, NickInv, NicknamesDistinct
<1>2. ASSUME UNCHANGED <<used_agent_nicknames, nickname_reset_count, nickname_of, nick, pc, thread>>
      PROVE  NickInv'
  BY <1>2 DEF NickInv, Taken, NicknamesDistinct
<1>3. CASE RegisterSessionRoot
  BY <1>2, <1>3 DEF RegisterSessionRoot, nickVars, localVars
<1>4. CASE \E c \in Call : Start(c) \/ Advance(c)
  BY <1>1, <1>4, NamesCases, CommitNamesKeeps, ReserveNicknameKeeps
<1>5. CASE UNCHANGED vars
  BY <1>2, <1>5 DEF vars
<1> QED
  BY <1>3, <1>4, <1>5 DEF Next

\* Whatever lists of names the roles have, and across exhausted lists, failed spawns
\* and resumed threads, no two threads of a session have one nickname.
THEOREM NicknamesStayDistinct == Spec => []NicknamesDistinct
<1>1. Init => NickInv
  BY DEF Init, NickInv, NicknamesDistinct
<1>2. NickInv => NicknamesDistinct
  BY DEF NickInv
<1> QED
  BY <1>1, <1>2, NickStep, Inductive, PTL DEF Spec

-----------------------------------------------------------------------------
(* Slots of a session in which no agent is resumed.                        *)

\* A thread that is about to be registered was created by that call, and has no entry
\* under its id yet.
FreshInv ==
  /\ \A c \in Call : pc[c] \in Early \cup {"create"} => thread[c] = None
  /\ \A t \in Thread \ created : agent_tree[t] \notin Thread
  /\ \A c \in Call : pc[c] = "commit" =>
       thread[c] \in created /\ agent_tree[thread[c]] \notin Thread
  /\ \A c, d \in Call : c # d /\ pc[c] = "commit" /\ pc[d] = "commit" => thread[c] # thread[d]

\* The counter is exact.
SlotsExact == Slack = 0

\* The steps that neither create a thread nor register one: an entry under a thread's
\* id may go, none appears.
EntriesKept(c) ==
  /\ UNCHANGED created
  /\ \A d \in Call : d # c => pc'[d] = pc[d] /\ thread'[d] = thread[d]
  /\ pc'[c] # "commit"
  /\ pc'[c] \in Early \cup {"create"} => pc[c] \in Early \cup {"create"} /\ thread'[c] = thread[c]
  /\ \A t \in Thread : agent_tree'[t] \in Thread => agent_tree[t] \in Thread

\* Without a resume, the others are those of create and commit.
LEMMA EntriesCases ==
  ASSUME Resumer = {}, IndInv, NEW c \in Call, Start(c) \/ Advance(c)
  PROVE  EntriesKept(c) \/ Commit(c) \/ \E t \in Thread : CreateThread(c, t)
<1> USE DEF registryVars, nickVars, threadVars, localVars, EntriesKept, Goto, Early
<1>0. /\ pc \in [Call -> Label] /\ thread \in [Call -> Thread \cup {None}]
      /\ DOMAIN agent_tree = Key /\ Thread \subseteq Key
      /\ Path \cap Thread = {} /\ RootPath \notin Thread /\ Absent \notin Thread
  BY NameAssumption DEF IndInv, TypeOK, Key
<1>1. ASSUME NEW p, SpawnAgent(c, p) PROVE EntriesKept(c)
  BY <1>0, <1>1 DEF SpawnAgent, Reserve
<1>2. ASSUME NEW t \in Thread PROVE ~ResumeAgent(c, t)
  BY DEF ResumeAgent
<1>3. ASSUME NEW t \in Thread, ShutdownAgent(c, t) PROVE EntriesKept(c)
  BY <1>0, <1>3 DEF ShutdownAgent
<1>4. CASE LoadCount(c) \/ CompareExchange(c) \/ AddCount(c)
  BY <1>0, <1>4 DEF LoadCount, CompareExchange, AddCount
<1>5. CASE RegisterRootThread(c) \/ SkipPrepare(c)
  BY <1>0, <1>5 DEF RegisterRootThread, InsertRoot, SkipPrepare
<1>6. CASE ReserveAgentPath(c) \/ DropPath(c)
  <2>1. path[c] \in Path
    BY <1>6 DEF ReserveAgentPath, DropPath, IndInv, LocalInv
  <2> QED
    BY <1>0, <1>6, <2>1 DEF ReserveAgentPath, DropPath
<1>7. ASSUME NEW names, NEW preferred, ReserveAgentNickname(c, names, preferred) PROVE EntriesKept(c)
  BY <1>0, <1>7 DEF ReserveAgentNickname, Drop
<1>8. CASE CreateFails(c) \/ SendInput(c) \/ DropCount(c)
  BY <1>0, <1>8 DEF CreateFails, Drop, SendInput, DropCount
<1>9. CASE RemoveThread(c) \/ ReleaseSpawnedThread(c) \/ DecrementCount(c)
  BY <1>0, <1>9 DEF RemoveThread, ReleaseSpawnedThread, DecrementCount
<1> QED
  BY <1>1, <1>2, <1>3, <1>4, <1>5, <1>6, <1>7, <1>8, <1>9 DEF Start, Advance

\* Every step of a call keeps new threads without an entry until they are registered.
LEMMA FreshStep ==
  ASSUME Resumer = {}, IndInv, FreshInv, NEW c \in Call, Start(c) \/ Advance(c)
  PROVE  FreshInv'
<1>0. /\ pc \in [Call -> Label] /\ thread \in [Call -> Thread \cup {None}]
      /\ agent_tree \in [Key -> Thread \cup {Absent, Pending}] /\ Thread \subseteq Key
      /\ Path \cap Thread = {} /\ None \notin Thread
  BY NameAssumption DEF IndInv, TypeOK, Key
<1>1. CASE EntriesKept(c)
  BY <1>0, <1>1 DEF EntriesKept, FreshInv, IndInv, LocalInv
<1>2. ASSUME NEW t \in Thread, CreateThread(c, t) PROVE FreshInv'
  <2>1. t \notin created
    BY <1>2 DEF CreateThread, FreshInv
  <2>2. /\ pc'[c] = "commit" /\ thread'[c] = t /\ created' = created \cup {t}
        /\ \A d \in Call : d # c => pc'[d] = pc[d] /\ thread'[d] = thread[d]
        /\ UNCHANGED agent_tree
    BY <1>0, <1>2 DEF CreateThread, Goto, registryVars
  <2> QED
    BY <2>1, <2>2 DEF FreshInv, Early
<1>3. CASE Commit(c)
  <2>1. /\ pc[c] = "commit" /\ pc'[c] \notin Early \cup {"create", "commit"}
        /\ \A d \in Call : d # c => pc'[d] = pc[d]
        /\ UNCHANGED <<thread, created>>
    BY <1>0, <1>3 DEF Commit, Goto, Early, threadVars, localVars
  <2>2. \A t \in Thread : t # thread[c] => agent_tree'[t] = agent_tree[t]
    <3>1. path[c] = None \/ path[c] \in Path
      BY DEF IndInv, TypeOK
    <3> QED
      BY <1>0, <1>3, <3>1 DEF Commit
  <2>3. thread[c] \in created
    BY <2>1 DEF FreshInv
  <2>4. \A d \in Call : pc'[d] \in Early \cup {"create"} => thread'[d] = None
    BY <2>1 DEF FreshInv
  <2>5. \A t \in Thread \ created' : agent_tree'[t] \notin Thread
    BY <2>1, <2>2, <2>3 DEF FreshInv
  <2>6. ASSUME NEW d \in Call, pc'[d] = "commit"
        PROVE  thread'[d] \in created' /\ agent_tree'[thread'[d]] \notin Thread
    <3>1. d # c /\ pc[d] = "commit" /\ thread[d] # thread[c] /\ thread[d] \in Thread
      BY <2>1, <2>6 DEF FreshInv, IndInv, LocalInv
    <3> QED
      BY <2>1, <2>2, <3>1 DEF FreshInv
  <2>7. \A d, e \in Call : d # e /\ pc'[d] = "commit" /\ pc'[e] = "commit" => thread'[d] # thread'[e]
    BY <2>1 DEF FreshInv
  <2> QED
    BY <2>4, <2>5, <2>6, <2>7 DEF FreshInv
<1> QED
  BY <1>1, <1>2, <1>3, EntriesCases

\* So no commit overwrites an agent, and the counter stays exact.
LEMMA ExactStep ==
  ASSUME Resumer = {} PROVE IndInv /\ FreshInv /\ SlotsExact /\ [Next]_vars => FreshInv' /\ SlotsExact'
<1> SUFFICES ASSUME IndInv, FreshInv, SlotsExact, [Next]_vars PROVE FreshInv' /\ SlotsExact'
  OBVIOUS
<1>1. ASSUME NEW c \in Call, Start(c) \/ Advance(c) PROVE FreshInv' /\ SlotsExact'
  <2>1. ~Overwrites(c)
    <3> SUFFICES ASSUME Commit(c)
                 PROVE  agent_tree[IF path[c] = None THEN thread[c] ELSE path[c]] \notin Thread
      BY DEF Overwrites
    <3>1. pc[c] = "commit"
      BY DEF Commit
    <3>2. CASE path[c] = None
      BY <3>1, <3>2 DEF FreshInv
    <3>3. CASE path[c] # None
      <4>1. path[c] \in Path /\ OwnsPath(c, path[c])
        BY <3>1, <3>3 DEF IndInv, TypeOK, OwnsPath, HoldingPath
      <4>2. agent_tree[path[c]] = Pending
        BY <4>1 DEF IndInv, PathOwned
      <4> QED
        BY <3>3, <4>2, NameAssumption
    <3> QED
      BY <3>2, <3>3
  <2> QED
    BY <1>1, <2>1, FreshStep, SlackStep DEF SlotsExact
<1>2. CASE RegisterSessionRoot
  <2>1. /\ \A t \in Thread : agent_tree'[t] = agent_tree[t]
        /\ UNCHANGED <<total_count, created, pc, thread>>
    BY <1>2, NameAssumption
       DEF RegisterSessionRoot, InsertRoot, threadVars, localVars, IndInv, TypeOK, Key
  <2>2. Counted' = Counted /\ Holders' = Holders
    BY <1>2, <2>1, NameAssumption DEF RegisterSessionRoot, InsertRoot, Counted, Holders, IndInv, TypeOK
  <2> QED
    BY <2>1, <2>2 DEF FreshInv, SlotsExact, Slack, IndInv, LocalInv
<1>3. CASE UNCHANGED vars
  BY <1>3 DEF vars, FreshInv, SlotsExact, Slack, Counted, Holders
<1> QED
  BY <1>1, <1>2, <1>3 DEF Next

\* In a session in which no agent is resumed, a slot is never lost: once every call
\* has returned, total_count is the number of agents registered.
THEOREM SlotsAllReturned == ASSUME Resumer = {} PROVE Spec => []SlotsReturned
<1>1. Init => FreshInv /\ SlotsExact
  <2> SUFFICES ASSUME Init PROVE FreshInv /\ SlotsExact
    OBVIOUS
  <2>1. Holders = {} /\ Counted = {}
    BY NameAssumption DEF Init, Holders, Counted, HoldingSlot
  <2>2. SlotsExact
    BY <2>1, FS_EmptySet DEF Init, SlotsExact, Slack
  <2> QED
    BY <2>2, NameAssumption DEF Init, FreshInv, Key
<1>2. IndInv /\ SlotsExact => SlotsReturned
  <2> SUFFICES ASSUME IndInv, SlotsExact, Quiet PROVE total_count = Cardinality(Counted)
    BY DEF SlotsReturned
  <2>1. Holders = {}
    BY DEF Holders, HoldingSlot, Quiet
  <2>2. Cardinality(Holders) = 0
    BY <2>1, FS_EmptySet
  <2> QED
    BY <2>2, SlotSets DEF SlotsExact, Slack, IndInv, TypeOK
<1> QED
  BY <1>1, <1>2, ExactStep, Inductive, PTL DEF Spec
=============================================================================
