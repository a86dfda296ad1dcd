---------------------------- MODULE AgentRegistry ----------------------------
(***************************************************************************)
(* core: the registry of sub-agents of one user session (agent/registry.rs) *)
(* and the operations of AgentControl that use it: spawn an agent, resume a *)
(* closed one, shut one down.                                              *)
(*                                                                         *)
(* The agents of a session call these concurrently.  The registry is an     *)
(* atomic counter and a map behind a mutex, and the thread manager's map of *)
(* running threads has a lock of its own: one step is one atomic access or  *)
(* one critical section.                                                   *)
(***************************************************************************)
EXTENDS Integers, FiniteSets

CONSTANTS
  Call,        \* calls of AgentControl, each made at most once: a shutdown, or ...
  Resumer,     \* ... a resume, for these; a spawn, for the others
  Path,        \* agent paths other than the root's
  Thread,      \* thread ids; also the tree's keys of agents without a path
  Root,        \* the thread id of the session's root agent
  Candidates,  \* nickname lists a role may be configured with
  MaxThreads,  \* config.agent_max_threads ...
  Limited,     \* ... if there is a limit
  RootPath, Absent, Pending, None

ASSUME FiniteAssumption == IsFiniteSet(Call) /\ IsFiniteSet(Path) /\ IsFiniteSet(Thread)
ASSUME LimitAssumption == MaxThreads \in Nat \ {0} /\ Limited \in BOOLEAN
ASSUME NameAssumption ==
  /\ Root \in Thread
  /\ Path \cap Thread = {}
  /\ RootPath \notin Path \cup Thread
  /\ {Absent, Pending, None} \cap (Path \cup Thread \cup {RootPath}) = {}
  /\ Absent # Pending

Key == Path \cup Thread \cup {RootPath}
Nickname == (UNION Candidates) \X Nat   \* <<"Ada", 1>> is "Ada the 2nd"

VARIABLES
  total_count,           \* total_count: AtomicUsize
  agent_tree,            \* key -> agent_id; Pending is a reserved path, without an id
  used_agent_nicknames,
  nickname_reset_count,
  threads,               \* ThreadManagerState::threads
  created,               \* the threads that have a rollout file
  nickname_of,           \* agent_nickname of each thread, in the state database
  pc,
  current,               \* `current` of try_increment_spawned
  path,                  \* the agent path a spawn asked for
  thread,                \* the thread a call is about
  nick                   \* the nickname a call reserved

registryVars == <<total_count, agent_tree>>
nickVars == <<used_agent_nicknames, nickname_reset_count, nickname_of, nick>>
threadVars == <<threads, created>>
localVars == <<current, path, thread>>
vars == <<total_count, agent_tree, used_agent_nicknames, nickname_reset_count, threads, created,
          nickname_of, pc, current, path, thread, nick>>

Label == {"idle", "load", "exchange", "add", "prepare", "path", "nickname", "create", "commit",
          "send", "drop_path", "drop_count", "remove", "release", "decrement", "done"}

\* The labels of a call that owns one unit of total_count: its reservation is
\* active, or it has removed a counted agent and not yet given its slot back.
HoldingSlot == {"prepare", "path", "nickname", "create", "commit", "drop_path", "drop_count",
                "decrement"}

\* The labels of a reservation with reserved_agent_path set.
HoldingPath == {"nickname", "create", "commit", "drop_path"}

TypeOK ==
  /\ total_count \in Nat
  /\ agent_tree \in [Key -> Thread \cup {Absent, Pending}]
  /\ used_agent_nicknames \subseteq Nickname
  /\ nickname_reset_count \in Nat
  /\ threads \subseteq Thread
  /\ created \subseteq Thread
  /\ nickname_of \in [Thread -> Nickname \cup {None}]
  /\ pc \in [Call -> Label]
  /\ current \in [Call -> Nat]
  /\ path \in [Call -> Path \cup {None}]
  /\ thread \in [Call -> Thread \cup {None}]
  /\ nick \in [Call -> Nickname \cup {None}]

Init ==
  /\ total_count = 0
  /\ agent_tree = [k \in Key |-> Absent]
  /\ used_agent_nicknames = {}
  /\ nickname_reset_count = 0
  /\ threads = {Root}
  /\ created = {Root}
  /\ nickname_of = [t \in Thread |-> None]
  /\ pc = [c \in Call |-> "idle"]
  /\ current = [c \in Call |-> 0]
  /\ path = [c \in Call |-> None]
  /\ thread = [c \in Call |-> None]
  /\ nick = [c \in Call |-> None]

Goto(c, label) == pc' = [pc EXCEPT ![c] = label]

-----------------------------------------------------------------------------
(* The operations of AgentControl                                          *)

Reserve == IF Limited THEN "load" ELSE "add"

\* spawn_agent_internal, with the path of a task or without one.
SpawnAgent(c, p) ==
  /\ pc[c] = "idle" /\ c \notin Resumer
  /\ path' = [path EXCEPT ![c] = p]
  /\ Goto(c, Reserve)
  /\ UNCHANGED <<registryVars, nickVars, threadVars, current, thread>>

\* resume_agent on a thread that is closed, as get_status says; the descendants
\* resume_agent_from_rollout finds are resumed by calls of the same shape.  A
\* resumed agent has no path.
ResumeAgent(c, t) ==
  /\ pc[c] = "idle" /\ c \in Resumer /\ t \in created \ {Root}
  /\ thread' = [thread EXCEPT ![c] = t]
  /\ Goto(c, IF t \in threads THEN "done" ELSE Reserve)
  /\ UNCHANGED <<registryVars, nickVars, threadVars, current, path>>

\* shutdown_live_agent of a thread its caller saw running, and the same steps of
\* handle_thread_request_result when the agent died.
ShutdownAgent(c, t) ==
  /\ pc[c] = "idle" /\ t \in threads
  /\ thread' = [thread EXCEPT ![c] = t]
  /\ Goto(c, "remove")
  /\ UNCHANGED <<registryVars, nickVars, threadVars, current, path>>

-----------------------------------------------------------------------------
(* reserve_spawn_slot                                                      *)

LoadCount(c) ==
  /\ pc[c] = "load"
  /\ current' = [current EXCEPT ![c] = total_count]
  /\ Goto(c, "exchange")
  /\ UNCHANGED <<registryVars, nickVars, threadVars, path, thread>>

\* Faulty: the counter is stored without comparing it.
ExchangeUnchecked(c) ==
  /\ pc[c] = "exchange"
  /\ IF current[c] >= MaxThreads
     THEN Goto(c, "done") /\ UNCHANGED total_count
     ELSE Goto(c, "prepare") /\ total_count' = total_count + 1
  /\ UNCHANGED <<agent_tree, nickVars, threadVars, localVars>>

\* A spurious failure of compare_exchange_weak changes nothing.
CompareExchange(c) ==
  /\ pc[c] = "exchange"
  /\ IF current[c] >= MaxThreads
     THEN Goto(c, "done") /\ UNCHANGED <<total_count, current>>
     ELSE IF total_count = current[c]
          THEN Goto(c, "prepare") /\ total_count' = total_count + 1 /\ UNCHANGED current
          ELSE current' = [current EXCEPT ![c] = total_count] /\ UNCHANGED <<pc, total_count>>
  /\ UNCHANGED <<agent_tree, nickVars, threadVars, path, thread>>

AddCount(c) ==
  /\ pc[c] = "add"
  /\ total_count' = total_count + 1
  /\ Goto(c, "prepare")
  /\ UNCHANGED <<agent_tree, nickVars, threadVars, localVars>>

-----------------------------------------------------------------------------
(* prepare_thread_spawn                                                    *)

\* register_root_thread
InsertRoot == agent_tree' = [agent_tree EXCEPT ![RootPath] = IF @ = Absent THEN Root ELSE @]

\* A child of the root registers the root; a deeper one does not.
RegisterRootThread(c) ==
  /\ pc[c] = "prepare"
  /\ InsertRoot \/ UNCHANGED agent_tree
  /\ Goto(c, IF path[c] = None THEN "nickname" ELSE "path")
  /\ UNCHANGED <<total_count, nickVars, threadVars, localVars>>

\* A source other than ThreadSpawn has nothing to prepare.
SkipPrepare(c) ==
  /\ pc[c] = "prepare"
  /\ path[c] = None
  /\ Goto(c, "create")
  /\ UNCHANGED <<registryVars, nickVars, threadVars, localVars>>

\* Faulty: a path somebody has reserved can be reserved again.
ReserveReservedPath(c) ==
  /\ pc[c] = "path"
  /\ IF agent_tree[path[c]] \in {Absent, Pending}
     THEN agent_tree' = [agent_tree EXCEPT ![path[c]] = Pending] /\ Goto(c, "nickname")
     ELSE UNCHANGED agent_tree /\ Goto(c, "drop_count")
  /\ UNCHANGED <<total_count, nickVars, threadVars, localVars>>

ReserveAgentPath(c) ==
  /\ pc[c] = "path"
  /\ IF agent_tree[path[c]] = Absent
     THEN agent_tree' = [agent_tree EXCEPT ![path[c]] = Pending] /\ Goto(c, "nickname")
     ELSE UNCHANGED agent_tree /\ Goto(c, "drop_count")
  /\ UNCHANGED <<total_count, nickVars, threadVars, localVars>>

\* What a reservation that fails from here on gives back.
Drop(c) == IF path[c] = None THEN "drop_count" ELSE "drop_path"

\* Faulty: a name is offered again as soon as its thread is closed.
OfferedClosed(names) ==
  {<<n, nickname_reset_count>> : n \in names} \ {nickname_of[t] : t \in threads}

Offered(names) == {<<n, nickname_reset_count>> : n \in names} \ used_agent_nicknames

\* A free name of the list, or a name of the next generation once it is used
\* up.  A resumed thread asks for the name the database has for it, if it can
\* be read.
Preferred(c) == {None} \cup (IF thread[c] = None THEN {} ELSE {nickname_of[thread[c]]})
ReserveAgentNickname(c, names, preferred) ==
  /\ pc[c] = "nickname"
  /\ IF preferred = None /\ names = {}
     THEN Goto(c, Drop(c)) /\ UNCHANGED <<used_agent_nicknames, nickname_reset_count, nick>>
     ELSE /\ Goto(c, "create")
          /\ IF preferred # None
             THEN /\ nick' = [nick EXCEPT ![c] = preferred]
                  /\ used_agent_nicknames' = used_agent_nicknames \cup {preferred}
                  /\ UNCHANGED nickname_reset_count
             ELSE IF Offered(names) # {}
             THEN /\ \E name \in Offered(names) :
                       /\ nick' = [nick EXCEPT ![c] = name]
                       /\ used_agent_nicknames' = used_agent_nicknames \cup {name}
                  /\ UNCHANGED nickname_reset_count
             ELSE /\ nickname_reset_count' = nickname_reset_count + 1
                  /\ \E n \in names :
                       /\ nick' = [nick EXCEPT ![c] = <<n, nickname_reset_count + 1>>]
                       /\ used_agent_nicknames' = {<<n, nickname_reset_count + 1>>}
  /\ UNCHANGED <<registryVars, threadVars, localVars, nickname_of>>

-----------------------------------------------------------------------------
(* The thread, and commit                                                  *)

\* finalize_thread_spawn puts the new thread into the manager's map, or the one
\* it resumed over whatever has the same id.
CreateThread(c, t) ==
  /\ pc[c] = "create"
  /\ IF thread[c] = None THEN t \notin created ELSE t = thread[c]
  /\ threads' = threads \cup {t}
  /\ created' = created \cup {t}
  /\ thread' = [thread EXCEPT ![c] = t]
  /\ Goto(c, "commit")
  /\ UNCHANGED <<registryVars, nickVars, current, path>>

\* No rollout, an error of Codex::spawn, or the caller's future was dropped.
CreateFails(c) ==
  /\ pc[c] = "create"
  /\ Goto(c, Drop(c))
  /\ UNCHANGED <<registryVars, nickVars, threadVars, localVars>>

\* Faulty: the metadata is registered before it has its agent_id.
CommitWithoutId(c) ==
  /\ pc[c] = "commit"
  /\ agent_tree' = [agent_tree EXCEPT ![IF path[c] = None THEN thread[c] ELSE path[c]] = None]
  /\ Goto(c, "send")
  /\ UNCHANGED <<total_count, nickVars, threadVars, localVars>>

\* register_spawned_thread inserts, over whatever entry the key had.
Commit(c) ==
  /\ pc[c] = "commit"
  /\ agent_tree' = [agent_tree EXCEPT ![IF path[c] = None THEN thread[c] ELSE path[c]] = thread[c]]
  /\ used_agent_nicknames' = used_agent_nicknames \cup ({nick[c]} \ {None})
  /\ nickname_of' = [nickname_of EXCEPT ![thread[c]] = nick[c]]
  /\ Goto(c, IF c \in Resumer THEN "done" ELSE "send")
  /\ UNCHANGED <<total_count, nickname_reset_count, nick, threadVars, localVars>>

\* The first input of a spawned agent; an agent that died is given up.
SendInput(c) ==
  /\ pc[c] = "send"
  /\ \/ Goto(c, "done")
     \/ Goto(c, "remove")
  /\ UNCHANGED <<registryVars, nickVars, threadVars, localVars>>

-----------------------------------------------------------------------------
(* Drop of a reservation                                                   *)

\* Faulty: a failed spawn leaves its path reserved.
DropPathNot(c) ==
  /\ pc[c] = "drop_path"
  /\ Goto(c, "drop_count")
  /\ UNCHANGED <<registryVars, nickVars, threadVars, localVars>>

DropPath(c) ==
  /\ pc[c] = "drop_path"
  /\ agent_tree' = [agent_tree EXCEPT ![path[c]] = IF @ = Pending THEN Absent ELSE @]
  /\ Goto(c, "drop_count")
  /\ UNCHANGED <<total_count, nickVars, threadVars, localVars>>

\* Faulty: a failed spawn keeps its slot.
DropCountNot(c) ==
  /\ pc[c] = "drop_count"
  /\ Goto(c, "done")
  /\ UNCHANGED <<registryVars, nickVars, threadVars, localVars>>

DropCount(c) ==
  /\ pc[c] = "drop_count"
  /\ total_count' = total_count - 1
  /\ Goto(c, "done")
  /\ UNCHANGED <<agent_tree, nickVars, threadVars, localVars>>

-----------------------------------------------------------------------------
(* remove_thread and release_spawned_thread                                *)

RemoveThread(c) ==
  /\ pc[c] = "remove"
  /\ threads' = threads \ {thread[c]}
  /\ Goto(c, "release")
  /\ UNCHANGED <<registryVars, nickVars, created, localVars>>

\* Faulty: whatever entry is removed counts, the root's too.
ReleaseCountsRoot(c) ==
  /\ pc[c] = "release"
  /\ \/ \E k \in Key :
          /\ agent_tree[k] = thread[c]
          /\ agent_tree' = [agent_tree EXCEPT ![k] = Absent]
          /\ Goto(c, "decrement")
     \/ /\ \A k \in Key : agent_tree[k] # thread[c]
        /\ Goto(c, "done")
        /\ UNCHANGED agent_tree
  /\ UNCHANGED <<total_count, nickVars, threadVars, localVars>>

\* Whichever entry with the thread's id the map yields first is removed; the
\* root's does not count.
ReleaseSpawnedThread(c) ==
  /\ pc[c] = "release"
  /\ \/ \E k \in Key :
          /\ agent_tree[k] = thread[c]
          /\ agent_tree' = [agent_tree EXCEPT ![k] = Absent]
          /\ Goto(c, IF k = RootPath THEN "done" ELSE "decrement")
     \/ /\ \A k \in Key : agent_tree[k] # thread[c]
        /\ Goto(c, "done")
        /\ UNCHANGED agent_tree
  /\ UNCHANGED <<total_count, nickVars, threadVars, localVars>>

DecrementCount(c) ==
  /\ pc[c] = "decrement"
  /\ total_count' = total_count - 1
  /\ Goto(c, "done")
  /\ UNCHANGED <<agent_tree, nickVars, threadVars, localVars>>

-----------------------------------------------------------------------------
Start(c) ==
  \/ \E p \in Path \cup {None} : SpawnAgent(c, p)
  \/ \E t \in Thread : ResumeAgent(c, t)
  \/ \E t \in Thread : ShutdownAgent(c, t)

Advance(c) ==
  \/ LoadCount(c) \/ CompareExchange(c) \/ AddCount(c)
  \/ RegisterRootThread(c) \/ SkipPrepare(c) \/ ReserveAgentPath(c)
  \/ \E names \in Candidates, preferred \in Preferred(c) :
       ReserveAgentNickname(c, names, preferred)
  \/ \E t \in Thread : CreateThread(c, t)
  \/ CreateFails(c) \/ Commit(c) \/ SendInput(c) \/ DropPath(c) \/ DropCount(c)
  \/ RemoveThread(c) \/ ReleaseSpawnedThread(c) \/ DecrementCount(c)

\* register_session_root: the root's turn looked up or listed its agents.
RegisterSessionRoot ==
  /\ InsertRoot
  /\ UNCHANGED <<total_count, nickVars, threadVars, localVars, pc>>

Next == RegisterSessionRoot \/ \E c \in Call : Start(c) \/ Advance(c)

Spec == Init /\ [][Next]_vars

\* A call that was made is carried on; nobody has to make one.
FairSpec == Spec /\ \A c \in Call : WF_vars(Advance(c))

-----------------------------------------------------------------------------
(* Properties *)

Holders == {c \in Call : pc[c] \in HoldingSlot}
Counted == {k \in Key \ {RootPath} : agent_tree[k] \in Thread}

\* The counter covers every slot in use: the reservations in flight, the agents
\* registered and the slots about to be given back.  So no fetch_sub wraps below
\* zero, and a slot is never given back twice, by however many concurrent
\* shutdowns of one agent.
SlotsCovered == Cardinality(Holders) + Cardinality(Counted) <= total_count

\* The registry "limits ... Total number of sub-agents": agents registered and
\* spawns in flight together stay within agent_max_threads.
AgentsWithinLimit ==
  Limited => Cardinality(Holders) + Cardinality(Counted) <= MaxThreads

\* A reserved path has one owner, which will commit or release it, and nobody
\* takes or clears the entry meanwhile.
OwnsPath(c, p) == path[c] = p /\ pc[c] \in HoldingPath
PathOwned ==
  \A p \in Path :
    /\ agent_tree[p] = Pending <=> \E c \in Call : OwnsPath(c, p)
    /\ \A c, d \in Call : OwnsPath(c, p) /\ OwnsPath(d, p) => c = d

\* What a call has in hand at each place, and the limit itself; with these the
\* three properties above are preserved by every step.
LocalInv ==
  \A c \in Call :
    /\ pc[c] \in {"path", "drop_path"} => path[c] \in Path
    /\ pc[c] \in {"commit", "send", "remove", "release", "decrement"} => thread[c] \in Thread
    /\ pc[c] = "add" => ~Limited
LimitInv == Limited => total_count <= MaxThreads

IndInv == TypeOK /\ LocalInv /\ PathOwned /\ SlotsCovered /\ LimitInv

\* No two threads of the session ever have one nickname, across exhausted
\* lists, failed spawns and threads that were closed and resumed.
NicknamesDistinct ==
  \A t, u \in Thread :
    t # u /\ nickname_of[t] # None => nickname_of[t] # nickname_of[u]

\* A path does not stay reserved for good: its spawn registers the agent or
\* releases the path.
ReservedPathSettles == \A p \in Path : agent_tree[p] = Pending ~> agent_tree[p] # Pending

\* Once every call has returned each slot is some agent's: what was committed
\* holds a slot until it is released, and then the slot is free again.
Quiet == \A c \in Call : pc[c] \in {"idle", "done"}
SlotsReturned == Quiet => total_count = Cardinality(Counted)
=============================================================================
