------------------------------ MODULE Readiness ------------------------------
(***************************************************************************)
(* utils/readiness: a one-shot readiness flag.  Callers subscribe to obtain *)
(* a token, one holder of a token marks the flag ready, and any number of  *)
(* callers wait for it.  The flag is an AtomicBool, the tokens are a set    *)
(* behind a tokio Mutex, and waiters are woken by a tokio watch channel.    *)
(*                                                                         *)
(* One step is one atomic access or one critical section; two calls of two *)
(* processes interleave everywhere else.                                   *)
(***************************************************************************)
EXTENDS Integers, FiniteSets

CONSTANTS
  Proc,      \* callers of the flag (tasks of the runtime)
  HalfRing,  \* half the number of values of the token counter: 2^31 in the code
  None       \* "the mutex is free"

ASSUME HalfRingAssumption == HalfRing \in Nat \ {0, 1}
ASSUME NoneAssumption     == None \notin Proc

Ring == 2 * HalfRing
TokenValue == (0 - HalfRing) .. (HalfRing - 1)

\* i32 wrap-around of AtomicI32::fetch_add.
Wrap(n) == ((n + HalfRing) % Ring) - HalfRing

VARIABLES
  ready,    \* ready: AtomicBool
  next_id,  \* next_id: AtomicI32
  tokens,   \* the set inside tokens: Mutex<HashSet<Token>>
  lock,     \* who holds that mutex
  value,    \* tx: the watch channel's value ...
  version,  \* ... its version, bumped by every send that stores a value ...
  seen,     \* ... and per receiver the version it saw last; -1: no receiver
  pc,       \* where each caller is
  arg,      \* the token a mark_ready call was given
  held,     \* history: the tokens subscribe handed to each caller
  flips     \* history: how often the flag went from not-ready to ready

flagVars == <<ready, next_id, tokens, lock>>
watchVars == <<value, version, seen>>
histVars == <<held, flips>>
vars == <<ready, next_id, tokens, lock, value, version, seen, pc, arg, held, flips>>

Label == {"idle",
          "is_try_lock", "is_peek", "is_swap", "is_reload", "is_send",   \* is_ready
          "wait_try_lock", "wait_peek", "wait_swap", "wait_reload",      \* wait_ready, first
          "wait_send",                                                   \*   as is_ready
          "wait_subscribe", "wait_borrow", "wait_changed",               \*   then on the channel
          "sub_lock", "sub_check", "sub_insert",                         \* subscribe
          "mark_lock", "mark_remove", "mark_store", "mark_clear",        \* mark_ready
          "mark_send"}

Waiting == {"wait_try_lock", "wait_peek", "wait_swap", "wait_reload", "wait_send",
            "wait_subscribe", "wait_borrow", "wait_changed"}

\* The labels inside a critical section of the tokens mutex.
Holding == {"is_peek", "is_swap", "wait_peek", "wait_swap", "sub_check", "sub_insert",
            "mark_remove", "mark_store", "mark_clear"}

\* The labels of a caller that flipped the flag and owes the broadcast.
Sending == {"is_send", "wait_send", "mark_send"}

TypeOK ==
  /\ ready \in BOOLEAN
  /\ next_id \in TokenValue
  /\ tokens \subseteq TokenValue
  /\ lock \in Proc \cup {None}
  /\ value \in BOOLEAN
  /\ version \in Nat
  /\ seen \in [Proc -> Nat \cup {-1}]
  /\ pc \in [Proc -> Label]
  /\ arg \in [Proc -> TokenValue]
  /\ held \in [Proc -> SUBSET TokenValue]
  /\ flips \in Nat

Init ==
  /\ ready = FALSE
  /\ next_id = 1
  /\ tokens = {}
  /\ lock = None
  /\ value = FALSE
  /\ version = 0
  /\ seen = [p \in Proc |-> -1]
  /\ pc = [p \in Proc |-> "idle"]
  /\ arg = [p \in Proc |-> 0]
  /\ held = [p \in Proc |-> {}]
  /\ flips = 0

-----------------------------------------------------------------------------
Goto(p, label) == pc' = [pc EXCEPT ![p] = label] /\ UNCHANGED arg

\* The call returns (or its future is dropped); its locals are gone.
Return(p) ==
  /\ pc' = [pc EXCEPT ![p] = "idle"]
  /\ arg' = [arg EXCEPT ![p] = 0]

\* tokio::sync::watch::Sender::send.  With no receiver the call fails and the
\* stored value stays what it was; otherwise every receiver sees a change.
Broadcast ==
  IF \E q \in Proc : seen[q] # -1
  THEN value' = TRUE /\ version' = version + 1 /\ UNCHANGED seen
  ELSE UNCHANGED watchVars

Flip ==
  /\ ready' = TRUE
  /\ flips' = IF ready THEN flips ELSE flips + 1

-----------------------------------------------------------------------------
(* is_ready, called for itself or as the first thing wait_ready does.       *)

IsReady(p) ==
  /\ pc[p] = "idle"
  /\ IF ready THEN Return(p) ELSE Goto(p, "is_try_lock")
  /\ UNCHANGED <<flagVars, watchVars, histVars>>

WaitReady(p) ==
  /\ pc[p] = "idle"
  /\ IF ready THEN Return(p) ELSE Goto(p, "wait_try_lock")
  /\ UNCHANGED <<flagVars, watchVars, histVars>>

TryLock(p, caller) ==
  /\ pc[p] = caller.try_lock
  /\ IF lock = None
     THEN lock' = p /\ Goto(p, caller.peek)
     ELSE UNCHANGED lock /\ Goto(p, caller.reload)
  /\ UNCHANGED <<ready, next_id, tokens, watchVars, histVars>>

\* A flag nobody has subscribed to becomes ready by being asked.
Peek(p, caller) ==
  /\ pc[p] = caller.peek
  /\ IF tokens = {}
     THEN UNCHANGED lock /\ Goto(p, caller.swap)
     ELSE lock' = None /\ Goto(p, caller.reload)
  /\ UNCHANGED <<ready, next_id, tokens, watchVars, histVars>>

\* Faulty: what the swap returned is not looked at.
SwapAlwaysSends(p, caller) ==
  /\ pc[p] = caller.swap
  /\ Flip
  /\ lock' = None
  /\ Goto(p, caller.send)
  /\ UNCHANGED <<next_id, tokens, watchVars, held>>

Swap(p, caller) ==
  /\ pc[p] = caller.swap
  /\ Flip
  /\ lock' = None
  /\ IF ready THEN Return(p) ELSE Goto(p, caller.send)
  /\ UNCHANGED <<next_id, tokens, watchVars, held>>

IsReload(p) ==
  /\ pc[p] = "is_reload"
  /\ Return(p)
  /\ UNCHANGED <<flagVars, watchVars, histVars>>

\* Faulty: a waiter that lost the race for the mutex takes the flag as ready.
WaitReloadAnyway(p) ==
  /\ pc[p] = "wait_reload"
  /\ Return(p)
  /\ UNCHANGED <<flagVars, watchVars, histVars>>

WaitReload(p) ==
  /\ pc[p] = "wait_reload"
  /\ IF ready THEN Return(p) ELSE Goto(p, "wait_subscribe")
  /\ UNCHANGED <<flagVars, watchVars, histVars>>

\* Faulty: the flag flips silently.
SendNothing(p, from) ==
  /\ pc[p] = from
  /\ Return(p)
  /\ UNCHANGED <<flagVars, watchVars, histVars>>

Send(p, from) ==
  /\ pc[p] = from
  /\ Broadcast
  /\ Return(p)
  /\ UNCHANGED <<flagVars, histVars>>

\* The two call sites of the shared steps.
IsCall == [try_lock |-> "is_try_lock", peek |-> "is_peek", swap |-> "is_swap",
           reload |-> "is_reload", send |-> "is_send"]
WaitCall == [try_lock |-> "wait_try_lock", peek |-> "wait_peek", swap |-> "wait_swap",
             reload |-> "wait_reload", send |-> "wait_send"]

-----------------------------------------------------------------------------
(* wait_ready after is_ready answered false.                               *)

RxSubscribe(p) ==
  /\ pc[p] = "wait_subscribe"
  /\ seen' = [seen EXCEPT ![p] = version]
  /\ Goto(p, "wait_borrow")
  /\ UNCHANGED <<flagVars, value, version, histVars>>

Borrow(p) ==
  /\ pc[p] = "wait_borrow"
  /\ IF value
     THEN Return(p) /\ seen' = [seen EXCEPT ![p] = -1]
     ELSE Goto(p, "wait_changed") /\ UNCHANGED seen
  /\ UNCHANGED <<flagVars, value, version, histVars>>

Changed(p) ==
  /\ pc[p] = "wait_changed"
  /\ version # seen[p]
  /\ IF value
     THEN Return(p) /\ seen' = [seen EXCEPT ![p] = -1]
     ELSE Goto(p, "wait_changed") /\ seen' = [seen EXCEPT ![p] = version]
  /\ UNCHANGED <<flagVars, value, version, histVars>>

-----------------------------------------------------------------------------
(* with_tokens: the mutex with its one-second timeout.                     *)

WithTokens(p, from, to) ==
  /\ pc[p] = from
  /\ lock = None
  /\ lock' = p
  /\ Goto(p, to)
  /\ UNCHANGED <<ready, next_id, tokens, watchVars, histVars>>

LockTimeout(p) ==
  /\ pc[p] \in {"sub_lock", "mark_lock"}
  /\ lock # None
  /\ Return(p)
  /\ UNCHANGED <<flagVars, watchVars, histVars>>

-----------------------------------------------------------------------------
(* subscribe                                                               *)

Subscribe(p) ==
  /\ pc[p] = "idle"
  /\ IF ready THEN Return(p) ELSE Goto(p, "sub_lock")
  /\ UNCHANGED <<flagVars, watchVars, histVars>>

\* The k-th value the counter hands out from now on is the first one that is
\* non-zero and not subscribed.  Without one the code's loop never ends.
FirstFree(k) ==
  LET Free(j) == Wrap(next_id + j) # 0 /\ Wrap(next_id + j) \notin tokens
  IN  Free(k) /\ \A j \in 0..(k - 1) : ~Free(j)

\* Faulty: the flag is not looked at again under the mutex.
SubscribeUnchecked(p) ==
  /\ pc[p] = "sub_check"
  /\ Goto(p, "sub_insert")
  /\ UNCHANGED <<flagVars, watchVars, histVars>>

\* Faulty: a subscription to a flag that is ready re-arms it.
SubscribeRearms(p) ==
  /\ pc[p] = "sub_check"
  /\ ready' = FALSE
  /\ Goto(p, "sub_insert")
  /\ UNCHANGED <<next_id, tokens, lock, watchVars, histVars>>

SubscribeCheck(p) ==
  /\ pc[p] = "sub_check"
  /\ IF ready
     THEN lock' = None /\ Return(p)
     ELSE UNCHANGED lock /\ Goto(p, "sub_insert")
  /\ UNCHANGED <<ready, next_id, tokens, watchVars, histVars>>

\* Faulty: the counter does not wrap.
SubscribeOverflows(p) ==
  /\ pc[p] = "sub_insert"
  /\ next_id' = next_id + 1
  /\ tokens' = tokens \cup {next_id}
  /\ held' = [held EXCEPT ![p] = @ \cup {next_id}]
  /\ lock' = None
  /\ Return(p)
  /\ UNCHANGED <<ready, watchVars, flips>>

\* Faulty: whatever the counter says is taken, zero and taken values too.
SubscribeTakesAny(p) ==
  /\ pc[p] = "sub_insert"
  /\ next_id' = Wrap(next_id + 1)
  /\ tokens' = tokens \cup {next_id}
  /\ held' = [held EXCEPT ![p] = @ \cup {next_id}]
  /\ lock' = None
  /\ Return(p)
  /\ UNCHANGED <<ready, watchVars, flips>>

SubscribeInsert(p) ==
  /\ pc[p] = "sub_insert"
  /\ \E k \in 0..(Ring - 1) :
       /\ FirstFree(k)
       /\ next_id' = Wrap(next_id + k + 1)
       /\ tokens' = tokens \cup {Wrap(next_id + k)}
       /\ held' = [held EXCEPT ![p] = @ \cup {Wrap(next_id + k)}]
  /\ lock' = None
  /\ Return(p)
  /\ UNCHANGED <<ready, watchVars, flips>>

-----------------------------------------------------------------------------
(* mark_ready, with any token some call of subscribe returned, or with 0.  *)

Issued == UNION {held[q] : q \in Proc}

MarkReady(p, t) ==
  /\ pc[p] = "idle"
  /\ IF ready \/ t = 0
     THEN Return(p)
     ELSE pc' = [pc EXCEPT ![p] = "mark_lock"] /\ arg' = [arg EXCEPT ![p] = t]
  /\ UNCHANGED <<flagVars, watchVars, histVars>>

MarkRemove(p) ==
  /\ pc[p] = "mark_remove"
  /\ tokens' = tokens \ {arg[p]}
  /\ IF arg[p] \in tokens
     THEN UNCHANGED lock /\ Goto(p, "mark_store")
     ELSE lock' = None /\ Return(p)
  /\ UNCHANGED <<ready, next_id, watchVars, histVars>>

MarkStore(p) ==
  /\ pc[p] = "mark_store"
  /\ Flip
  /\ Goto(p, "mark_clear")
  /\ UNCHANGED <<next_id, tokens, lock, watchVars, held>>

MarkClear(p) ==
  /\ pc[p] = "mark_clear"
  /\ tokens' = {}
  /\ lock' = None
  /\ Goto(p, "mark_send")
  /\ UNCHANGED <<ready, next_id, watchVars, histVars>>

-----------------------------------------------------------------------------
\* Dropping the future of a call at one of its await points (the caller's
\* task was aborted); dropping a waiter drops its receiver.
Cancel(p) ==
  /\ pc[p] \in {"sub_lock", "mark_lock", "wait_changed"}
  /\ Return(p)
  /\ seen' = [seen EXCEPT ![p] = -1]
  /\ UNCHANGED <<flagVars, value, version, histVars>>

\* The steps that carry a call forward once it has been made.
Advance(p) ==
  \/ \E caller \in {IsCall, WaitCall} :
       TryLock(p, caller) \/ Peek(p, caller) \/ Swap(p, caller) \/ Send(p, caller.send)
  \/ IsReload(p) \/ WaitReload(p) \/ RxSubscribe(p) \/ Borrow(p) \/ Changed(p)
  \/ WithTokens(p, "sub_lock", "sub_check") \/ SubscribeCheck(p) \/ SubscribeInsert(p)
  \/ WithTokens(p, "mark_lock", "mark_remove") \/ MarkRemove(p) \/ MarkStore(p)
  \/ MarkClear(p) \/ Send(p, "mark_send")
  \/ LockTimeout(p)

Call(p) ==
  \/ IsReady(p)
  \/ WaitReady(p)
  \/ Subscribe(p)
  \/ \E t \in Issued \cup {0} : MarkReady(p, t)

Next == \E p \in Proc : Call(p) \/ Advance(p) \/ Cancel(p)

Spec == Init /\ [][Next]_vars

\* The runtime keeps polling a task that can make progress; nothing obliges
\* anybody to make a call, and nothing obliges a call to be cancelled.
FairSpec == Spec /\ \A p \in Proc : WF_vars(Advance(p))

-----------------------------------------------------------------------------
(* Properties *)

\* Once the flag is ready no token is subscribed: subscribe re-checks the flag
\* under the mutex and mark_ready clears the set before it unlocks, so a late
\* subscriber cannot be left holding a token that will never be asked for.
ReadyClosesSubscription == (ready /\ lock = None) => tokens = {}

\* The flag flips once, whoever flips it, and one broadcast is owed at most:
\* two racing mark_ready calls, or a mark_ready racing an is_ready that finds
\* no token, never both succeed.
SingleFlip ==
  /\ flips <= 1
  /\ \A p, q \in Proc : (pc[p] \in Sending /\ pc[q] \in Sending) => p = q

\* While the flag is not ready and nobody is inside the mutex, every token
\* subscribe handed out still authorises exactly its holder: it is registered,
\* non-zero, and nobody else's.
TokensAuthorise ==
  (~ready /\ lock = None) =>
    /\ Issued = tokens
    /\ 0 \notin tokens
    /\ \A p, q \in Proc : p # q => held[p] \cap held[q] = {}

\* What the mutex protects, stated so that every step preserves it: it implies
\* the three invariants above.
MutexInv == \A p \in Proc : pc[p] \in Holding <=> lock = p

FlipInv ==
  /\ ready => (tokens = {} \/ \E p \in Proc : pc[p] = "mark_clear")
  /\ \A p \in Proc : pc[p] \in {"is_swap", "wait_swap"} => tokens = {}
  /\ \A p \in Proc : pc[p] \in {"sub_insert", "mark_store"} => ~ready
  /\ \A p \in Proc : pc[p] \in Sending \cup {"mark_clear"} => ready
  /\ \A p, q \in Proc :
       (pc[p] \in Sending \cup {"mark_clear"} /\ pc[q] \in Sending \cup {"mark_clear"}) => p = q
  /\ flips = (IF ready THEN 1 ELSE 0)
  /\ value => ready

TokenInv ==
  /\ 0 \notin tokens
  /\ \A p, q \in Proc : p # q => held[p] \cap held[q] = {}
  /\ (~ready /\ \A p \in Proc : pc[p] # "mark_store") => Issued = tokens

IndInv == TypeOK /\ MutexInv /\ FlipInv /\ TokenInv

\* "`true` is not reversible": no step of any call clears the flag.
ReadyIsFinal == [][ready => ready']_vars

\* wait_ready returns to its caller only once the flag is ready, whichever of
\* its four exits it takes.
WaitReturnsOnlyReady ==
  [][\A p \in Proc : (pc[p] \in Waiting /\ pc'[p] = "idle" /\ ~Cancel(p)) => ready']_vars

\* A waiter parked on its receiver when the flag's broadcast is due is woken:
\* the broadcast of mark_ready or is_ready reaches it and wait_ready returns.
ParkedWaiterWakes ==
  \A p \in Proc :
    (/\ pc[p] = "wait_changed"
     /\ \E q \in Proc : pc[q] \in Sending)
      ~> pc[p] # "wait_changed"

\* "Asynchronously wait until the flag becomes ready": a call of wait_ready on
\* a flag that is ready, or becomes ready, returns.
WaitReadyReturns == \A p \in Proc : (pc[p] \in Waiting /\ ready) ~> pc[p] \notin Waiting
=============================================================================
