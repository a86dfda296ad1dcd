--------------------------- MODULE ReadinessProofs ---------------------------
(***************************************************************************)
(* Safety of the readiness flag for any set of callers and any width of    *)
(* the token counter.                                                      *)
(***************************************************************************)
EXTENDS Readiness, TLAPS

\* The counter stays an i32, however far it has counted.
LEMMA WrapInRange == \A n \in Int : Wrap(n) \in TokenValue
<1>1. \A n \in Int : (n + HalfRing) % Ring \in 0..(Ring - 1)
  BY HalfRingAssumption DEF Ring
<1> QED
  BY <1>1, HalfRingAssumption DEF Wrap, TokenValue, Ring

\* A call that moves on keeps the types of the callers' state ...
LEMMA GotoType ==
  ASSUME TypeOK, NEW p \in Proc, NEW l \in Label, Goto(p, l)
  PROVE  pc' \in [Proc -> Label] /\ arg' \in [Proc -> TokenValue]
  BY DEF TypeOK, Goto

\* ... and so does one that returns.
LEMMA ReturnType ==
  ASSUME TypeOK, NEW p \in Proc, Return(p)
  PROVE  pc' \in [Proc -> Label] /\ arg' \in [Proc -> TokenValue]
  BY HalfRingAssumption DEF TypeOK, Return, Label, TokenValue

\* A new flag has the right types.
LEMMA TypeInit == Init => TypeOK
<1> SUFFICES ASSUME Init PROVE TypeOK
  OBVIOUS
<1>1. ready \in BOOLEAN /\ value \in BOOLEAN
  BY DEF Init
<1>2. next_id \in TokenValue /\ arg \in [Proc -> TokenValue]
  BY HalfRingAssumption DEF Init, TokenValue
<1>3. lock \in Proc \cup {None} /\ pc \in [Proc -> Label]
  BY DEF Init, Label
<1>4. version \in Nat /\ flips \in Nat /\ seen \in [Proc -> Nat \cup {-1}]
  BY DEF Init
<1>5. tokens \subseteq TokenValue /\ held \in [Proc -> SUBSET TokenValue]
  BY DEF Init
<1> QED
  BY <1>1, <1>2, <1>3, <1>4, <1>5 DEF TypeOK

\* Every step of every call keeps the types.
LEMMA TypeStep == TypeOK /\ [Next]_vars => TypeOK'
<1> SUFFICES ASSUME TypeOK, [Next]_vars PROVE TypeOK'
  OBVIOUS
<1> USE DEF flagVars, watchVars, histVars
<1>1. CASE UNCHANGED vars
  BY <1>1 DEF TypeOK, vars
<1>2. ASSUME NEW p \in Proc, Call(p) \/ Advance(p) \/ Cancel(p) PROVE TypeOK'
  <2>1. CASE IsReady(p)
    <3>1. pc' \in [Proc -> Label] /\ arg' \in [Proc -> TokenValue]
      BY <2>1, GotoType, ReturnType DEF IsReady, Label
    <3> QED
      BY <2>1, <3>1 DEF TypeOK, IsReady
  <2>2. CASE WaitReady(p)
    <3>1. pc' \in [Proc -> Label] /\ arg' \in [Proc -> TokenValue]
      BY <2>2, GotoType, ReturnType DEF WaitReady, Label
    <3> QED
      BY <2>2, <3>1 DEF TypeOK, WaitReady
  <2>3. CASE Subscribe(p)
    <3>1. pc' \in [Proc -> Label] /\ arg' \in [Proc -> TokenValue]
      BY <2>3, GotoType, ReturnType DEF Subscribe, Label
    <3> QED
      BY <2>3, <3>1 DEF TypeOK, Subscribe
  <2>4. CASE \E t \in Issued \cup {0} : MarkReady(p, t)
    <3>1. pc' \in [Proc -> Label] /\ arg' \in [Proc -> TokenValue]
      <4> PICK t \in Issued \cup {0} : MarkReady(p, t)
        BY <2>4
      <4>1. t \in TokenValue
        BY HalfRingAssumption DEF TypeOK, Issued, TokenValue
      <4>2. CASE ready \/ t = 0
        BY <4>2, ReturnType DEF MarkReady
      <4>3. CASE ~(ready \/ t = 0)
        BY <4>1, <4>3 DEF MarkReady, TypeOK, Label
      <4> QED
        BY <4>2, <4>3
    <3> QED
      BY <2>4, <3>1 DEF TypeOK, MarkReady
  <2>5. CASE TryLock(p, IsCall) \/ TryLock(p, WaitCall)
    <3>1. pc' \in [Proc -> Label] /\ arg' \in [Proc -> TokenValue]
      BY <2>5, GotoType, ReturnType DEF TryLock, IsCall, WaitCall, Label
    <3> QED
      BY <2>5, <3>1 DEF TypeOK, TryLock, IsCall, WaitCall
  <2>6. CASE Peek(p, IsCall) \/ Peek(p, WaitCall)
    <3>1. pc' \in [Proc -> Label] /\ arg' \in [Proc -> TokenValue]
      BY <2>6, GotoType, ReturnType DEF Peek, IsCall, WaitCall, Label
    <3> QED
      BY <2>6, <3>1 DEF TypeOK, Peek, IsCall, WaitCall
  <2>7. CASE Swap(p, IsCall) \/ Swap(p, WaitCall)
    <3>1. pc' \in [Proc -> Label] /\ arg' \in [Proc -> TokenValue]
      BY <2>7, GotoType, ReturnType DEF Swap, Flip, IsCall, WaitCall, Label
    <3> QED
      <4>1. ready' \in BOOLEAN /\ UNCHANGED <<next_id, tokens, value, version, seen, held>> /\ lock' = None
        BY <2>7 DEF Swap, Flip
      <4>2. flips' \in Nat
        BY <2>7 DEF Swap, Flip, TypeOK
      <4> QED
        BY <3>1, <4>1, <4>2 DEF TypeOK
  <2>8. CASE Send(p, "is_send") \/ Send(p, "wait_send") \/ Send(p, "mark_send")
    <3>1. pc' \in [Proc -> Label] /\ arg' \in [Proc -> TokenValue]
      BY <2>8, GotoType, ReturnType DEF Send, Broadcast, Label
    <3> QED
      <4>1. value' \in BOOLEAN /\ UNCHANGED <<ready, next_id, tokens, lock, seen, held, flips>>
        BY <2>8 DEF Send, Broadcast, TypeOK
      <4>2. version' \in Nat
        BY <2>8 DEF Send, Broadcast, TypeOK
      <4> QED
        BY <3>1, <4>1, <4>2 DEF TypeOK
  <2>9. CASE IsReload(p) \/ WaitReload(p)
    <3>1. pc' \in [Proc -> Label] /\ arg' \in [Proc -> TokenValue]
      BY <2>9, GotoType, ReturnType DEF IsReload, WaitReload, Label
    <3> QED
      BY <2>9, <3>1 DEF TypeOK, IsReload, WaitReload
  <2>10. CASE RxSubscribe(p)
    <3>1. pc' \in [Proc -> Label] /\ arg' \in [Proc -> TokenValue]
      BY <2>10, GotoType, ReturnType DEF RxSubscribe, Label
    <3> QED
      BY <2>10, <3>1 DEF TypeOK, RxSubscribe
  <2>11. CASE Borrow(p)
    <3>1. pc' \in [Proc -> Label] /\ arg' \in [Proc -> TokenValue]
      BY <2>11, GotoType, ReturnType DEF Borrow, Label
    <3> QED
      BY <2>11, <3>1 DEF TypeOK, Borrow
  <2>12. CASE Changed(p)
    <3>1. pc' \in [Proc -> Label] /\ arg' \in [Proc -> TokenValue]
      BY <2>12, GotoType, ReturnType DEF Changed, Label
    <3> QED
      BY <2>12, <3>1 DEF TypeOK, Changed
  <2>13. CASE WithTokens(p, "sub_lock", "sub_check") \/ WithTokens(p, "mark_lock", "mark_remove")
    <3>1. pc' \in [Proc -> Label] /\ arg' \in [Proc -> TokenValue]
      BY <2>13, GotoType, ReturnType DEF WithTokens, Label
    <3> QED
      BY <2>13, <3>1 DEF TypeOK, WithTokens
  <2>14. CASE SubscribeCheck(p)
    <3>1. pc' \in [Proc -> Label] /\ arg' \in [Proc -> TokenValue]
      BY <2>14, GotoType, ReturnType DEF SubscribeCheck, Label
    <3> QED
      BY <2>14, <3>1 DEF TypeOK, SubscribeCheck
  <2>15. CASE SubscribeInsert(p)
    <3>1. pc' \in [Proc -> Label] /\ arg' \in [Proc -> TokenValue]
      BY <2>15, GotoType, ReturnType DEF SubscribeInsert, Label
    <3> QED
      <4> PICK k \in 0..(Ring - 1) :
            /\ next_id' = Wrap(next_id + k + 1)
            /\ tokens' = tokens \cup {Wrap(next_id + k)}
            /\ held' = [held EXCEPT ![p] = @ \cup {Wrap(next_id + k)}]
        BY <2>15 DEF SubscribeInsert
      <4>1. next_id + k \in Int /\ next_id + k + 1 \in Int
        BY HalfRingAssumption DEF TypeOK, TokenValue, Ring
      <4>2. Wrap(next_id + k) \in TokenValue /\ Wrap(next_id + k + 1) \in TokenValue
        BY <4>1, WrapInRange
      <4> QED
        BY <2>15, <3>1, <4>2 DEF TypeOK, SubscribeInsert
  <2>16. CASE MarkRemove(p)
    <3>1. pc' \in [Proc -> Label] /\ arg' \in [Proc -> TokenValue]
      BY <2>16, GotoType, ReturnType DEF MarkRemove, Label
    <3> QED
      BY <2>16, <3>1 DEF TypeOK, MarkRemove
  <2>17. CASE MarkStore(p)
    <3>1. pc' \in [Proc -> Label] /\ arg' \in [Proc -> TokenValue]
      BY <2>17, GotoType, ReturnType DEF MarkStore, Flip, Label
    <3> QED
      BY <2>17, <3>1 DEF TypeOK, MarkStore, Flip
  <2>18. CASE MarkClear(p)
    <3>1. pc' \in [Proc -> Label] /\ arg' \in [Proc -> TokenValue]
      BY <2>18, GotoType, ReturnType DEF MarkClear, Label
    <3> QED
      BY <2>18, <3>1 DEF TypeOK, MarkClear
  <2>19. CASE LockTimeout(p)
    <3>1. pc' \in [Proc -> Label] /\ arg' \in [Proc -> TokenValue]
      BY <2>19, GotoType, ReturnType DEF LockTimeout, Label
    <3> QED
      BY <2>19, <3>1 DEF TypeOK, LockTimeout
  <2>20. CASE Cancel(p)
    <3>1. pc' \in [Proc -> Label] /\ arg' \in [Proc -> TokenValue]
      BY <2>20, GotoType, ReturnType DEF Cancel, Label
    <3> QED
      BY <2>20, <3>1 DEF TypeOK, Cancel
  <2> QED
    BY <1>2, <2>1, <2>2, <2>3, <2>4, <2>5, <2>6, <2>7, <2>8, <2>9, <2>10, <2>11, <2>12, <2>13, <2>14, <2>15, <2>16, <2>17, <2>18, <2>19, <2>20 DEF Call, Advance, IsCall, WaitCall
<1> QED
  BY <1>1, <1>2 DEF Next

\* The mutex has one holder, the call that is inside with_tokens or try_lock.
LEMMA MutexStep == IndInv /\ [Next]_vars => MutexInv'
<1> SUFFICES ASSUME IndInv, [Next]_vars PROVE MutexInv'
  OBVIOUS
<1> USE DEF flagVars, watchVars, histVars, Goto, Return
<1>1. CASE UNCHANGED vars
  BY <1>1 DEF MutexInv, vars, IndInv
<1>2. ASSUME NEW p \in Proc, Call(p) \/ Advance(p) \/ Cancel(p) PROVE MutexInv'
  <2>1. CASE IsReady(p)
    BY <2>1, NoneAssumption DEF IndInv, TypeOK, MutexInv, Holding, IsReady
  <2>2. CASE WaitReady(p)
    BY <2>2, NoneAssumption DEF IndInv, TypeOK, MutexInv, Holding, WaitReady
  <2>3. CASE Subscribe(p)
    BY <2>3, NoneAssumption DEF IndInv, TypeOK, MutexInv, Holding, Subscribe
  <2>4. CASE \E t \in Issued \cup {0} : MarkReady(p, t)
    BY <2>4, NoneAssumption DEF IndInv, TypeOK, MutexInv, Holding, MarkReady
  <2>5. CASE TryLock(p, IsCall) \/ TryLock(p, WaitCall)
    BY <2>5, NoneAssumption DEF IndInv, TypeOK, MutexInv, Holding, TryLock, IsCall, WaitCall
  <2>6. CASE Peek(p, IsCall) \/ Peek(p, WaitCall)
    BY <2>6, NoneAssumption DEF IndInv, TypeOK, MutexInv, Holding, Peek, IsCall, WaitCall
  <2>7. CASE Swap(p, IsCall) \/ Swap(p, WaitCall)
    BY <2>7, NoneAssumption DEF IndInv, TypeOK, MutexInv, Holding, Swap, Flip, IsCall, WaitCall
  <2>8. CASE Send(p, "is_send") \/ Send(p, "wait_send") \/ Send(p, "mark_send")
    BY <2>8, NoneAssumption DEF IndInv, TypeOK, MutexInv, Holding, Send, Broadcast
  <2>9. CASE IsReload(p) \/ WaitReload(p)
    BY <2>9, NoneAssumption DEF IndInv, TypeOK, MutexInv, Holding, IsReload, WaitReload
  <2>10. CASE RxSubscribe(p)
    BY <2>10, NoneAssumption DEF IndInv, TypeOK, MutexInv, Holding, RxSubscribe
  <2>11. CASE Borrow(p)
    BY <2>11, NoneAssumption DEF IndInv, TypeOK, MutexInv, Holding, Borrow
  <2>12. CASE Changed(p)
    BY <2>12, NoneAssumption DEF IndInv, TypeOK, MutexInv, Holding, Changed
  <2>13. CASE WithTokens(p, "sub_lock", "sub_check") \/ WithTokens(p, "mark_lock", "mark_remove")
    BY <2>13, NoneAssumption DEF IndInv, TypeOK, MutexInv, Holding, WithTokens
  <2>14. CASE SubscribeCheck(p)
    BY <2>14, NoneAssumption DEF IndInv, TypeOK, MutexInv, Holding, SubscribeCheck
  <2>15. CASE SubscribeInsert(p)
    BY <2>15, NoneAssumption DEF IndInv, TypeOK, MutexInv, Holding, SubscribeInsert
  <2>16. CASE MarkRemove(p)
    BY <2>16, NoneAssumption DEF IndInv, TypeOK, MutexInv, Holding, MarkRemove
  <2>17. CASE MarkStore(p)
    BY <2>17, NoneAssumption DEF IndInv, TypeOK, MutexInv, Holding, MarkStore, Flip
  <2>18. CASE MarkClear(p)
    BY <2>18, NoneAssumption DEF IndInv, TypeOK, MutexInv, Holding, MarkClear
  <2>19. CASE LockTimeout(p)
    BY <2>19, NoneAssumption DEF IndInv, TypeOK, MutexInv, Holding, LockTimeout
  <2>20. CASE Cancel(p)
    BY <2>20, NoneAssumption DEF IndInv, TypeOK, MutexInv, Holding, Cancel
  <2> QED
    BY <1>2, <2>1, <2>2, <2>3, <2>4, <2>5, <2>6, <2>7, <2>8, <2>9, <2>10, <2>11, <2>12, <2>13, <2>14, <2>15, <2>16, <2>17, <2>18, <2>19, <2>20 DEF Call, Advance, IsCall, WaitCall
<1> QED
  BY <1>1, <1>2 DEF Next

\* A flag that is ready has no tokens, or its mark_ready is about to clear them.
LEMMA FlipStep == IndInv /\ [Next]_vars => FlipInv'
<1> SUFFICES ASSUME IndInv, [Next]_vars PROVE FlipInv'
  OBVIOUS
<1> USE DEF flagVars, watchVars, histVars, Goto, Return
<1>1. CASE UNCHANGED vars
  BY <1>1 DEF FlipInv, vars, IndInv
<1>2. ASSUME NEW p \in Proc, Call(p) \/ Advance(p) \/ Cancel(p) PROVE FlipInv'
  <2>1. CASE IsReady(p)
    BY <2>1, NoneAssumption DEF IndInv, TypeOK, FlipInv, MutexInv, Holding, Sending, IsReady
  <2>2. CASE WaitReady(p)
    BY <2>2, NoneAssumption DEF IndInv, TypeOK, FlipInv, MutexInv, Holding, Sending, WaitReady
  <2>3. CASE Subscribe(p)
    BY <2>3, NoneAssumption DEF IndInv, TypeOK, FlipInv, MutexInv, Holding, Sending, Subscribe
  <2>4. CASE \E t \in Issued \cup {0} : MarkReady(p, t)
    BY <2>4, NoneAssumption DEF IndInv, TypeOK, FlipInv, MutexInv, Holding, Sending, MarkReady
  <2>5. CASE TryLock(p, IsCall) \/ TryLock(p, WaitCall)
    BY <2>5, NoneAssumption DEF IndInv, TypeOK, FlipInv, MutexInv, Holding, Sending, TryLock, IsCall, WaitCall
  <2>6. CASE Peek(p, IsCall) \/ Peek(p, WaitCall)
    BY <2>6, NoneAssumption DEF IndInv, TypeOK, FlipInv, MutexInv, Holding, Sending, Peek, IsCall, WaitCall
  <2>7. CASE Swap(p, IsCall) \/ Swap(p, WaitCall)
    BY <2>7, NoneAssumption DEF IndInv, TypeOK, FlipInv, MutexInv, Holding, Sending, Swap, Flip, IsCall, WaitCall
  <2>8. CASE Send(p, "is_send") \/ Send(p, "wait_send") \/ Send(p, "mark_send")
    BY <2>8, NoneAssumption DEF IndInv, TypeOK, FlipInv, MutexInv, Holding, Sending, Send, Broadcast
  <2>9. CASE IsReload(p) \/ WaitReload(p)
    BY <2>9, NoneAssumption DEF IndInv, TypeOK, FlipInv, MutexInv, Holding, Sending, IsReload, WaitReload
  <2>10. CASE RxSubscribe(p)
    BY <2>10, NoneAssumption DEF IndInv, TypeOK, FlipInv, MutexInv, Holding, Sending, RxSubscribe
  <2>11. CASE Borrow(p)
    BY <2>11, NoneAssumption DEF IndInv, TypeOK, FlipInv, MutexInv, Holding, Sending, Borrow
  <2>12. CASE Changed(p)
    BY <2>12, NoneAssumption DEF IndInv, TypeOK, FlipInv, MutexInv, Holding, Sending, Changed
  <2>13. CASE WithTokens(p, "sub_lock", "sub_check") \/ WithTokens(p, "mark_lock", "mark_remove")
    BY <2>13, NoneAssumption DEF IndInv, TypeOK, FlipInv, MutexInv, Holding, Sending, WithTokens
  <2>14. CASE SubscribeCheck(p)
    BY <2>14, NoneAssumption DEF IndInv, TypeOK, FlipInv, MutexInv, Holding, Sending, SubscribeCheck
  <2>15. CASE SubscribeInsert(p)
    BY <2>15, NoneAssumption DEF IndInv, TypeOK, FlipInv, MutexInv, Holding, Sending, SubscribeInsert
  <2>16. CASE MarkRemove(p)
    BY <2>16, NoneAssumption DEF IndInv, TypeOK, FlipInv, MutexInv, Holding, Sending, MarkRemove
  <2>17. CASE MarkStore(p)
    BY <2>17, NoneAssumption DEF IndInv, TypeOK, FlipInv, MutexInv, Holding, Sending, MarkStore, Flip
  <2>18. CASE MarkClear(p)
    BY <2>18, NoneAssumption DEF IndInv, TypeOK, FlipInv, MutexInv, Holding, Sending, MarkClear
  <2>19. CASE LockTimeout(p)
    BY <2>19, NoneAssumption DEF IndInv, TypeOK, FlipInv, MutexInv, Holding, Sending, LockTimeout
  <2>20. CASE Cancel(p)
    BY <2>20, NoneAssumption DEF IndInv, TypeOK, FlipInv, MutexInv, Holding, Sending, Cancel
  <2> QED
    BY <1>2, <2>1, <2>2, <2>3, <2>4, <2>5, <2>6, <2>7, <2>8, <2>9, <2>10, <2>11, <2>12, <2>13, <2>14, <2>15, <2>16, <2>17, <2>18, <2>19, <2>20 DEF Call, Advance, IsCall, WaitCall
<1> QED
  BY <1>1, <1>2 DEF Next

\* Tokens are non-zero, distinct, and registered until the flag flips.
LEMMA TokenStep == IndInv /\ [Next]_vars => TokenInv'
<1> SUFFICES ASSUME IndInv, [Next]_vars PROVE TokenInv'
  OBVIOUS
<1> USE DEF flagVars, watchVars, histVars, Goto, Return
<1>1. CASE UNCHANGED vars
  BY <1>1 DEF TokenInv, vars, IndInv, Issued
<1>2. ASSUME NEW p \in Proc, Call(p) \/ Advance(p) \/ Cancel(p) PROVE TokenInv'
  <2>1. CASE IsReady(p)
    BY <2>1, NoneAssumption DEF IndInv, TypeOK, TokenInv, MutexInv, FlipInv, Holding, Issued, IsReady
  <2>2. CASE WaitReady(p)
    BY <2>2, NoneAssumption DEF IndInv, TypeOK, TokenInv, MutexInv, FlipInv, Holding, Issued, WaitReady
  <2>3. CASE Subscribe(p)
    BY <2>3, NoneAssumption DEF IndInv, TypeOK, TokenInv, MutexInv, FlipInv, Holding, Issued, Subscribe
  <2>4. CASE \E t \in Issued \cup {0} : MarkReady(p, t)
    BY <2>4, NoneAssumption DEF IndInv, TypeOK, TokenInv, MutexInv, FlipInv, Holding, Issued, MarkReady
  <2>5. CASE TryLock(p, IsCall) \/ TryLock(p, WaitCall)
    BY <2>5, NoneAssumption DEF IndInv, TypeOK, TokenInv, MutexInv, FlipInv, Holding, Issued, TryLock, IsCall, WaitCall
  <2>6. CASE Peek(p, IsCall) \/ Peek(p, WaitCall)
    BY <2>6, NoneAssumption DEF IndInv, TypeOK, TokenInv, MutexInv, FlipInv, Holding, Issued, Peek, IsCall, WaitCall
  <2>7. CASE Swap(p, IsCall) \/ Swap(p, WaitCall)
    BY <2>7, NoneAssumption DEF IndInv, TypeOK, TokenInv, MutexInv, FlipInv, Holding, Issued, Swap, Flip, IsCall, WaitCall
  <2>8. CASE Send(p, "is_send") \/ Send(p, "wait_send") \/ Send(p, "mark_send")
    BY <2>8, NoneAssumption DEF IndInv, TypeOK, TokenInv, MutexInv, FlipInv, Holding, Issued, Send, Broadcast
  <2>9. CASE IsReload(p) \/ WaitReload(p)
    BY <2>9, NoneAssumption DEF IndInv, TypeOK, TokenInv, MutexInv, FlipInv, Holding, Issued, IsReload, WaitReload
  <2>10. CASE RxSubscribe(p)
    BY <2>10, NoneAssumption DEF IndInv, TypeOK, TokenInv, MutexInv, FlipInv, Holding, Issued, RxSubscribe
  <2>11. CASE Borrow(p)
    BY <2>11, NoneAssumption DEF IndInv, TypeOK, TokenInv, MutexInv, FlipInv, Holding, Issued, Borrow
  <2>12. CASE Changed(p)
    BY <2>12, NoneAssumption DEF IndInv, TypeOK, TokenInv, MutexInv, FlipInv, Holding, Issued, Changed
  <2>13. CASE WithTokens(p, "sub_lock", "sub_check") \/ WithTokens(p, "mark_lock", "mark_remove")
    BY <2>13, NoneAssumption DEF IndInv, TypeOK, TokenInv, MutexInv, FlipInv, Holding, Issued, WithTokens
  <2>14. CASE SubscribeCheck(p)
    BY <2>14, NoneAssumption DEF IndInv, TypeOK, TokenInv, MutexInv, FlipInv, Holding, Issued, SubscribeCheck
  <2>15. CASE SubscribeInsert(p)
    <3> PICK k \in 0..(Ring - 1) :
          /\ FirstFree(k)
          /\ tokens' = tokens \cup {Wrap(next_id + k)}
          /\ held' = [held EXCEPT ![p] = @ \cup {Wrap(next_id + k)}]
      BY <2>15 DEF SubscribeInsert
    <3> DEFINE t == Wrap(next_id + k)
    <3>1. t # 0 /\ t \notin tokens
      BY DEF FirstFree
    <3> HIDE DEF t
    <3>2. ~ready /\ \A q \in Proc : pc[q] # "mark_store"
      BY <2>15 DEF SubscribeInsert, IndInv, MutexInv, FlipInv, Holding
    <3>3. Issued = tokens
      BY <3>2 DEF IndInv, TokenInv
    <3>4. \A q \in Proc : t \notin held[q]
      BY <3>1, <3>3 DEF Issued
    <3>5. held' = [held EXCEPT ![p] = @ \cup {t}] /\ tokens' = tokens \cup {t}
      BY DEF t
    <3>6. Issued' = Issued \cup {t}
      BY <3>5 DEF Issued, IndInv, TypeOK
    <3>7. \A q, r \in Proc : q # r => held'[q] \cap held'[r] = {}
      BY <3>4, <3>5 DEF IndInv, TypeOK, TokenInv
    <3> QED
      BY <3>1, <3>3, <3>5, <3>6, <3>7 DEF IndInv, TokenInv
  <2>16. CASE MarkRemove(p)
    BY <2>16, NoneAssumption DEF IndInv, TypeOK, TokenInv, MutexInv, FlipInv, Holding, Issued, MarkRemove
  <2>17. CASE MarkStore(p)
    BY <2>17, NoneAssumption DEF IndInv, TypeOK, TokenInv, MutexInv, FlipInv, Holding, Issued, MarkStore, Flip
  <2>18. CASE MarkClear(p)
    BY <2>18, NoneAssumption DEF IndInv, TypeOK, TokenInv, MutexInv, FlipInv, Holding, Issued, MarkClear
  <2>19. CASE LockTimeout(p)
    BY <2>19, NoneAssumption DEF IndInv, TypeOK, TokenInv, MutexInv, FlipInv, Holding, Issued, LockTimeout
  <2>20. CASE Cancel(p)
    BY <2>20, NoneAssumption DEF IndInv, TypeOK, TokenInv, MutexInv, FlipInv, Holding, Issued, Cancel
  <2> QED
    BY <1>2, <2>1, <2>2, <2>3, <2>4, <2>5, <2>6, <2>7, <2>8, <2>9, <2>10, <2>11, <2>12, <2>13, <2>14, <2>15, <2>16, <2>17, <2>18, <2>19, <2>20 DEF Call, Advance, IsCall, WaitCall
<1> QED
  BY <1>1, <1>2 DEF Next

\* A new flag satisfies the invariant.
LEMMA IndInvInit == Init => IndInv
<1> SUFFICES ASSUME Init PROVE IndInv
  OBVIOUS
<1>1. TypeOK
  BY TypeInit
<1>2. MutexInv
  BY NoneAssumption DEF Init, MutexInv, Holding
<1>3. FlipInv
  BY DEF Init, FlipInv, Sending
<1>4. TokenInv
  BY DEF Init, TokenInv, Issued
<1> QED
  BY <1>1, <1>2, <1>3, <1>4 DEF IndInv

\* The invariant is inductive.
LEMMA IndInvStep == IndInv /\ [Next]_vars => IndInv'
  BY TypeStep, MutexStep, FlipStep, TokenStep DEF IndInv

\* It holds of every reachable state.
LEMMA Inductive == Spec => []IndInv
  BY IndInvInit, IndInvStep, PTL DEF Spec

-----------------------------------------------------------------------------
\* The types of all variables are kept by every call; in particular the token
\* counter stays within the width of next_id.
THEOREM TypeCorrect == Spec => []TypeOK
<1>1. IndInv => TypeOK
  BY DEF IndInv
<1> QED
  BY <1>1, Inductive, PTL

\* No interleaving of is_ready, subscribe, mark_ready and wait_ready calls
\* leaves a token subscribed once the flag is ready and the mutex is free.
THEOREM SubscriptionClosed == Spec => []ReadyClosesSubscription
<1>1. IndInv => ReadyClosesSubscription
  <2> SUFFICES ASSUME IndInv, ready, lock = None PROVE tokens = {}
    BY DEF ReadyClosesSubscription
  <2>1. \A p \in Proc : pc[p] # "mark_clear"
    BY NoneAssumption DEF IndInv, MutexInv, Holding
  <2> QED
    BY <2>1 DEF IndInv, FlipInv
<1> QED
  BY <1>1, Inductive, PTL

\* The flag is flipped at most once and at most one caller owes the broadcast,
\* however many mark_ready and is_ready calls race.
THEOREM FlippedOnce == Spec => []SingleFlip
<1>1. IndInv => SingleFlip
  BY DEF IndInv, FlipInv, SingleFlip
<1> QED
  BY <1>1, Inductive, PTL

\* Until the flag is ready, the tokens handed out by subscribe are exactly the
\* registered ones, none of them is 0, and no two callers share one.
THEOREM TokensValid == Spec => []TokensAuthorise
<1>1. IndInv => TokensAuthorise
  <2> SUFFICES ASSUME IndInv, ~ready, lock = None
               PROVE  /\ Issued = tokens
                      /\ 0 \notin tokens
                      /\ \A p, q \in Proc : p # q => held[p] \cap held[q] = {}
    BY DEF TokensAuthorise
  <2>1. \A p \in Proc : pc[p] # "mark_store"
    BY NoneAssumption DEF IndInv, MutexInv, Holding
  <2> QED
    BY <2>1 DEF IndInv, TokenInv
<1> QED
  BY <1>1, Inductive, PTL

\* "`true` is not reversible": no step clears the flag.
THEOREM ReadyNeverCleared == Spec => ReadyIsFinal
<1>1. IndInv /\ [Next]_vars => [ready => ready']_vars
  <2> SUFFICES ASSUME IndInv, ready, [Next]_vars PROVE ready'
    OBVIOUS
  <2>1. CASE UNCHANGED vars
    BY <2>1 DEF vars
  <2>2. ASSUME NEW p \in Proc, Call(p) \/ Advance(p) \/ Cancel(p) PROVE ready'
    BY <2>2 DEF Call, Advance, Cancel, IsReady, WaitReady, Subscribe, MarkReady, TryLock, Peek,
                Swap, Flip, Send, IsReload, WaitReload, RxSubscribe, Borrow, Changed, WithTokens,
                SubscribeCheck, SubscribeInsert, MarkRemove, MarkStore, MarkClear, LockTimeout,
                flagVars
  <2> QED
    BY <2>1, <2>2 DEF Next
<1> QED
  BY <1>1, Inductive, PTL DEF Spec, ReadyIsFinal

\* Whichever exit wait_ready takes, other than being cancelled, the flag is
\* ready when it returns.
THEOREM WaitIsSound == Spec => WaitReturnsOnlyReady
<1> DEFINE A == \A p \in Proc : (pc[p] \in Waiting /\ pc'[p] = "idle" /\ ~Cancel(p)) => ready'
<1>1. IndInv /\ [Next]_vars => [A]_vars
  <2> SUFFICES ASSUME IndInv, [Next]_vars, ~(UNCHANGED vars),
                      NEW q \in Proc, pc[q] \in Waiting, pc'[q] = "idle", ~Cancel(q)
               PROVE  ready'
    OBVIOUS
  <2> USE DEF flagVars, watchVars, histVars, Goto, Return, Waiting, IndInv, TypeOK, FlipInv
  <2>1. PICK p \in Proc : Call(p) \/ Advance(p) \/ Cancel(p)
    BY DEF Next
  <2>2. CASE Call(p)
    BY <2>2 DEF Call, IsReady, WaitReady, Subscribe, MarkReady
  <2>3. CASE Cancel(p)
    BY <2>3 DEF Cancel
  <2>4. CASE \E caller \in {IsCall, WaitCall} :
               TryLock(p, caller) \/ Peek(p, caller) \/ Swap(p, caller) \/ Send(p, caller.send)
    BY <2>4 DEF IsCall, WaitCall, TryLock, Peek, Swap, Flip, Send, Sending
  <2>5. CASE IsReload(p) \/ WaitReload(p) \/ RxSubscribe(p) \/ Borrow(p) \/ Changed(p)
    BY <2>5 DEF IsReload, WaitReload, RxSubscribe, Borrow, Changed
  <2>6. CASE WithTokens(p, "sub_lock", "sub_check") \/ SubscribeCheck(p) \/ SubscribeInsert(p)
    BY <2>6 DEF WithTokens, SubscribeCheck, SubscribeInsert
  <2>7. CASE \/ WithTokens(p, "mark_lock", "mark_remove") \/ MarkRemove(p) \/ MarkStore(p)
             \/ MarkClear(p) \/ Send(p, "mark_send") \/ LockTimeout(p)
    BY <2>7 DEF WithTokens, MarkRemove, MarkStore, MarkClear, Send, LockTimeout
  <2> QED
    BY <2>1, <2>2, <2>3, <2>4, <2>5, <2>6, <2>7 DEF Advance
<1> QED
  BY <1>1, Inductive, PTL DEF Spec, WaitReturnsOnlyReady
=============================================================================
