----------------------------- MODULE TaskProofs -----------------------------
(***************************************************************************)
(* async_mutex, async_scope, shared_task, sync_wait of when_all and the    *)
(* generators: for any number of coroutines, pieces of work, tasks, values *)
(* and generators, what the run of MCTasks checks for a few.  Each part    *)
(* states an inductive invariant, shows that it holds initially and is     *)
(* kept by each action, and what follows from it.                          *)
(***************************************************************************)
EXTENDS MCTasks, ListProofs

-----------------------------------------------------------------------------
(* async_mutex.  The argument has three parts: what the operations do to   *)
(* the sequence Waiting (the two lists read as one queue), that the        *)
(* conjunction MutexInv of the invariants is inductive, and that every step is *)
(* a step of FifoLock or a stutter.                                        *)

MutexInv ==
  /\ TypeOK /\ MutualExclusion /\ WaitersAreTheSuspended
  /\ CollectFindsWaiter /\ ResumeNesting
-----------------------------------------------------------------------------
(* What the operations do to the queue Waiting.                            *)

LEMMA WaitingType ==
  ASSUME TypeOK
  PROVE  Waiting \in Seq(Coroutines)
  BY ReverseType DEF TypeOK, Waiting

(* await_suspend() puts the coroutine behind everybody who waits.          *)
LEMMA QueueingAppends ==
  ASSUME TypeOK, NEW c \in Coroutines, SuspendQueues(c)
  PROVE  Waiting' = Append(Waiting, c)
  <1>1. Reverse(newWaiters') = Append(Reverse(newWaiters), c)
    BY ReverseCons DEF SuspendQueues, TypeOK
  <1>2. Reverse(newWaiters) \in Seq(Coroutines) /\ m_waiters \in Seq(Coroutines)
    BY ReverseType DEF TypeOK
  <1>3. m_waiters \o Append(Reverse(newWaiters), c)
          = Append(m_waiters \o Reverse(newWaiters), c)
    BY <1>2
  <1>4. QED BY <1>1, <1>3 DEF Waiting, SuspendQueues

(* unlock() resumes the head of the queue and keeps the tail, whether the  *)
(* head was in m_waiters or still on the stack.                            *)
LEMMA HandOverTakesHead ==
  ASSUME TypeOK, CollectFindsWaiter, NEW c \in Coroutines,
         UnlockCollects(c) \/ UnlockHandsOver(c)
  PROVE  /\ Waiting # << >>
         /\ Waiting' = Tail(Waiting)
         /\ pc' = [pc EXCEPT ![c] = "resuming", ![Head(Waiting)] = "owner"]
         /\ caller' = [caller EXCEPT ![Head(Waiting)] = c]
  <1>1. CASE UnlockCollects(c)
    <2>1. m_waiters = << >> /\ newWaiters # << >>
      BY <1>1 DEF UnlockCollects, CollectFindsWaiter
    <2>2. Reverse(newWaiters) \in Seq(Coroutines) /\ Reverse(newWaiters) # << >>
      BY <2>1, ReverseType DEF TypeOK
    <2>3. Waiting = Reverse(newWaiters)
      BY <2>1, <2>2 DEF Waiting
    <2>4. Reverse(newWaiters') = << >>
      BY <1>1 DEF UnlockCollects, Reverse
    <2>5. Waiting' = Tail(Waiting)
      BY <1>1, <2>2, <2>3, <2>4 DEF UnlockCollects, ResumeNext, Waiting
    <2>6. QED BY <1>1, <2>2, <2>3, <2>5 DEF UnlockCollects, ResumeNext
  <1>2. CASE UnlockHandsOver(c)
    <2>1. Reverse(newWaiters) \in Seq(Coroutines) /\ m_waiters \in Seq(Coroutines)
      BY ReverseType DEF TypeOK
    <2>2. m_waiters # << >> /\ m_waiters' = Tail(m_waiters) /\ newWaiters' = newWaiters
      BY <1>2 DEF UnlockHandsOver, ResumeNext
    <2>3. /\ m_waiters \o Reverse(newWaiters) # << >>
          /\ Head(m_waiters \o Reverse(newWaiters)) = Head(m_waiters)
          /\ Tail(m_waiters \o Reverse(newWaiters)) = Tail(m_waiters) \o Reverse(newWaiters)
      BY <2>1, <2>2
    <2>4. QED BY <1>2, <2>2, <2>3 DEF UnlockHandsOver, ResumeNext, Waiting
  <1>3. QED BY <1>1, <1>2

(* The word seen by a compare-exchange tells whether the mutex is locked.  *)
LEMMA StateWordTells ==
  ASSUME TypeOK
  PROVE  /\ StateWord = NotLocked <=> ~locked
         /\ StateWord = LockedNoWaiters <=> locked /\ newWaiters = << >>
         /\ StateWord \in Coroutines \cup {NotLocked, LockedNoWaiters}
  BY ConstantsAssumption DEF TypeOK, StateWord
-----------------------------------------------------------------------------
(* MutexInv is inductive: one lemma per group of operations.                   *)

LEMMA InitMutexInv == Init => MutexInv
  <1> SUFFICES ASSUME Init PROVE MutexInv
    OBVIOUS
  <1>1. Waiting = << >>
    BY DEF Init, Waiting, Reverse
  <1>2. ToSet(Waiting) = {} /\ IsInjective(Waiting)
    BY <1>1 DEF ToSet, IsInjective
  <1>3. WaitersAreTheSuspended
    BY <1>1, <1>2 DEF WaitersAreTheSuspended, Init
  <1>4. TypeOK
    <2>1. << >> \in Seq(Coroutines)
      OBVIOUS
    <2>2. newWaiters \in Seq(Coroutines) /\ m_waiters \in Seq(Coroutines)
      BY <2>1 DEF Init
    <2>3. QED BY <2>2 DEF Init, TypeOK
  <1>5. MutualExclusion
    BY DEF Init, MutualExclusion, Owners
  <1>6. CollectFindsWaiter /\ ResumeNesting
    BY DEF Init, CollectFindsWaiter, ResumeNesting
  <1>7. QED BY <1>3, <1>4, <1>5, <1>6 DEF MutexInv

(* try_lock() and the acquiring branch of await_suspend().                 *)
LEMMA AcquirePreserves ==
  ASSUME MutexInv, NEW c \in Coroutines, TryLock(c) \/ SuspendAcquires(c)
  PROVE  MutexInv'
  <1> USE DEF MutexInv
  <1>1. ~locked /\ locked' /\ pc[c] \in {"running", "suspending"}
        /\ pc' = [pc EXCEPT ![c] = "owner"]
        /\ UNCHANGED <<newWaiters, m_waiters, oldState, caller>>
    BY StateWordTells DEF TryLock, SuspendAcquires
  <1>2. TypeOK'
    BY <1>1 DEF TypeOK
  <1>3. Owners = {} /\ Owners' = {c}
    BY <1>1 DEF MutualExclusion, Owners, TypeOK
  <1>4. MutualExclusion'
    BY <1>1, <1>3 DEF MutualExclusion
  <1>5. Waiting' = Waiting
    BY <1>1 DEF Waiting
  <1>6. {d \in Coroutines : pc[d] = "queued"}' = {d \in Coroutines : pc[d] = "queued"}
    BY <1>1 DEF TypeOK
  <1>7. WaitersAreTheSuspended'
    BY <1>1, <1>5, <1>6 DEF WaitersAreTheSuspended
  <1>8. CollectFindsWaiter'
    BY <1>1 DEF CollectFindsWaiter, TypeOK
  <1>9. ResumeNesting'
    BY <1>1 DEF ResumeNesting, TypeOK
  <1>10. QED BY <1>2, <1>4, <1>7, <1>8, <1>9

(* The load in await_suspend() and its reload after a failed exchange.     *)
LEMMA LoadPreserves ==
  ASSUME MutexInv, NEW c \in Coroutines, LockAsync(c) \/ SuspendRetries(c)
  PROVE  MutexInv'
  <1> USE DEF MutexInv
  <1>1. /\ pc[c] \in {"running", "suspending"}
        /\ pc' = [pc EXCEPT ![c] = "suspending"]
        /\ oldState' = [oldState EXCEPT ![c] = StateWord]
        /\ UNCHANGED <<locked, newWaiters, m_waiters, caller>>
    BY DEF LockAsync, SuspendRetries, TypeOK
  <1>2. TypeOK'
    BY <1>1, StateWordTells DEF TypeOK
  <1>3. Owners' = Owners
    BY <1>1 DEF Owners, TypeOK
  <1>4. MutualExclusion'
    BY <1>1, <1>3 DEF MutualExclusion
  <1>5. Waiting' = Waiting
    BY <1>1 DEF Waiting
  <1>6. {d \in Coroutines : pc[d] = "queued"}' = {d \in Coroutines : pc[d] = "queued"}
    BY <1>1 DEF TypeOK
  <1>7. WaitersAreTheSuspended'
    BY <1>1, <1>5, <1>6 DEF WaitersAreTheSuspended
  <1>8. CollectFindsWaiter'
    BY <1>1 DEF CollectFindsWaiter, TypeOK
  <1>9. ResumeNesting'
    BY <1>1 DEF ResumeNesting, TypeOK
  <1>10. QED BY <1>2, <1>4, <1>7, <1>8, <1>9

(* The queueing branch of await_suspend().                                 *)
LEMMA QueuePreserves ==
  ASSUME MutexInv, NEW c \in Coroutines, SuspendQueues(c)
  PROVE  MutexInv' /\ Owners' = Owners /\ locked
  <1> USE DEF MutexInv
  <1>1. /\ locked /\ locked' = locked /\ m_waiters' = m_waiters
        /\ pc[c] = "suspending" /\ oldState' = oldState
        /\ newWaiters' = Cons(c, newWaiters)
        /\ pc' = [d \in Coroutines |-> IF d = c THEN "queued"
                                       ELSE IF d = caller[c] THEN "running" ELSE pc[d]]
        /\ caller' = [caller EXCEPT ![c] = NoCaller]
    BY StateWordTells DEF SuspendQueues, ReturnToCaller
  <1>2. newWaiters' \in Seq(Coroutines) /\ newWaiters' # << >>
    BY <1>1 DEF TypeOK, Cons
  <1>3. TypeOK'
    BY <1>1, <1>2 DEF TypeOK
  <1>4. \A d \in Coroutines : d = caller[c] => pc[d] = "resuming"
    BY ConstantsAssumption DEF ResumeNesting
  <1>5. Owners' = Owners
    BY <1>1, <1>4 DEF Owners, TypeOK
  <1>6. MutualExclusion'
    BY <1>1, <1>5 DEF MutualExclusion
  <1>7. WaitersAreTheSuspended'
    <2>1. c \notin ToSet(Waiting)
      BY <1>1 DEF WaitersAreTheSuspended
    <2>2. IsInjective(Append(Waiting, c)) /\ ToSet(Append(Waiting, c)) = ToSet(Waiting) \cup {c}
      BY <2>1, AppendDistinct, WaitingType DEF WaitersAreTheSuspended
    <2>3. {d \in Coroutines : pc[d] = "queued"}'
            = {d \in Coroutines : pc[d] = "queued"} \cup {c}
      BY <1>1, <1>4
    <2>4. QED BY <1>1, <2>2, <2>3, QueueingAppends DEF WaitersAreTheSuspended
  <1>8. CollectFindsWaiter'
    BY <1>1, <1>2, <1>4 DEF CollectFindsWaiter
  <1>9. ResumeNesting'
    <2>1. \A d \in Coroutines : caller'[d] # NoCaller =>
            d # c /\ caller'[d] = caller[d] /\ caller[d] # caller[c]
      BY <1>1 DEF ResumeNesting, TypeOK
    <2>2. \A d \in Coroutines : caller'[d] # NoCaller =>
            pc'[caller'[d]] = "resuming" /\ pc'[d] # "queued"
      BY <1>1, <2>1 DEF ResumeNesting, TypeOK
    <2>3. \A d \in Coroutines : pc'[d] = "resuming" => \E b \in Coroutines : caller'[b] = d
      <3> SUFFICES ASSUME NEW d \in Coroutines, pc'[d] = "resuming"
                   PROVE  \E b \in Coroutines : caller'[b] = d
        OBVIOUS
      <3>1. pc[d] = "resuming" /\ d # caller[c]
        BY <1>1
      <3>2. PICK b \in Coroutines : caller[b] = d
        BY <3>1 DEF ResumeNesting
      <3>3. b # c /\ caller'[b] = d
        BY <1>1, <3>1, <3>2 DEF TypeOK
      <3>4. QED BY <3>3
    <2>4. \A a, b \in Coroutines : caller'[a] = caller'[b] /\ caller'[a] # NoCaller => a = b
      BY <2>1 DEF ResumeNesting
    <2>5. QED BY <2>2, <2>3, <2>4 DEF ResumeNesting
  <1>10. QED BY <1>1, <1>3, <1>5, <1>6, <1>7, <1>8, <1>9

(* The releasing compare-exchange of unlock().                             *)
LEMMA ReleasePreserves ==
  ASSUME MutexInv, NEW c \in Coroutines, UnlockReleases(c)
  PROVE  MutexInv' /\ Owners = {c} /\ Owners' = {} /\ Waiting = << >> /\ Waiting' = << >>
  <1> USE DEF MutexInv
  <1>1. /\ locked /\ newWaiters = << >> /\ m_waiters = << >> /\ pc[c] = "owner"
        /\ locked' = FALSE /\ pc' = [pc EXCEPT ![c] = "running"]
        /\ UNCHANGED <<newWaiters, m_waiters, oldState, caller>>
    BY StateWordTells DEF UnlockReleases
  <1>2. TypeOK'
    BY <1>1 DEF TypeOK
  <1>3. Owners = {c} /\ Owners' = {}
    BY <1>1 DEF MutualExclusion, Owners, TypeOK
  <1>4. MutualExclusion'
    BY <1>1, <1>3 DEF MutualExclusion
  <1>5. Waiting = << >> /\ Waiting' = << >>
    BY <1>1 DEF Waiting, Reverse
  <1>6. {d \in Coroutines : pc[d] = "queued"}' = {d \in Coroutines : pc[d] = "queued"}
    BY <1>1 DEF TypeOK
  <1>7. WaitersAreTheSuspended'
    BY <1>5, <1>6 DEF WaitersAreTheSuspended, IsInjective
  <1>8. CollectFindsWaiter'
    BY <1>1 DEF CollectFindsWaiter, TypeOK
  <1>9. ResumeNesting'
    BY <1>1 DEF ResumeNesting, TypeOK
  <1>10. QED BY <1>2, <1>3, <1>4, <1>5, <1>7, <1>8, <1>9

(* The failed compare-exchange of unlock(): the owner's presence keeps the *)
(* mutex locked, so the word it saw can only be a waiter.                  *)
LEMMA FindsNewWaitersPreserves ==
  ASSUME MutexInv, NEW c \in Coroutines, UnlockFindsNewWaiters(c)
  PROVE  MutexInv' /\ Owners' = Owners /\ Waiting' = Waiting
  <1> USE DEF MutexInv
  <1>1. /\ pc[c] = "owner" /\ pc' = [pc EXCEPT ![c] = "collecting"] /\ m_waiters = << >>
        /\ UNCHANGED <<locked, newWaiters, m_waiters, oldState, caller>>
    BY DEF UnlockFindsNewWaiters
  <1>2. locked
    BY <1>1 DEF MutualExclusion, Owners
  <1>3. newWaiters # << >>
    BY <1>2, StateWordTells DEF UnlockFindsNewWaiters
  <1>4. TypeOK'
    BY <1>1 DEF TypeOK
  <1>5. Owners' = Owners
    BY <1>1 DEF Owners, TypeOK
  <1>6. MutualExclusion'
    BY <1>1, <1>5 DEF MutualExclusion
  <1>7. Waiting' = Waiting
    BY <1>1 DEF Waiting
  <1>8. {d \in Coroutines : pc[d] = "queued"}' = {d \in Coroutines : pc[d] = "queued"}
    BY <1>1 DEF TypeOK
  <1>9. WaitersAreTheSuspended'
    BY <1>1, <1>7, <1>8 DEF WaitersAreTheSuspended
  <1>10. CollectFindsWaiter'
    BY <1>1, <1>3 DEF CollectFindsWaiter
  <1>11. ResumeNesting'
    BY <1>1 DEF ResumeNesting, TypeOK
  <1>12. QED BY <1>4, <1>5, <1>6, <1>7, <1>9, <1>10, <1>11

(* The two ways unlock() passes the lock on.                               *)
LEMMA HandOverPreserves ==
  ASSUME MutexInv, NEW c \in Coroutines, UnlockCollects(c) \/ UnlockHandsOver(c)
  PROVE  MutexInv' /\ Owners = {c} /\ Owners' = {Head(Waiting)}
  <1> USE DEF MutexInv
  <1> DEFINE w == Head(Waiting)
  <1>1. /\ pc[c] \in {"owner", "collecting"}
        /\ locked' = locked /\ oldState' = oldState
    BY DEF UnlockCollects, UnlockHandsOver
  <1>2. /\ Waiting \in Seq(Coroutines) /\ Waiting # << >>
        /\ Waiting' = Tail(Waiting)
        /\ pc' = [pc EXCEPT ![c] = "resuming", ![w] = "owner"]
        /\ caller' = [caller EXCEPT ![w] = c]
    BY HandOverTakesHead, WaitingType
  <1>3. /\ IsInjective(Tail(Waiting))
        /\ ToSet(Tail(Waiting)) = ToSet(Waiting) \ {w}
        /\ w \in ToSet(Waiting)
    BY <1>2, TailDistinct DEF WaitersAreTheSuspended
  <1>4. w \in Coroutines /\ pc[w] = "queued" /\ w # c /\ caller[w] = NoCaller
    BY <1>1, <1>3 DEF WaitersAreTheSuspended, ResumeNesting
  <1>5. newWaiters' \in Seq(Coroutines) /\ m_waiters' \in Seq(Coroutines)
    <2>1. CASE UnlockCollects(c)
      <3>1. newWaiters # << >> /\ newWaiters \in Seq(Coroutines)
        BY <2>1 DEF UnlockCollects, CollectFindsWaiter, TypeOK
      <3>2. Reverse(newWaiters) \in Seq(Coroutines) /\ Reverse(newWaiters) # << >>
        BY <3>1, ReverseType
      <3>3. Tail(Reverse(newWaiters)) \in Seq(Coroutines) /\ << >> \in Seq(Coroutines)
        BY <3>2
      <3>4. QED BY <2>1, <3>3 DEF UnlockCollects, ResumeNext
    <2>2. CASE UnlockHandsOver(c)
      BY <2>2 DEF UnlockHandsOver, ResumeNext, TypeOK
    <2>3. QED BY <2>1, <2>2
  <1>6. TypeOK'
    BY <1>1, <1>2, <1>4, <1>5 DEF TypeOK
  <1>7. Owners = {c} /\ locked
    BY <1>1 DEF MutualExclusion, Owners
  <1>8. Owners' = {w}
    BY <1>2, <1>4, <1>7 DEF Owners, TypeOK
  <1>9. MutualExclusion'
    BY <1>1, <1>7, <1>8 DEF MutualExclusion
  <1>10. {d \in Coroutines : pc[d] = "queued"}' = {d \in Coroutines : pc[d] = "queued"} \ {w}
    BY <1>1, <1>2, <1>4 DEF TypeOK
  <1>11. WaitersAreTheSuspended'
    BY <1>1, <1>2, <1>3, <1>7, <1>10 DEF WaitersAreTheSuspended
  <1>12. CollectFindsWaiter'
    BY <1>2, <1>4, <1>8 DEF CollectFindsWaiter, Owners, TypeOK
  <1>13. ResumeNesting'
    <2>1. \A d \in Coroutines : caller[d] # c
      BY <1>1, ConstantsAssumption DEF ResumeNesting
    <2>2. \A d \in Coroutines : caller'[d] = IF d = w THEN c ELSE caller[d]
      BY <1>2 DEF TypeOK
    <2>3. \A d \in Coroutines :
            pc'[d] = IF d = w THEN "owner" ELSE IF d = c THEN "resuming" ELSE pc[d]
      BY <1>2, <1>4 DEF TypeOK
    <2>4. \A d \in Coroutines : caller[d] # NoCaller => caller[d] \in Coroutines /\ caller[d] # w
      BY <1>4 DEF ResumeNesting, TypeOK
    <2>5. \A d \in Coroutines : caller'[d] # NoCaller =>
            pc'[caller'[d]] = "resuming" /\ pc'[d] # "queued"
      BY <1>4, <2>1, <2>2, <2>3, <2>4 DEF ResumeNesting
    <2>6. \A d \in Coroutines : pc'[d] = "resuming" => \E b \in Coroutines : caller'[b] = d
      <3> SUFFICES ASSUME NEW d \in Coroutines, pc'[d] = "resuming"
                   PROVE  \E b \in Coroutines : caller'[b] = d
        OBVIOUS
      <3>1. CASE d = c
        BY <1>4, <2>2, <3>1
      <3>2. CASE d # c
        <4>1. pc[d] = "resuming"
          BY <2>3, <3>2
        <4>2. PICK b \in Coroutines : caller[b] = d
          BY <4>1 DEF ResumeNesting
        <4>3. b # w
          BY <1>4, <4>2, ConstantsAssumption
        <4>4. QED BY <2>2, <4>2, <4>3
      <3>3. QED BY <3>1, <3>2
    <2>7. \A a, b \in Coroutines : caller'[a] = caller'[b] /\ caller'[a] # NoCaller => a = b
      BY <2>1, <2>2 DEF ResumeNesting
    <2>8. QED BY <2>5, <2>6, <2>7 DEF ResumeNesting
  <1>14. QED BY <1>6, <1>7, <1>8, <1>9, <1>11, <1>12, <1>13

(* A resumed coroutine suspends elsewhere and its resumer goes on.         *)
LEMMA ElsewherePreserves ==
  ASSUME MutexInv, NEW c \in Coroutines, SuspendElsewhere(c)
  PROVE  MutexInv' /\ Owners' = Owners /\ Waiting' = Waiting
  <1> USE DEF MutexInv
  <1>1. /\ caller[c] \in Coroutines /\ pc[caller[c]] = "resuming"
        /\ pc[c] \in {"running", "owner"}
        /\ pc' = [pc EXCEPT ![caller[c]] = "running"]
        /\ caller' = [caller EXCEPT ![c] = NoCaller]
        /\ UNCHANGED <<locked, newWaiters, m_waiters, oldState>>
    BY DEF SuspendElsewhere, ReturnToCaller, ResumeNesting, TypeOK
  <1>2. TypeOK'
    BY <1>1 DEF TypeOK
  <1>3. Owners' = Owners
    BY <1>1 DEF Owners, TypeOK
  <1>4. MutualExclusion'
    BY <1>1, <1>3 DEF MutualExclusion
  <1>5. Waiting' = Waiting
    BY <1>1 DEF Waiting
  <1>6. {d \in Coroutines : pc[d] = "queued"}' = {d \in Coroutines : pc[d] = "queued"}
    BY <1>1 DEF TypeOK
  <1>7. WaitersAreTheSuspended'
    BY <1>1, <1>5, <1>6 DEF WaitersAreTheSuspended
  <1>8. CollectFindsWaiter'
    BY <1>1 DEF CollectFindsWaiter, TypeOK
  <1>9. ResumeNesting'
    <2>1. \A d \in Coroutines : caller'[d] = IF d = c THEN NoCaller ELSE caller[d]
      BY <1>1 DEF TypeOK
    <2>2. \A d \in Coroutines : pc'[d] = IF d = caller[c] THEN "running" ELSE pc[d]
      BY <1>1 DEF TypeOK
    <2>3. \A d \in Coroutines : d # c /\ caller[d] # NoCaller =>
            caller[d] # caller[c] /\ caller[d] \in Coroutines
      BY <1>1 DEF ResumeNesting, TypeOK
    <2>4. QED BY <1>1, <2>1, <2>2, <2>3, ConstantsAssumption DEF ResumeNesting
  <1>10. QED BY <1>2, <1>3, <1>4, <1>5, <1>7, <1>8, <1>9

LEMMA NextPreserves == MutexInv /\ [Next]_vars => MutexInv'
  <1> SUFFICES ASSUME MutexInv, [Next]_vars PROVE MutexInv'
    OBVIOUS
  <1>1. CASE UNCHANGED vars
    BY <1>1 DEF vars, MutexInv, TypeOK, MutualExclusion, Owners, WaitersAreTheSuspended,
       Waiting, CollectFindsWaiter, ResumeNesting
  <1>2. CASE Next
    <2>1. PICK c \in Coroutines : TryLock(c) \/ LockAsync(c) \/ AwaitSuspend(c)
                                  \/ Unlock(c) \/ SuspendElsewhere(c)
      BY <1>2 DEF Next
    <2>2. CASE TryLock(c) \/ SuspendAcquires(c)
      BY <2>2, AcquirePreserves
    <2>3. CASE LockAsync(c) \/ SuspendRetries(c)
      BY <2>3, LoadPreserves
    <2>4. CASE SuspendQueues(c)
      BY <2>4, QueuePreserves
    <2>5. CASE UnlockReleases(c)
      BY <2>5, ReleasePreserves
    <2>6. CASE UnlockFindsNewWaiters(c)
      BY <2>6, FindsNewWaitersPreserves
    <2>7. CASE UnlockCollects(c) \/ UnlockHandsOver(c)
      BY <2>7, HandOverPreserves
    <2>8. CASE SuspendElsewhere(c)
      BY <2>8, ElsewherePreserves
    <2>9. QED
      BY <2>1, <2>2, <2>3, <2>4, <2>5, <2>6, <2>7, <2>8 DEF AwaitSuspend, Unlock
  <1>3. QED BY <1>1, <1>2
-----------------------------------------------------------------------------
(* The conjunction of all invariants holds in every reachable state.       *)
THEOREM Invariance == Spec => []MutexInv
  BY InitMutexInv, NextPreserves, PTL DEF Spec

(* try_lock(), await_suspend() and unlock() never create a second owner,   *)
(* and the word m_state tells exactly whether there is one.                *)
THEOREM MutexSafety == Spec => []MutualExclusion
  <1>1. MutexInv => MutualExclusion
    BY DEF MutexInv
  <1>2. QED BY <1>1, Invariance, PTL

(* No waiter is lost or queued twice by a push that races with unlock().   *)
THEOREM NoWaiterLost == Spec => []WaitersAreTheSuspended
  <1>1. MutexInv => WaitersAreTheSuspended
    BY DEF MutexInv
  <1>2. QED BY <1>1, Invariance, PTL

(* unlock() that has seen new waiters finds one when it collects them: its *)
(* assertions hold whoever pushes in between.                              *)
THEOREM CollectSafety == Spec => []CollectFindsWaiter
  <1>1. MutexInv => CollectFindsWaiter
    BY DEF MutexInv
  <1>2. QED BY <1>1, Invariance, PTL

(* async_mutex implements the first-come first-served lock.                *)
THEOREM FifoRefinement == Spec => ImplementsFifoLock
  <1>1. Init => Fifo!Init
    BY DEF Init, Fifo!Init, Owners, Waiting, Reverse
  <1>2. MutexInv /\ [Next]_vars => [Fifo!Next]_Fifo!vars
    <2> SUFFICES ASSUME MutexInv, [Next]_vars PROVE [Fifo!Next]_Fifo!vars
      OBVIOUS
    <2>1. CASE UNCHANGED vars
      BY <2>1 DEF vars, Fifo!vars, Owners, Waiting
    <2>2. CASE Next
      <3>1. PICK c \in Coroutines : TryLock(c) \/ LockAsync(c) \/ AwaitSuspend(c)
                                    \/ Unlock(c) \/ SuspendElsewhere(c)
        BY <2>2 DEF Next
      <3>2. CASE TryLock(c) \/ SuspendAcquires(c)
        <4>1. ~locked /\ pc' = [pc EXCEPT ![c] = "owner"] /\ UNCHANGED <<newWaiters, m_waiters>>
          BY <3>2, StateWordTells DEF MutexInv, TryLock, SuspendAcquires
        <4>2. Owners = {} /\ Owners' = {c} /\ Waiting = << >> /\ Waiting' = Waiting
          BY <4>1 DEF MutexInv, MutualExclusion, Owners, TypeOK, WaitersAreTheSuspended, Waiting
        <4>3. QED BY <4>2 DEF Fifo!Next, Fifo!Acquire
      <3>3. CASE LockAsync(c) \/ SuspendRetries(c)
        <4>1. Owners' = Owners /\ Waiting' = Waiting
          BY <3>3 DEF LockAsync, SuspendRetries, Owners, Waiting, MutexInv, TypeOK
        <4>2. QED BY <4>1 DEF Fifo!vars
      <3>4. CASE SuspendQueues(c)
        <4>1. Owners # {} /\ Owners' = Owners
          BY <3>4, QueuePreserves DEF MutexInv, MutualExclusion
        <4>2. Waiting' = Append(Waiting, c)
          BY <3>4, QueueingAppends DEF MutexInv
        <4>3. QED BY <4>1, <4>2 DEF Fifo!Next, Fifo!Enqueue
      <3>5. CASE UnlockReleases(c)
        BY <3>5, ReleasePreserves DEF Fifo!Next, Fifo!Release
      <3>6. CASE UnlockFindsNewWaiters(c) \/ SuspendElsewhere(c)
        BY <3>6, FindsNewWaitersPreserves, ElsewherePreserves DEF Fifo!vars
      <3>7. CASE UnlockCollects(c) \/ UnlockHandsOver(c)
        <4>1. Waiting # << >> /\ Waiting' = Tail(Waiting)
          BY <3>7, HandOverTakesHead DEF MutexInv
        <4>2. QED BY <3>7, <4>1, HandOverPreserves DEF Fifo!Next, Fifo!HandOver
      <3>8. QED
        BY <3>1, <3>2, <3>3, <3>4, <3>5, <3>6, <3>7 DEF AwaitSuspend, Unlock
    <2>3. QED BY <2>1, <2>2
  <1>3. QED BY <1>1, <1>2, Invariance, PTL DEF Spec, ImplementsFifoLock, Fifo!Spec

-----------------------------------------------------------------------------
(* async_scope                                                             *)

(* What the owner itself contributes to m_count until join() gives it up.  *)
OwnersCount == IF owner \in {"spawning", "await_suspend", "fetch_sub"} THEN 1 ELSE 0

(* m_count counts the owner and the work that runs; who is on the way to   *)
(* resume the owner, or has done so, has found that nothing was left.      *)
ScopeInv ==
  /\ Scope!TypeOK
  /\ workCount = Cardinality(Scope!Running) + OwnersCount
  /\ Scope!ResumesTheOwner
  /\ owner \in {"fetch_sub", "suspended"} => m_continuation = Scope!Owner
  /\ \A w \in Work : work[w] = "resume" => workCount = 0
  /\ owner = "joined" => workCount = 0

(* How the set of running work, and so the count, changes.                 *)
LEMMA RunningCounts ==
  ASSUME NEW w \in Work
  PROVE  /\ IsFiniteSet(Scope!Running) /\ Cardinality(Scope!Running) \in Nat
         /\ Cardinality(Scope!Running) = 0 <=> \A v \in Work : work[v] # "running"
         /\ w \notin Scope!Running => Cardinality(Scope!Running \cup {w}) = Cardinality(Scope!Running) + 1
         /\ w \in Scope!Running => Cardinality(Scope!Running \ {w}) = Cardinality(Scope!Running) - 1
  <1>1. IsFiniteSet(Scope!Running)
    BY FS_Subset, TaskParticipantsAssumption DEF Scope!Running
  <1>2. Cardinality(Scope!Running) = 0 <=> Scope!Running = {}
    BY <1>1, FS_EmptySet
  <1>3. QED BY <1>1, <1>2, FS_CardinalityType, FS_AddElement, FS_RemoveElement DEF Scope!Running

LEMMA ScopeInit == Scope!Init => ScopeInv
  <1> SUFFICES ASSUME Scope!Init PROVE ScopeInv
    OBVIOUS
  <1>1. Scope!Running = {}
    BY DEF Scope!Init, Scope!Running
  <1>2. Cardinality(Scope!Running) = 0
    BY <1>1, FS_EmptySet
  <1>3. QED BY <1>2 DEF Scope!Init, ScopeInv, Scope!TypeOK, OwnersCount, Scope!ResumesTheOwner, Scope!Owner

LEMMA ScopeStep == ScopeInv /\ [Scope!Next]_Scope!vars => ScopeInv'
  <1> SUFFICES ASSUME ScopeInv, [Scope!Next]_Scope!vars PROVE ScopeInv'
    OBVIOUS
  <1> USE DEF ScopeInv, Scope!TypeOK, OwnersCount, Scope!ResumesTheOwner, Scope!Owner
  <1>1. CASE UNCHANGED Scope!vars
    BY <1>1 DEF Scope!vars, Scope!Running
  <1>2. ASSUME NEW w \in Work, Scope!Spawn(w)
        PROVE  ScopeInv'
    <2>1. w \notin Scope!Running /\ Scope!Running' = Scope!Running \cup {w}
      BY <1>2 DEF Scope!Spawn, Scope!Running
    <2>2. owner = "spawning" \/ Cardinality(Scope!Running) # 0
      BY <1>2, RunningCounts DEF Scope!Spawn, Scope!Running
    <2>3. Cardinality(Scope!Running') = Cardinality(Scope!Running) + 1 /\ Cardinality(Scope!Running) \in Nat
      BY <2>1, RunningCounts
    <2>4. workCount # 0
      BY <2>2, <2>3
    <2>5. QED BY <1>2, <2>3, <2>4 DEF Scope!Spawn
  <1>3. ASSUME NEW w \in Work, Scope!WorkFinishes(w)
        PROVE  ScopeInv'
    <2>1. w \in Scope!Running /\ Scope!Running' = Scope!Running \ {w}
      BY <1>3 DEF Scope!WorkFinishes, Scope!Running
    <2>2. Cardinality(Scope!Running') = Cardinality(Scope!Running) - 1 /\ Cardinality(Scope!Running) \in Nat
      BY <2>1, RunningCounts
    <2>3. Cardinality(Scope!Running) # 0
      BY <2>1, RunningCounts DEF Scope!Running
    <2>4. QED BY <1>3, <2>2, <2>3 DEF Scope!WorkFinishes
  <1>4. ASSUME NEW w \in Work, Scope!WorkResumesOwner(w)
        PROVE  ScopeInv'
    <2>1. Scope!Running' = Scope!Running
      BY <1>4 DEF Scope!WorkResumesOwner, Scope!Running
    <2>2. QED BY <1>4, <2>1 DEF Scope!WorkResumesOwner
  <1>5. CASE Scope!OwnerStep
    <2>1. Scope!Running' = Scope!Running
      BY <1>5 DEF Scope!OwnerStep, Scope!Join, Scope!JoinStores, Scope!JoinSuspends, Scope!Running
    <2>2. IsFiniteSet(Scope!Running)
      BY FS_Subset, TaskParticipantsAssumption DEF Scope!Running
    <2>3. Cardinality(Scope!Running) \in Nat
      BY <2>2, FS_CardinalityType
    <2>4. CASE Scope!Join
      BY <2>1, <2>3, <2>4 DEF Scope!Join
    <2>5. CASE Scope!JoinStores
      BY <2>1, <2>3, <2>5 DEF Scope!JoinStores
    <2>6. CASE Scope!JoinSuspends
      BY <2>1, <2>3, <2>6 DEF Scope!JoinSuspends
    <2>7. QED BY <1>5, <2>4, <2>5, <2>6 DEF Scope!OwnerStep
  <1>6. QED BY <1>1, <1>2, <1>3, <1>4, <1>5 DEF Scope!Next, Scope!WorkStep

LEMMA ScopeInvSuffices == ScopeInv => Scope!JoinedMeansDone /\ Scope!ResumesTheOwner
  <1> SUFFICES ASSUME ScopeInv, owner = "joined", NEW w \in Work
               PROVE  work[w] \in {"not_spawned", "finished"}
    BY DEF ScopeInv, Scope!JoinedMeansDone
  <1>1. Cardinality(Scope!Running) \in Nat
    BY RunningCounts
  <1>2. Cardinality(Scope!Running) = 0
    BY <1>1 DEF ScopeInv, OwnersCount
  <1>3. work[w] # "running"
    BY <1>2, RunningCounts
  <1>4. QED BY <1>3 DEF ScopeInv, Scope!ResumesTheOwner, Scope!TypeOK

(* When join() has completed no work is left, and one piece of work at     *)
(* most resumes the owner, which has stored its handle before.             *)
THEOREM ScopeSafety == Scope!Spec => [](Scope!JoinedMeansDone /\ Scope!ResumesTheOwner)
  BY ScopeInit, ScopeStep, ScopeInvSuffices, PTL DEF Scope!Spec
-----------------------------------------------------------------------------
(* shared_task                                                             *)

AwaitLabels ==
  {"idle", "load", "start", "body", "resuming", "reload", "enqueue", "suspended", "result", "done"}

(* The list in the promise and the one that final_awaiter has taken hold   *)
(* the suspended coroutines, each once; only one thread has taken a list.  *)
SharedLists ==
  /\ IsInjective(Shared!WaiterList)
  /\ \A t \in Shared!Threads :
       /\ IsInjective(toResume[t])
       /\ toResume[t] # << >> => taskPc[t] = "resuming"
       /\ taskPc[t] = "resuming" => taskWaiters = Ready
  /\ \A t, u \in Shared!Threads : taskPc[t] = "resuming" /\ taskPc[u] = "resuming" => t = u
  /\ \A c \in TaskCoroutines :
       taskPc[c] = "suspended" <=>
         c \in ToSet(Shared!WaiterList) \/ \E t \in Shared!Threads : c \in ToSet(toResume[t])

(* m_waiters tells how far the body is, and one thread runs it.            *)
SharedBody ==
  /\ taskWaiters = NotStarted <=> taskBody = "initial"
  /\ taskWaiters = Ready <=> taskBody = "final"
  /\ \A t \in Shared!Threads : taskPc[t] = "body" => taskBody = "running"
  /\ \A t, u \in Shared!Threads : taskPc[t] = "body" /\ taskPc[u] = "body" => t = u
  /\ taskBody = "running" => \E t \in Shared!Threads : taskPc[t] = "body"
  /\ \A c \in TaskCoroutines :
       /\ taskPc[c] \in {"reload", "enqueue", "suspended"} => taskWaiters # NotStarted
       /\ taskPc[c] \in {"result", "done"} => taskBody = "final"

(* Who is in co_await keeps its shared_task, the references are counted,   *)
(* and until the body is done somebody is in co_await.                     *)
SharedReferences ==
  /\ taskRefCount = Cardinality(handles)
  /\ alive <=> handles # {}
  /\ \A c \in TaskCoroutines : taskPc[c] \notin {"idle", "done"} => c \in handles
  /\ taskBody \in {"running", "suspended"} =>
       \E c \in TaskCoroutines : taskPc[c] \in {"body", "reload", "enqueue", "suspended"}

SharedInv ==
  /\ Shared!TypeOK
  /\ taskPc \in [Shared!Threads -> AwaitLabels]
  /\ SharedLists
  /\ SharedBody
  /\ SharedReferences

(* SharedTask has its own copy of Cardinality.                             *)
LEMMA SharedCardinality == ASSUME NEW S PROVE Shared!Cardinality(S) = Cardinality(S)
  BY DEF Shared!Cardinality, Cardinality

LEMMA SharedInit == Shared!Init => SharedInv
  <1> SUFFICES ASSUME Shared!Init PROVE SharedInv
    OBVIOUS
  <1> USE TasksAssumption DEF Shared!Init, Shared!Threads
  <1>1. Cardinality(handles) = 1
    BY FS_Singleton
  <1>2. Cardinality(TaskCoroutines) \in Nat /\ Cardinality(handles) <= Cardinality(TaskCoroutines)
    BY FS_CardinalityType, FS_Subset
  <1>3. Shared!TypeOK /\ taskPc \in [Shared!Threads -> AwaitLabels]
    BY <1>1, <1>2, SharedCardinality DEF Shared!TypeOK, AwaitLabels
  <1>4. SharedLists
    BY DEF SharedLists, Shared!WaiterList, IsInjective, ToSet
  <1>5. SharedBody
    BY DEF SharedBody
  <1>6. SharedReferences
    BY <1>1 DEF SharedReferences
  <1>7. QED BY <1>3, <1>4, <1>5, <1>6 DEF SharedInv

(* Copying, moving and dropping only concerns the references.              *)
LEMMA SharedHandles ==
  ASSUME SharedInv, NEW c \in TaskCoroutines, NEW d \in TaskCoroutines,
         Shared!Copy(c, d) \/ Shared!Move(c, d) \/ Shared!Destroy(c)
  PROVE  SharedInv'
  <1> USE TasksAssumption
  <1>1. UNCHANGED <<taskWaiters, taskBody, taskPc, toResume>>
    BY DEF Shared!Copy, Shared!Move, Shared!Destroy
  <1>2. SharedLists' /\ SharedBody'
    BY <1>1 DEF SharedInv, SharedLists, SharedBody, Shared!WaiterList, IsInjective, ToSet, Shared!Threads
  <1>3. IsFiniteSet(handles) /\ handles \subseteq TaskCoroutines /\ Cardinality(handles) \in Nat
    BY FS_Subset, FS_CardinalityType DEF SharedInv, Shared!TypeOK
  <1>4. /\ handles' \subseteq TaskCoroutines
        /\ taskRefCount' = Cardinality(handles')
        /\ alive' <=> handles' # {}
    <2>1. CASE Shared!Copy(c, d)
      BY <1>3, <2>1, FS_AddElement DEF Shared!Copy, SharedInv, SharedReferences
    <2>2. CASE Shared!Move(c, d)
      <3>1. handles' = (handles \ {c}) \cup {d} /\ c \in handles /\ d \notin handles
        BY <2>2 DEF Shared!Move
      <3>2. IsFiniteSet(handles \ {c}) /\ Cardinality(handles \ {c}) = Cardinality(handles) - 1
        BY <1>3, <3>1, FS_RemoveElement
      <3>3. Cardinality((handles \ {c}) \cup {d}) = Cardinality(handles \ {c}) + 1
        BY <3>1, <3>2, FS_AddElement
      <3>4. QED BY <1>3, <2>2, <3>1, <3>2, <3>3 DEF Shared!Move, SharedInv, SharedReferences
    <2>3. CASE Shared!Destroy(c)
      <3>1. c \in handles /\ handles' = handles \ {c} /\ IsFiniteSet(handles')
        BY <1>3, <2>3, FS_RemoveElement DEF Shared!Destroy
      <3>2. Cardinality(handles') = Cardinality(handles) - 1
        BY <1>3, <3>1, FS_RemoveElement
      <3>3. Cardinality(handles') = 0 <=> handles' = {}
        BY <3>1, FS_EmptySet
      <3>4. taskRefCount' = taskRefCount - 1 /\ (alive' <=> alive /\ taskRefCount # 1) /\ taskRefCount = Cardinality(handles)
        BY <2>3 DEF Shared!Destroy, SharedInv, SharedReferences
      <3>5. alive
        BY <3>1 DEF SharedInv, SharedReferences
      <3>6. taskRefCount # 1 <=> handles' # {}
        BY <1>3, <3>2, <3>3, <3>4
      <3>7. QED BY <1>3, <3>1, <3>2, <3>4, <3>5, <3>6
    <2>4. QED BY <2>1, <2>2, <2>3
  <1>5. \A x \in TaskCoroutines : taskPc'[x] \notin {"idle", "done"} => x \in handles'
    BY <1>1 DEF SharedInv, SharedReferences, Shared!Copy, Shared!Move, Shared!Destroy
  <1>6. SharedReferences'
    BY <1>1, <1>4, <1>5 DEF SharedInv, SharedReferences
  <1>7. taskRefCount' \in 0 .. Cardinality(TaskCoroutines)
    BY <1>4, FS_Subset, FS_CardinalityType
  <1>8. Shared!TypeOK' /\ taskPc' \in [Shared!Threads -> AwaitLabels]
    BY <1>1, <1>4, <1>7, SharedCardinality DEF SharedInv, Shared!TypeOK, Shared!Threads, Shared!Copy, Shared!Move, Shared!Destroy
  <1>9. QED BY <1>2, <1>6, <1>8 DEF SharedInv

(* The steps of co_await that touch no list.                               *)
LEMMA SharedAwait ==
  ASSUME SharedInv, NEW c \in TaskCoroutines,
         \/ Shared!AwaitReady(c) \/ Shared!LoadWaiters(c) \/ Shared!BodySuspends(c)
         \/ Shared!ReloadWaiters(c) \/ Shared!AwaitResume(c) \/ Shared!TryStart(c)
  PROVE  SharedInv'
  <1> USE TasksAssumption DEF SharedInv, Shared!TypeOK, AwaitLabels, Shared!Threads, Shared!AwaitReady, Shared!LoadWaiters,
          Shared!BodySuspends, Shared!ReloadWaiters, Shared!AwaitResume, Shared!TryStart, Shared!Goto
  <1>1. taskPc' \in [Shared!Threads -> AwaitLabels] /\ taskPc'[Worker] = taskPc[Worker]
    OBVIOUS
  <1>2. UNCHANGED <<taskRefCount, handles, alive, toResume>>
    OBVIOUS
  <1>3. taskWaiters' \in {taskWaiters, << >>}
    OBVIOUS
  <1>4. taskWaiters' \in {NotStarted, Ready} \cup Seq(TaskCoroutines)
    <2>1. << >> \in Seq(TaskCoroutines)
      OBVIOUS
    <2>2. QED BY ONLY SharedInv, <1>3, <2>1 DEF SharedInv, Shared!TypeOK
  <1>5. taskBody' \in {"initial", "running", "suspended", "final"}
    OBVIOUS
  <1>6. Shared!TypeOK'
    BY <1>1, <1>2, <1>4, <1>5
  <1>7. Shared!WaiterList' = Shared!WaiterList
    BY DEF Shared!WaiterList
  <1>8. SharedLists'
    BY <1>2, <1>7, SMTT(40) DEF SharedLists, SharedBody
  <1>9. SharedBody'
    BY DEF SharedBody, SharedLists
  <1>10. SharedReferences'
    BY DEF SharedReferences, SharedBody
  <1>11. QED BY <1>1, <1>6, <1>8, <1>9, <1>10

LEMMA SharedWorker ==
  ASSUME SharedInv, Shared!WorkerResumesBody
  PROVE  SharedInv'
  <1> USE TasksAssumption DEF SharedInv, Shared!TypeOK, AwaitLabels, Shared!Threads, Shared!WorkerResumesBody, Shared!Goto
  <1>1. /\ taskPc' \in [Shared!Threads -> AwaitLabels] /\ taskPc'[Worker] = "body"
        /\ \A c \in TaskCoroutines : taskPc'[c] = taskPc[c]
    OBVIOUS
  <1>2. Shared!TypeOK'
    BY <1>1
  <1>3. SharedLists'
    BY <1>1 DEF SharedLists, Shared!WaiterList
  <1>4. SharedBody'
    BY <1>1 DEF SharedBody
  <1>5. SharedReferences'
    BY <1>1 DEF SharedReferences
  <1>6. QED BY <1>1, <1>2, <1>3, <1>4, <1>5

(* final_awaiter takes the list from the promise.                          *)
LEMMA SharedFinal ==
  ASSUME SharedInv, NEW t \in Shared!Threads, Shared!FinalSuspend(t)
  PROVE  SharedInv'
  <1> USE TasksAssumption DEF SharedInv, AwaitLabels, Shared!Threads, Shared!FinalSuspend, Shared!Goto
  <1>1. /\ taskPc' \in [Shared!Threads -> AwaitLabels] /\ taskPc'[t] = "resuming"
        /\ \A u \in Shared!Threads : u # t => taskPc'[u] = taskPc[u]
    OBVIOUS
  <1>2. taskWaiters \in Seq(TaskCoroutines) /\ taskWaiters # Ready /\ taskWaiters # NotStarted
    BY DEF SharedBody, Shared!TypeOK
  <1>3. Shared!WaiterList = taskWaiters /\ Shared!WaiterList' = << >>
    BY <1>2 DEF Shared!WaiterList
  <1>4. /\ toResume' \in [Shared!Threads -> Seq(TaskCoroutines)] /\ toResume'[t] = taskWaiters
        /\ \A u \in Shared!Threads : u # t => toResume'[u] = toResume[u]
    BY <1>2 DEF Shared!TypeOK
  <1>5. \A u \in Shared!Threads : taskPc[u] # "resuming" /\ toResume[u] = << >>
    BY <1>2 DEF SharedLists
  <1>6. Shared!TypeOK'
    BY <1>1, <1>4 DEF Shared!TypeOK
  <1>7. SharedLists'
    <2>1. /\ IsInjective(Shared!WaiterList') /\ ToSet(Shared!WaiterList') = {}
          /\ IsInjective(<<>>) /\ ToSet(<<>>) = {}
      BY <1>3 DEF IsInjective, ToSet
    <2>2. \A u \in Shared!Threads : IsInjective(toResume'[u])
      BY <1>3, <1>4, <1>5, <2>1 DEF SharedLists
    <2>3. \A c \in TaskCoroutines :
            taskPc'[c] = "suspended" <=>
              c \in ToSet(Shared!WaiterList') \/ \E u \in Shared!Threads : c \in ToSet(toResume'[u])
      <3> SUFFICES ASSUME NEW c \in TaskCoroutines
                   PROVE  taskPc'[c] = "suspended" <=> \E u \in Shared!Threads : c \in ToSet(toResume'[u])
        BY <2>1
      <3>1. taskPc'[c] = "suspended" <=> taskPc[c] = "suspended"
        BY <1>1
      <3>2. taskPc[c] = "suspended" <=> c \in ToSet(taskWaiters)
        BY <1>3, <1>5, <2>1 DEF SharedLists
      <3>3. (\E u \in Shared!Threads : c \in ToSet(toResume'[u])) <=> c \in ToSet(taskWaiters)
        BY <1>4, <1>5, <2>1
      <3>4. QED BY <3>1, <3>2, <3>3
    <2>4. \A u \in Shared!Threads : u # t => taskPc'[u] # "resuming" /\ toResume'[u] = << >>
      BY <1>1, <1>4, <1>5
    <2>5. QED BY <1>1, <2>1, <2>2, <2>3, <2>4 DEF SharedLists
  <1>8. SharedBody'
    BY <1>1, <1>2 DEF SharedBody
  <1>9. SharedReferences'
    BY <1>1 DEF SharedReferences
  <1>10. QED BY <1>1, <1>6, <1>7, <1>8, <1>9

(* ... and resumes the coroutines on it one after the other.               *)
LEMMA SharedResume ==
  ASSUME SharedInv, NEW t \in Shared!Threads, Shared!ResumeWaiter(t)
  PROVE  SharedInv'
  <1> USE TasksAssumption DEF SharedInv, AwaitLabels, Shared!Threads, Shared!ResumeWaiter, Shared!Goto
  <1> DEFINE h == Head(toResume[t])
  <1>1. toResume[t] \in Seq(TaskCoroutines) /\ toResume[t] # << >> /\ IsInjective(toResume[t])
    BY DEF SharedLists, Shared!TypeOK
  <1>2. /\ h \in TaskCoroutines /\ h \in ToSet(toResume[t]) /\ Tail(toResume[t]) \in Seq(TaskCoroutines)
        /\ IsInjective(Tail(toResume[t])) /\ ToSet(Tail(toResume[t])) = ToSet(toResume[t]) \ {h}
    BY <1>1, TailDistinct
  <1>3. taskPc[h] = "suspended" /\ taskPc[t] = "resuming" /\ taskWaiters = Ready /\ h # t
    BY <1>2 DEF SharedLists
  <1> HIDE DEF h
  <1>4. /\ taskPc' \in [Shared!Threads -> AwaitLabels] /\ taskPc'[h] = "result"
        /\ \A u \in Shared!Threads : u # h => taskPc'[u] = taskPc[u]
    BY <1>2 DEF h
  <1>5. /\ toResume' \in [Shared!Threads -> Seq(TaskCoroutines)] /\ toResume'[t] = Tail(toResume[t])
        /\ \A u \in Shared!Threads : u # t => toResume'[u] = toResume[u]
    BY <1>2 DEF Shared!TypeOK
  <1>6. \A u \in Shared!Threads : u # t => taskPc[u] # "resuming" /\ toResume[u] = << >>
    BY <1>3 DEF SharedLists
  <1>7. Shared!WaiterList = << >> /\ Shared!WaiterList' = << >> /\ ToSet(<< >>) = {} /\ IsInjective(<< >>)
    BY <1>3 DEF Shared!WaiterList, ToSet, IsInjective
  <1>8. Shared!TypeOK'
    BY <1>2, <1>4, <1>5 DEF Shared!TypeOK
  <1>9. SharedLists'
    <2>1. \A u \in Shared!Threads : u # t => taskPc'[u] # "resuming" /\ toResume'[u] = << >>
      BY <1>4, <1>5, <1>6
    <2>2. taskPc'[t] = "resuming"
      BY <1>3, <1>4
    <2>3. \A u \in Shared!Threads : IsInjective(toResume'[u])
      BY <1>2, <1>5, <1>7, <2>1
    <2>4. ASSUME NEW c \in TaskCoroutines
          PROVE  taskPc'[c] = "suspended" <=> \E u \in Shared!Threads : c \in ToSet(toResume'[u])
      <3>1. (\E u \in Shared!Threads : c \in ToSet(toResume'[u])) <=> c \in ToSet(toResume[t]) /\ c # h
        BY <1>2, <1>5, <1>7, <2>1
      <3>2. taskPc[c] = "suspended" <=> c \in ToSet(toResume[t])
        BY <1>6, <1>7 DEF SharedLists
      <3>3. taskPc'[c] = "suspended" <=> taskPc[c] = "suspended" /\ c # h
        BY <1>4
      <3>4. QED BY <3>1, <3>2, <3>3
    <2>5. QED BY <1>3, <1>7, <2>1, <2>2, <2>3, <2>4 DEF SharedLists
  <1>10. SharedBody'
    BY <1>2, <1>3, <1>4 DEF SharedBody
  <1>11. SharedReferences'
    BY <1>2, <1>3, <1>4 DEF SharedReferences, SharedBody
  <1>12. QED BY <1>4, <1>8, <1>9, <1>10, <1>11

LEMMA SharedResumed ==
  ASSUME SharedInv, NEW t \in Shared!Threads, Shared!AllResumed(t)
  PROVE  SharedInv'
  <1> USE TasksAssumption DEF SharedInv, Shared!TypeOK, AwaitLabels, Shared!Threads, Shared!AllResumed, Shared!Goto
  <1>1. /\ taskPc' \in [Shared!Threads -> AwaitLabels] /\ taskPc'[t] \in {"idle", "reload"}
        /\ t = Worker <=> taskPc'[t] = "idle"
        /\ \A u \in Shared!Threads : u # t => taskPc'[u] = taskPc[u]
    OBVIOUS
  <1>2. taskWaiters = Ready
    BY DEF SharedLists
  <1>3. Shared!TypeOK'
    BY <1>1
  <1>4. SharedLists'
    BY <1>1 DEF SharedLists, Shared!WaiterList
  <1>5. SharedBody'
    BY <1>1, <1>2 DEF SharedBody
  <1>6. SharedReferences'
    BY <1>1, <1>2 DEF SharedReferences, SharedBody
  <1>7. QED BY <1>1, <1>3, <1>4, <1>5, <1>6

(* The newcomer finds the task completed or is pushed on the list.         *)
LEMMA SharedEnqueue ==
  ASSUME SharedInv, NEW c \in TaskCoroutines, Shared!Enqueue(c)
  PROVE  SharedInv'
  <1> USE TasksAssumption DEF SharedInv, AwaitLabels, Shared!Threads
  <1>1. /\ taskPc' \in [Shared!Threads -> AwaitLabels]
        /\ \A u \in Shared!Threads : u # c => taskPc'[u] = taskPc[u]
        /\ taskPc'[c] = IF taskWaiters = Ready THEN "result" ELSE "suspended"
        /\ taskPc[c] = "enqueue"
        /\ UNCHANGED <<taskRefCount, handles, alive, taskBody, toResume>>
    BY DEF Shared!Enqueue, Shared!Goto
  <1>2. taskWaiters # NotStarted
    BY <1>1 DEF SharedBody
  <1>3. CASE taskWaiters = Ready
    <2>1. UNCHANGED taskWaiters
      BY <1>3 DEF Shared!Enqueue
    <2>2. Shared!TypeOK'
      BY <1>1, <2>1 DEF Shared!TypeOK
    <2>3. SharedLists'
      BY <1>1, <1>3, <2>1 DEF SharedLists, Shared!WaiterList
    <2>4. SharedBody'
      BY <1>1, <1>3, <2>1 DEF SharedBody
    <2>5. SharedReferences'
      BY <1>1, <1>3, <2>1 DEF SharedReferences, SharedBody
    <2>6. QED BY <1>1, <2>2, <2>3, <2>4, <2>5
  <1>4. CASE taskWaiters # Ready
    <2>1. taskWaiters \in Seq(TaskCoroutines) /\ taskWaiters' = <<c>> \o taskWaiters
      BY <1>2, <1>4 DEF Shared!Enqueue, Shared!TypeOK
    <2>2. Shared!WaiterList = taskWaiters
      BY <2>1 DEF Shared!WaiterList
    <2>3. IsInjective(taskWaiters) /\ c \notin ToSet(taskWaiters)
      BY <1>1, <2>2 DEF SharedLists
    <2>4. /\ taskWaiters' \in Seq(TaskCoroutines) /\ IsInjective(taskWaiters')
          /\ ToSet(taskWaiters') = ToSet(taskWaiters) \cup {c}
      BY <2>1, <2>3, PushDistinct
    <2>5. Shared!WaiterList' = taskWaiters' /\ taskWaiters' # Ready /\ taskWaiters' # NotStarted
      BY <2>4 DEF Shared!WaiterList
    <2>6. Shared!TypeOK'
      BY <1>1, <2>4 DEF Shared!TypeOK
    <2>7. SharedLists'
      <3>1. ASSUME NEW d \in TaskCoroutines
            PROVE  taskPc'[d] = "suspended" <=>
                     d \in ToSet(Shared!WaiterList') \/ \E t \in Shared!Threads : d \in ToSet(toResume'[t])
        BY <1>1, <1>4, <2>2, <2>4, <2>5 DEF SharedLists
      <3>2. \A t \in Shared!Threads : taskPc[t] # "resuming" /\ taskPc'[t] # "resuming"
        BY <1>1, <1>4 DEF SharedLists
      <3>3. QED BY <1>1, <2>4, <2>5, <3>1, <3>2 DEF SharedLists
    <2>8. SharedBody'
      BY <1>1, <1>2, <1>4, <2>5 DEF SharedBody
    <2>9. SharedReferences'
      BY <1>1, <1>4 DEF SharedReferences
    <2>10. QED BY <1>1, <2>6, <2>7, <2>8, <2>9
  <1>5. QED BY <1>3, <1>4

LEMMA SharedStep == SharedInv /\ [Shared!Next]_Shared!vars => SharedInv'
  <1> SUFFICES ASSUME SharedInv, [Shared!Next]_Shared!vars PROVE SharedInv'
    OBVIOUS
  <1>1. CASE UNCHANGED Shared!vars
    BY <1>1 DEF Shared!vars, SharedInv, Shared!TypeOK, SharedLists, SharedBody, SharedReferences,
       Shared!WaiterList, Shared!Threads, IsInjective, ToSet
  <1>2. CASE Shared!Next
    BY <1>2, SharedHandles, SharedAwait, SharedWorker, SharedFinal, SharedResume, SharedResumed, SharedEnqueue
       DEF Shared!Next, Shared!AwaitStep, Shared!BodyStep
  <1>3. QED BY <1>1, <1>2

(* Where a coroutine is on a list that holds nobody twice.                 *)
LEMMA OnePosition ==
  ASSUME NEW S, NEW s \in Seq(S), NEW c, IsInjective(s)
  PROVE  /\ c \in ToSet(s) => \E i \in 1 .. Len(s) : Shared!Positions(c, s) = {i}
         /\ c \notin ToSet(s) => Shared!Positions(c, s) = {}
  <1>1. CASE c \in ToSet(s)
    <2>1. PICK i \in 1 .. Len(s) : s[i] = c
      BY <1>1 DEF ToSet
    <2>2. \A j \in 1 .. Len(s) : s[j] = c => j = i
      BY <2>1 DEF IsInjective
    <2>3. QED BY <1>1, <2>1, <2>2 DEF Shared!Positions
  <1>2. CASE c \notin ToSet(s)
    BY <1>2 DEF Shared!Positions, ToSet
  <1>3. QED BY <1>1, <1>2

LEMMA SharedOneList == SharedInv => Shared!SuspendedIsOnOneList
  <1> DEFINE Entries(c) ==
        ({Worker} \X Shared!Positions(c, Shared!WaiterList))
        \cup UNION {{<<"resuming", t>>} \X Shared!Positions(c, toResume[t]) : t \in Shared!Threads}
  <1> SUFFICES ASSUME SharedInv, NEW c \in TaskCoroutines
               PROVE  Cardinality(Entries(c)) = IF taskPc[c] = "suspended" THEN 1 ELSE 0
    BY SharedCardinality DEF Shared!SuspendedIsOnOneList
  <1> USE DEF SharedInv
  <1>1. Shared!WaiterList \in Seq(TaskCoroutines) /\ IsInjective(Shared!WaiterList)
    <2>1. << >> \in Seq(TaskCoroutines)
      OBVIOUS
    <2>2. QED BY <2>1 DEF Shared!WaiterList, Shared!TypeOK, SharedLists
  <1>2. \A t \in Shared!Threads : toResume[t] \in Seq(TaskCoroutines) /\ IsInjective(toResume[t])
    BY DEF Shared!TypeOK, SharedLists
  <1>3. ASSUME NEW t \in Shared!Threads, c \in ToSet(toResume[t])
        PROVE  /\ c \notin ToSet(Shared!WaiterList)
               /\ \A u \in Shared!Threads : c \in ToSet(toResume[u]) => u = t
    <2>1. ToSet(<< >>) = {}
      BY DEF ToSet
    <2>2. QED BY <1>3, <2>1 DEF SharedLists, Shared!WaiterList
  <1>4. CASE taskPc[c] # "suspended"
    <2>1. c \notin ToSet(Shared!WaiterList) /\ \A t \in Shared!Threads : c \notin ToSet(toResume[t])
      BY <1>4 DEF SharedLists
    <2>2. Shared!Positions(c, Shared!WaiterList) = {}
      BY <1>1, <2>1, OnePosition
    <2>3. \A t \in Shared!Threads : Shared!Positions(c, toResume[t]) = {}
      BY <1>2, <2>1, OnePosition
    <2>4. Entries(c) = {}
      BY <2>2, <2>3
    <2>5. QED BY <1>4, <2>4, FS_EmptySet
  <1>5. CASE c \in ToSet(Shared!WaiterList)
    <2>1. \A t \in Shared!Threads : c \notin ToSet(toResume[t])
      BY <1>3, <1>5
    <2>2. PICK i : Shared!Positions(c, Shared!WaiterList) = {i}
      BY <1>1, <1>5, OnePosition
    <2>3. \A t \in Shared!Threads : Shared!Positions(c, toResume[t]) = {}
      BY <1>2, <2>1, OnePosition
    <2>4. Entries(c) = {<<Worker, i>>}
      BY <2>2, <2>3
    <2>5. taskPc[c] = "suspended"
      BY <1>5 DEF SharedLists
    <2>6. QED BY <2>4, <2>5, FS_Singleton
  <1>6. ASSUME NEW t \in Shared!Threads, c \in ToSet(toResume[t])
        PROVE  Cardinality(Entries(c)) = 1 /\ taskPc[c] = "suspended"
    <2>1. Shared!Positions(c, Shared!WaiterList) = {}
      BY <1>1, <1>3, <1>6, OnePosition
    <2>2. PICK i : Shared!Positions(c, toResume[t]) = {i}
      BY <1>2, <1>6, OnePosition
    <2>3. \A u \in Shared!Threads : u # t => Shared!Positions(c, toResume[u]) = {}
      BY <1>2, <1>3, <1>6, OnePosition
    <2>4. Entries(c) = {<<<<"resuming", t>>, i>>}
      BY <2>1, <2>2, <2>3
    <2>5. QED BY <1>6, <2>4, FS_Singleton DEF SharedLists
  <1>7. QED BY <1>4, <1>5, <1>6 DEF SharedLists

LEMMA SharedOneThread == SharedInv => Shared!RunByOneThread
  <1> DEFINE InBody == {t \in Shared!Threads : taskPc[t] = "body"}
  <1> SUFFICES ASSUME SharedInv
               PROVE  Cardinality(InBody) = IF taskBody = "running" THEN 1 ELSE 0
    BY SharedCardinality DEF Shared!RunByOneThread
  <1>1. CASE taskBody = "running"
    <2>1. PICK t \in Shared!Threads : taskPc[t] = "body"
      BY <1>1 DEF SharedInv, SharedBody
    <2>2. InBody = {t}
      BY <2>1 DEF SharedInv, SharedBody
    <2>3. QED BY <1>1, <2>2, FS_Singleton
  <1>2. CASE taskBody # "running"
    <2>1. InBody = {}
      BY <1>2 DEF SharedInv, SharedBody
    <2>2. QED BY <1>2, <2>1, FS_EmptySet
  <1>3. QED BY <1>1, <1>2

LEMMA SharedAlive == SharedInv => Shared!AliveWhenUsed
  BY DEF SharedInv, SharedReferences, SharedBody, Shared!AliveWhenUsed

(* Nobody who awaits a shared_task is lost between the list in the promise *)
(* and the one that final_awaiter resumes; its body is run by one thread   *)
(* and its frame is there as long as somebody uses it.                     *)
THEOREM SharedTaskSafety ==
  Shared!Spec => [](Shared!SuspendedIsOnOneList /\ Shared!RunByOneThread /\ Shared!AliveWhenUsed)
  BY SharedInit, SharedStep, SharedOneList, SharedOneThread, SharedAlive, PTL DEF Shared!Spec
-----------------------------------------------------------------------------
(* The two components beside the others.                                   *)

(* No behaviour of shared_task or async_scope, however the coroutines, the *)
(* worker and the spawned work interleave, reaches a state in which        *)
(* TasksSafe does not hold.                                                *)
THEOREM TasksAreSafe == MCSpec => []TasksSafe
  <1>1. MCInit => SharedInv /\ ScopeInv
    BY SharedInit, ScopeInit DEF MCInit
  <1>2. [MCNext]_<<chosen, vars, taskVars, joinVars, generatorVars>> =>
          [Shared!Next]_Shared!vars /\ [Scope!Next]_Scope!vars
    BY DEF MCNext, TaskNext, taskVars, sharedVars, scopeVars, Shared!vars, Scope!vars
  <1>3. SharedInv /\ ScopeInv => TasksSafe
    BY SharedOneList, SharedOneThread, SharedAlive, ScopeInvSuffices DEF TasksSafe, SharedInv, ScopeInv
  <1>4. QED BY <1>1, <1>2, <1>3, SharedStep, ScopeStep, PTL DEF MCSpec
-----------------------------------------------------------------------------
(* sync_wait of when_all of tasks                                          *)

Starting == {"body", "final", "set_continuation", "notify"}
Joining == {"results", "set", "wake"}
AtEvent == {"wait", "futex", "asleep", "return", "done"}
JoinLabels == {"idle", "start"} \cup Starting \cup Joining \cup AtEvent

(* Where a task's thread and its body are when the task runs there.        *)
RunsItself(i) ==
  \/ body[i] = "suspended" /\ joinPc[i] = "idle"
  \/ body[i] = "running" /\ joinPc[i] = "body"
  \/ body[i] = "final" /\ joinPc[i] = "final"

(* A task before Main comes to it, ...                                     *)
NotStartedTask(i) ==
  /\ body[i] \in {"null", "initial", "final"} /\ joinPc[i] = "idle"
  /\ m_state[i] <=> body[i] = "final"
  /\ outcome[i] = "empty"

(* ... while Main starts it ...                                            *)
StartingTask(i) ==
  /\ outcome[i] = "empty"
  /\ joinPc[Join!Main] = "body" => body[i] = "running" /\ joinPc[i] = "idle" /\ ~m_state[i]
  /\ joinPc[Join!Main] = "final" => body[i] = "final" /\ joinPc[i] = "idle" /\ ~m_state[i]
  /\ joinPc[Join!Main] = "notify" => body[i] \in {"null", "final"} /\ joinPc[i] \in {"idle", "done"}
  /\ joinPc[Join!Main] = "set_continuation" =>
       /\ ~joinSymmetric
       /\ \/ RunsItself(i) /\ ~m_state[i]
          \/ body[i] = "final" /\ joinPc[i] \in {"idle", "done"} /\ m_state[i]

(* ... and after: its continuation is set until it is run, and has left    *)
(* the task's result.                                                      *)
StartedTask(i) ==
  \/ /\ outcome[i] = "empty"
     /\ \/ RunsItself(i) /\ (m_state[i] <=> ~joinSymmetric)
        \/ body[i] = "final" /\ joinPc[i] = "notify"
  \/ /\ outcome[i] = Join!TaskResult(i)
     /\ outcome[i] # "empty"
     /\ body[i] \in {"null", "final"}
     /\ joinPc[i] \in {"idle", "done"} \cup Joining

JoinTypes ==
  /\ joinSymmetric \in BOOLEAN
  /\ body \in Seq({"null", "initial", "running", "suspended", "final"})
  /\ m_state \in [Join!Tasks -> BOOLEAN]
  /\ m_resultType \in [Join!Tasks -> {"value", "exception", "empty"}]
  /\ outcome \in [Join!Tasks -> {"value", "exception", "empty"}]
  /\ m_awaitingCoroutine \in BOOLEAN
  /\ starting \in 1 .. Len(body) + 1
  /\ waitResult \in {"value", "exception", "empty"}
  /\ m_value \in {0, 1}
  /\ joinPc \in [Join!Threads -> JoinLabels]
  /\ joinPc[Join!Main] # "idle"

JoinTasks ==
  /\ joinPc[Join!Main] \in Starting => starting \in Join!Tasks
  /\ m_awaitingCoroutine <=> joinPc[Join!Main] \in Joining \cup AtEvent
  /\ m_awaitingCoroutine => starting = Len(body) + 1
  /\ \A i \in Join!Tasks :
       /\ m_resultType[i] # "empty" <=> body[i] = "final"
       /\ i > starting \/ (i = starting /\ joinPc[Join!Main] = "start") => NotStartedTask(i)
       /\ i = starting /\ joinPc[Join!Main] \in Starting => StartingTask(i)
       /\ i < starting => StartedTask(i)

(* The tasks that have not left their result, each of which counts.        *)
Pending == {i \in Join!Tasks : outcome[i] = "empty"}
MainsCount == IF m_awaitingCoroutine THEN 0 ELSE 1

(* Who brings the counter to zero goes on, alone, up to the event.         *)
JoinCounts ==
  /\ m_count = Cardinality(Pending) + MainsCount
  /\ \A t, u \in Join!Threads : joinPc[t] \in Joining /\ joinPc[u] \in Joining => t = u
  /\ \A t \in Join!Threads :
       /\ joinPc[t] \in Joining => m_count = 0
       /\ joinPc[t] = "results" => waitResult = "empty"
       /\ joinPc[t] = "set" => waitResult = Join!WhenAllResult
       /\ joinPc[t] \in {"results", "set"} => m_value = 0
  /\ m_count # 0 => waitResult = "empty"
  /\ m_value = 1 => m_count = 0 /\ waitResult = Join!WhenAllResult
  /\ joinPc[Join!Main] \in {"return", "done"} => m_value = 1

JoinInv == JoinTypes /\ JoinTasks /\ JoinCounts

LEMMA JoinCardinality == ASSUME NEW S PROVE Join!Cardinality(S) = Cardinality(S)
  BY DEF Join!Cardinality, Cardinality

(* The tasks do not change while their bodies run.                         *)
LEMMA JoinDomains ==
  ASSUME JoinTypes
  PROVE  /\ Len(body) \in Nat
         /\ Join!Tasks = 1 .. Len(body)
         /\ Join!Threads = 0 .. Len(body)
         /\ Join!Main = 0 /\ Join!Main \notin Join!Tasks
         /\ \A i \in Join!Tasks, s \in {"running", "suspended", "final"} :
              body' = [body EXCEPT ![i] = s] =>
                /\ body' \in Seq({"null", "initial", "running", "suspended", "final"})
                /\ Len(body') = Len(body) /\ Join!Tasks' = Join!Tasks /\ Join!Threads' = Join!Threads
                /\ body'[i] = s
                /\ \A j \in Join!Tasks : j # i => body'[j] = body[j]
         /\ UNCHANGED body => Join!Tasks' = Join!Tasks /\ Join!Threads' = Join!Threads
  <1> USE DEF JoinTypes, Join!Tasks, Join!Threads, Join!Main
  <1>1. Len(body) \in Nat /\ DOMAIN body = 1 .. Len(body)
    OBVIOUS
  <1>2. {0} \cup 1 .. Len(body) = 0 .. Len(body)
    BY <1>1
  <1>3. ASSUME NEW i \in Join!Tasks, NEW s \in {"running", "suspended", "final"}, body' = [body EXCEPT ![i] = s]
        PROVE  /\ body' \in Seq({"null", "initial", "running", "suspended", "final"})
               /\ Len(body') = Len(body) /\ DOMAIN body' = DOMAIN body
               /\ body'[i] = s
               /\ \A j \in Join!Tasks : j # i => body'[j] = body[j]
    BY <1>1, <1>3, ExceptSeq
  <1>4. QED BY <1>1, <1>2, <1>3

(* How the set of tasks without result, and so the counter, changes.       *)
LEMMA PendingCounts ==
  ASSUME JoinTypes
  PROVE  /\ IsFiniteSet(Pending)
         /\ Cardinality(Pending) \in 0 .. Len(body)
         /\ Cardinality(Pending) = 0 <=> \A i \in Join!Tasks : outcome[i] # "empty"
         /\ \A i \in Pending : Cardinality(Pending \ {i}) = Cardinality(Pending) - 1
         /\ Pending = Join!Tasks => Cardinality(Pending) = Len(body)
  <1>1. IsFiniteSet(Join!Tasks) /\ Cardinality(Join!Tasks) = Len(body) /\ Len(body) \in Nat
    BY JoinDomains, FS_Interval
  <1>2. IsFiniteSet(Pending) /\ Cardinality(Pending) \in Nat /\ Cardinality(Pending) <= Len(body)
    BY <1>1, FS_Subset, FS_CardinalityType DEF Pending
  <1>3. Cardinality(Pending) = 0 <=> Pending = {}
    BY <1>2, FS_EmptySet
  <1>4. \A i \in Pending : Cardinality(Pending \ {i}) = Cardinality(Pending) - 1
    BY <1>2, FS_RemoveElement
  <1>5. Pending = {} <=> \A i \in Join!Tasks : outcome[i] # "empty"
    BY DEF Pending
  <1>6. QED BY <1>1, <1>2, <1>3, <1>4, <1>5

LEMMA JoinInit == Join!Init => JoinInv
  <1> SUFFICES ASSUME Join!Init PROVE JoinInv
    OBVIOUS
  <1> USE DEF Join!Init, Join!InitialCount
  <1>1. PICK n \in 0 .. MaxTasks : body \in [1 .. n -> {"null", "initial", "final"}]
    OBVIOUS
  <1>2. n \in Nat /\ body \in [1 .. n -> {"null", "initial", "running", "suspended", "final"}]
    BY <1>1, TasksAssumption
  <1>3. body \in Seq({"null", "initial", "running", "suspended", "final"})
    BY <1>2
  <1>4. JoinTypes
    <2>1. m_state \in [Join!Tasks -> BOOLEAN]
      OBVIOUS
    <2>2. /\ m_resultType \in [Join!Tasks -> {"value", "exception", "empty"}]
          /\ outcome \in [Join!Tasks -> {"value", "exception", "empty"}]
      BY DEF Join!Results
    <2>3. Len(body) \in Nat /\ starting \in 1 .. Len(body) + 1
      BY <1>3
    <2>4. /\ joinPc \in [Join!Threads -> JoinLabels]
          /\ joinPc[Join!Main] = "start"
      BY DEF Join!Threads, JoinLabels
    <2>5. QED BY <1>3, <2>1, <2>2, <2>3, <2>4 DEF JoinTypes
  <1>5. JoinTasks
    <2>1. Join!Tasks = 1 .. n
      BY <1>1 DEF Join!Tasks
    <2>2. ASSUME NEW i \in Join!Tasks
          PROVE  NotStartedTask(i) /\ (m_resultType[i] # "empty" <=> body[i] = "final")
      <3>1. body[i] \in {"null", "initial", "final"} /\ joinPc[i] = "idle"
        BY <1>1, <1>4, <2>1, JoinDomains
      <3>2. m_state[i] <=> body[i] = "final"
        OBVIOUS
      <3>3. QED BY <3>1, <3>2 DEF NotStartedTask
    <2>3. joinPc[Join!Main] = "start" /\ ~m_awaitingCoroutine /\ starting = 1
      BY DEF Join!Threads
    <2>4. QED BY <2>1, <2>2, <2>3, SMTT(40) DEF JoinTasks, Starting, Joining, AtEvent
  <1>6. Pending = Join!Tasks
    BY DEF Pending
  <1>7. JoinCounts
    BY <1>4, <1>6, JoinDomains, PendingCounts DEF JoinCounts, MainsCount, Joining
  <1>8. QED BY <1>4, <1>5, <1>7 DEF JoinInv

(* Main on and off the event.                                              *)
LEMMA JoinWaits ==
  ASSUME JoinInv, Join!LoadValue \/ Join!FutexWait \/ Join!SpuriousWakeUp \/ Join!ReturnResult
  PROVE  JoinInv'
  <1> USE DEF JoinInv, Starting, Joining, AtEvent
  <1>1. /\ UNCHANGED <<joinSymmetric, body, m_state, m_resultType, outcome, m_count, m_awaitingCoroutine, starting,
                       waitResult, m_value>>
        /\ joinPc[Join!Main] \in AtEvent /\ joinPc'[Join!Main] \in AtEvent
        /\ joinPc'[Join!Main] \in {"return", "done"} => m_value = 1
        /\ \A i \in Join!Threads : i # Join!Main => joinPc'[i] = joinPc[i]
        /\ joinPc' \in [Join!Threads -> JoinLabels]
    BY JoinDomains DEF Join!LoadValue, Join!FutexWait, Join!SpuriousWakeUp, Join!ReturnResult, Join!Goto, JoinTypes, JoinCounts, JoinLabels
  <1>2. JoinTypes'
    BY <1>1, JoinDomains DEF JoinTypes
  <1>3. JoinTasks'
    BY <1>1, JoinDomains DEF JoinTasks, StartedTask, RunsItself, Join!TaskResult
  <1>4. JoinCounts'
    BY <1>1, JoinDomains DEF JoinCounts, Pending, MainsCount, Join!WhenAllResult
  <1>5. QED BY <1>2, <1>3, <1>4

LEMMA JoinStarts ==
  ASSUME JoinInv, Join!StartTask
  PROVE  JoinInv'
  <1> USE DEF JoinInv, Starting, Joining, AtEvent
  <1>1. /\ UNCHANGED <<joinSymmetric, m_state, m_resultType, outcome, m_count, m_awaitingCoroutine, starting,
                       waitResult, m_value>>
        /\ starting \in Join!Tasks /\ joinPc[Join!Main] = "start"
        /\ \/ body[starting] \in {"null", "final"} /\ joinPc'[Join!Main] = "notify" /\ UNCHANGED body
           \/ /\ body[starting] = "initial" /\ joinPc'[Join!Main] = "body"
              /\ body' = [body EXCEPT ![starting] = "running"]
        /\ \A i \in Join!Threads : i # Join!Main => joinPc'[i] = joinPc[i]
        /\ joinPc' \in [Join!Threads -> JoinLabels]
    BY JoinDomains DEF Join!StartTask, Join!Goto, JoinTypes, JoinLabels
  <1>2. /\ Join!Tasks' = Join!Tasks /\ Join!Threads' = Join!Threads /\ Len(body') = Len(body)
        /\ \A j \in Join!Tasks : j # starting => body'[j] = body[j]
        /\ joinPc'[Join!Main] = "notify" => body'[starting] \in {"null", "final"}
        /\ joinPc'[Join!Main] = "body" => body'[starting] = "running"
        /\ joinPc'[Join!Main] \in {"notify", "body"}
        /\ body' \in Seq({"null", "initial", "running", "suspended", "final"})
        /\ body'[starting] = "final" <=> body[starting] = "final"
    BY <1>1, JoinDomains DEF JoinTypes
  <1>3. JoinTypes'
    BY <1>1, <1>2, JoinDomains DEF JoinTypes
  <1>4. JoinTasks'
    BY <1>1, <1>2, JoinDomains DEF JoinTasks, NotStartedTask, StartingTask, StartedTask, RunsItself, Join!TaskResult
  <1>5. JoinCounts'
    BY <1>1, <1>2, JoinDomains DEF JoinCounts, Pending, MainsCount, Join!WhenAllResult
  <1>6. QED BY <1>3, <1>4, <1>5

(* The body suspends in the call that has started it, ...                  *)
LEMMA JoinSuspends ==
  ASSUME JoinInv, Join!BodySuspends
  PROVE  JoinInv'
  <1> USE DEF JoinInv, Starting, Joining, AtEvent
  <1>1. /\ UNCHANGED <<joinSymmetric, m_state, m_resultType, outcome, m_count, m_awaitingCoroutine, waitResult, m_value>>
        /\ starting \in Join!Tasks /\ joinPc[Join!Main] = "body"
        /\ body' = [body EXCEPT ![starting] = "suspended"]
        /\ \/ joinSymmetric /\ joinPc'[Join!Main] = "start" /\ starting' = starting + 1
           \/ ~joinSymmetric /\ joinPc'[Join!Main] = "set_continuation" /\ UNCHANGED starting
        /\ \A i \in Join!Threads : i # Join!Main => joinPc'[i] = joinPc[i]
        /\ joinPc' \in [Join!Threads -> JoinLabels]
    BY JoinDomains DEF Join!BodySuspends, Join!TaskLeft, Join!Goto, JoinTypes, JoinLabels, JoinTasks
  <1>2. /\ Join!Tasks' = Join!Tasks /\ Join!Threads' = Join!Threads /\ Len(body') = Len(body)
        /\ \A j \in Join!Tasks : j # starting => body'[j] = body[j]
        /\ body'[starting] = "suspended"
        /\ body' \in Seq({"null", "initial", "running", "suspended", "final"})
    BY <1>1, JoinDomains DEF JoinTypes
  <1>3. JoinTypes'
    BY <1>1, <1>2, JoinDomains DEF JoinTypes
  <1>4. JoinTasks'
    BY <1>1, <1>2, JoinDomains DEF JoinTasks, NotStartedTask, StartingTask, StartedTask, RunsItself, Join!TaskResult
  <1>5. JoinCounts'
    BY <1>1, <1>2, JoinDomains DEF JoinCounts, Pending, MainsCount, Join!WhenAllResult
  <1>6. QED BY <1>3, <1>4, <1>5

(* ... and goes on in its own thread.                                      *)
LEMMA JoinResumes ==
  ASSUME JoinInv, NEW t \in Join!Tasks, Join!WorkerResumesBody(t)
  PROVE  JoinInv'
  <1> USE DEF JoinInv, Starting, Joining, AtEvent
  <1>1. /\ UNCHANGED <<joinSymmetric, m_state, m_resultType, outcome, m_count, m_awaitingCoroutine, starting,
                       waitResult, m_value>>
        /\ body[t] = "suspended" /\ joinPc[t] = "idle" /\ joinPc'[t] = "body" /\ t # Join!Main
        /\ body' = [body EXCEPT ![t] = "running"]
        /\ \A i \in Join!Threads : i # t => joinPc'[i] = joinPc[i]
        /\ joinPc' \in [Join!Threads -> JoinLabels]
    BY JoinDomains DEF Join!WorkerResumesBody, Join!Goto, JoinTypes, JoinLabels
  <1>2. /\ Join!Tasks' = Join!Tasks /\ Join!Threads' = Join!Threads /\ Len(body') = Len(body)
        /\ \A j \in Join!Tasks : j # t => body'[j] = body[j]
        /\ body'[t] = "running"
        /\ body' \in Seq({"null", "initial", "running", "suspended", "final"})
    BY <1>1, JoinDomains DEF JoinTypes
  <1>3. JoinTypes'
    BY <1>1, <1>2, JoinDomains DEF JoinTypes
  <1>4. JoinTasks'
    BY <1>1, <1>2, JoinDomains DEF JoinTasks, NotStartedTask, StartingTask, StartedTask, RunsItself, Join!TaskResult
  <1>5. JoinCounts'
    BY <1>1, <1>2, JoinDomains DEF JoinCounts, Pending, MainsCount, Join!WhenAllResult
  <1>6. QED BY <1>3, <1>4, <1>5

(* The task that a thread works for.                                       *)
LEMMA JoinTaskOf ==
  ASSUME NEW t
  PROVE  /\ t = Join!Main => Join!TaskOf(t) = starting
         /\ t # Join!Main => Join!TaskOf(t) = t
  BY DEF Join!TaskOf

LEMMA JoinCompletes ==
  ASSUME JoinInv, NEW t \in Join!Threads, Join!BodyCompletes(t)
  PROVE  JoinInv'
  <1> USE DEF JoinInv, Starting, Joining, AtEvent
  <1> DEFINE i == Join!TaskOf(t)
  <1>1. i \in Join!Tasks /\ joinPc[t] = "body" /\ body[i] = "running" /\ outcome[i] = "empty"
    <2>1. CASE t = Join!Main
      BY <2>1, JoinTaskOf DEF Join!BodyCompletes, JoinTasks, StartingTask
    <2>2. CASE t \in Join!Tasks
      <3>1. i = t /\ joinPc[t] = "body"
        BY <2>2, JoinTaskOf, JoinDomains DEF Join!BodyCompletes
      <3>2. starting \in Int /\ t \in 1 .. Len(body) /\ joinPc[Join!Main] \in JoinLabels \ {"idle"}
        BY <2>2, JoinDomains DEF JoinTypes, Join!Threads
      <3>3. CASE t < starting
        BY <2>2, <3>1, <3>2, <3>3 DEF JoinTasks, StartedTask, RunsItself
      <3>4. CASE t > starting
        BY <2>2, <3>1, <3>2, <3>4 DEF JoinTasks, NotStartedTask
      <3>5. CASE t = starting
        <4>1. ~m_awaitingCoroutine
          BY <3>2, <3>5, JoinDomains DEF JoinTasks
        <4>2. joinPc[Join!Main] \in {"start"} \cup Starting
          BY <3>2, <4>1 DEF JoinTasks, JoinLabels
        <4>3. QED BY <2>2, <3>1, <3>5, <4>2 DEF JoinTasks, NotStartedTask, StartingTask, RunsItself
      <3>6. QED BY <3>2, <3>3, <3>4, <3>5
    <2>3. QED BY <2>1, <2>2 DEF Join!Threads
  <1>2. /\ UNCHANGED <<joinSymmetric, m_state, outcome, m_count, m_awaitingCoroutine, starting, waitResult, m_value>>
        /\ body' = [body EXCEPT ![i] = "final"]
        /\ joinPc'[t] = "final"
        /\ \A u \in Join!Threads : u # t => joinPc'[u] = joinPc[u]
        /\ joinPc' \in [Join!Threads -> JoinLabels]
        /\ m_resultType' \in [Join!Tasks -> {"value", "exception", "empty"}] /\ m_resultType'[i] # "empty"
        /\ \A j \in Join!Tasks : j # i => m_resultType'[j] = m_resultType[j]
    BY <1>1, JoinDomains DEF Join!BodyCompletes, Join!Goto, Join!Results, JoinTypes, JoinLabels
  <1>3. (t = Join!Main /\ i = starting) \/ (t # Join!Main /\ i = t)
    BY JoinTaskOf
  <1> HIDE DEF i
  <1>4. /\ Join!Tasks' = Join!Tasks /\ Join!Threads' = Join!Threads /\ Len(body') = Len(body)
        /\ \A j \in Join!Tasks : j # i => body'[j] = body[j]
        /\ body'[i] = "final"
        /\ body' \in Seq({"null", "initial", "running", "suspended", "final"})
    BY <1>1, <1>2, JoinDomains DEF JoinTypes
  <1>5. JoinTypes'
    BY <1>2, <1>4, JoinDomains DEF JoinTypes
  <1>6. JoinTasks'
    BY <1>1, <1>2, <1>3, <1>4, JoinDomains, SMTT(40) DEF JoinTasks, NotStartedTask, StartingTask, StartedTask, RunsItself, Join!TaskResult
  <1>7. JoinCounts'
    BY <1>1, <1>2, <1>3, <1>4, JoinDomains, SMTT(40) DEF JoinCounts, Pending, MainsCount, Join!WhenAllResult
  <1>8. QED BY <1>5, <1>6, <1>7

(* The end of the body: the continuation is run by this thread, or left    *)
(* to the one that is about to set it.                                     *)
LEMMA JoinFinal ==
  ASSUME JoinInv, NEW t \in Join!Threads, Join!FinalSuspend(t)
  PROVE  JoinInv'
  <1> USE DEF JoinInv, Starting, Joining, AtEvent
  <1> DEFINE i == Join!TaskOf(t)
  <1>1. joinPc[t] = "final" /\ (t \in Join!Tasks \/ t = Join!Main)
    BY DEF Join!FinalSuspend, Join!Threads
  <1>2. (t = Join!Main /\ i = starting) \/ (t # Join!Main /\ i = t)
    BY JoinTaskOf
  <1>3. i \in Join!Tasks
    BY <1>1, <1>2 DEF JoinTasks
  <1> HIDE DEF i
  <1>4. /\ UNCHANGED <<joinSymmetric, body, m_resultType, outcome, m_count, m_awaitingCoroutine, starting, waitResult, m_value>>
        /\ m_state' \in [Join!Tasks -> BOOLEAN] /\ m_state'[i]
        /\ \A j \in Join!Tasks : j # i => (m_state'[j] <=> m_state[j])
    BY <1>3, JoinDomains DEF Join!FinalSuspend, JoinTypes, i
  <1>5. /\ joinSymmetric \/ m_state[i] => joinPc'[t] = "notify"
        /\ t = Join!Main /\ ~joinSymmetric /\ ~m_state[i] => joinPc'[t] = "set_continuation"
        /\ t # Join!Main /\ ~joinSymmetric /\ ~m_state[i] => joinPc'[t] = "done"
        /\ \A u \in Join!Threads : u # t => joinPc'[u] = joinPc[u]
        /\ joinPc' \in [Join!Threads -> JoinLabels]
    BY <1>3, JoinDomains DEF Join!FinalSuspend, Join!Goto, JoinTypes, JoinLabels, i
  <1>6. JoinTypes'
    BY <1>1, <1>4, <1>5, JoinDomains DEF JoinTypes
  <1>7. JoinTasks'
    BY <1>1, <1>2, <1>3, <1>4, <1>5, JoinDomains, SMTT(40)
       DEF JoinTypes, JoinTasks, NotStartedTask, StartingTask, StartedTask, RunsItself, Join!TaskResult
  <1>8. JoinCounts'
    BY <1>1, <1>3, <1>4, <1>5, JoinDomains DEF JoinCounts, Pending, MainsCount, Join!WhenAllResult
  <1>9. QED BY <1>6, <1>7, <1>8

LEMMA JoinSetsContinuation ==
  ASSUME JoinInv, Join!SetContinuation
  PROVE  JoinInv'
  <1> USE DEF JoinInv, Starting, Joining, AtEvent
  <1>1. /\ UNCHANGED <<joinSymmetric, body, m_resultType, outcome, m_count, m_awaitingCoroutine, waitResult, m_value>>
        /\ joinPc[Join!Main] = "set_continuation" /\ starting \in Join!Tasks
    BY DEF Join!SetContinuation, JoinTasks
  <1>2. /\ m_state' \in [Join!Tasks -> BOOLEAN] /\ m_state'[starting]
        /\ \A j \in Join!Tasks : j # starting => (m_state'[j] <=> m_state[j])
    BY <1>1, JoinDomains DEF Join!SetContinuation, JoinTypes
  <1>3. /\ \/ m_state[starting] /\ joinPc'[Join!Main] = "notify" /\ starting' = starting
           \/ ~m_state[starting] /\ joinPc'[Join!Main] = "start" /\ starting' = starting + 1
        /\ \A u \in Join!Threads : u # Join!Main => joinPc'[u] = joinPc[u]
        /\ joinPc' \in [Join!Threads -> JoinLabels]
    BY <1>1, JoinDomains DEF Join!SetContinuation, Join!TaskLeft, Join!Goto, JoinTypes, JoinLabels
  <1>4. JoinTypes'
    BY <1>1, <1>2, <1>3, JoinDomains DEF JoinTypes
  <1>5. JoinTasks'
    BY <1>1, <1>2, <1>3, JoinDomains
       DEF JoinTypes, JoinTasks, NotStartedTask, StartingTask, StartedTask, RunsItself, Join!TaskResult
  <1>6. JoinCounts'
    BY <1>1, <1>3, JoinDomains DEF JoinCounts, Pending, MainsCount, Join!WhenAllResult
  <1>7. QED BY <1>4, <1>5, <1>6

LEMMA JoinTriesAwait ==
  ASSUME JoinInv, Join!TryAwait
  PROVE  JoinInv'
  <1> USE DEF JoinInv, Starting, Joining, AtEvent
  <1>1. /\ UNCHANGED <<joinSymmetric, body, m_state, m_resultType, outcome, starting, waitResult, m_value>>
        /\ joinPc[Join!Main] = "start" /\ ~m_awaitingCoroutine /\ m_awaitingCoroutine' /\ starting = Len(body) + 1
        /\ m_count' = m_count - 1
        /\ joinPc'[Join!Main] = IF m_count > 1 THEN "wait" ELSE "results"
        /\ \A u \in Join!Threads : u # Join!Main => joinPc'[u] = joinPc[u]
        /\ joinPc' \in [Join!Threads -> JoinLabels]
    BY JoinDomains DEF Join!TryAwait, Join!Goto, JoinTypes, JoinTasks, JoinLabels
  <1>2. m_awaitingCoroutine' \in BOOLEAN
    BY DEF Join!TryAwait
  <1>3. JoinTypes'
    BY <1>1, <1>2, JoinDomains DEF JoinTypes
  <1>4. JoinTasks'
    BY <1>1, JoinDomains DEF JoinTasks, StartedTask, RunsItself, Join!TaskResult
  <1>5. Pending' = Pending /\ Join!WhenAllResult' = Join!WhenAllResult /\ Cardinality(Pending) \in Nat
    BY <1>1, JoinDomains, PendingCounts DEF Pending, Join!WhenAllResult
  <1>6. m_count = Cardinality(Pending) + 1 /\ m_value = 0
    BY <1>1, <1>5 DEF JoinCounts, MainsCount, JoinTypes
  <1>7. \A t \in Join!Threads : joinPc[t] \notin Joining
    BY <1>5, <1>6 DEF JoinCounts
  <1>8. JoinCounts'
    BY <1>1, <1>5, <1>6, <1>7, JoinDomains DEF JoinCounts, MainsCount
  <1>9. QED BY <1>3, <1>4, <1>8

(* A task's continuation leaves the result and counts down.                *)
LEMMA JoinNotifies ==
  ASSUME JoinInv, NEW t \in Join!Threads, Join!NotifyAwaitableCompleted(t)
  PROVE  JoinInv'
  <1> USE DEF JoinInv, Starting, Joining, AtEvent
  <1> DEFINE i == Join!TaskOf(t)
  <1>1. joinPc[t] = "notify" /\ (t \in Join!Tasks \/ t = Join!Main)
    BY DEF Join!NotifyAwaitableCompleted, Join!Threads
  <1>2. (t = Join!Main /\ i = starting) \/ (t # Join!Main /\ i = t)
    BY JoinTaskOf
  <1>3. i \in Join!Tasks
    BY <1>1, <1>2 DEF JoinTasks
  <1> HIDE DEF i
  <1>4. /\ outcome[i] = "empty" /\ body[i] \in {"null", "final"}
        /\ t # Join!Main => i < starting
        /\ t = Join!Main => joinPc[i] \in {"idle", "done"} /\ ~m_awaitingCoroutine
    BY <1>1, <1>2, <1>3, JoinDomains, SMTT(40)
       DEF JoinTypes, JoinTasks, NotStartedTask, StartingTask, StartedTask, RunsItself, JoinLabels
  <1>5. /\ UNCHANGED <<joinSymmetric, body, m_state, m_resultType, m_awaitingCoroutine, waitResult, m_value>>
        /\ outcome' = [outcome EXCEPT ![i] = Join!TaskResult(i)]
        /\ m_count' = m_count - 1
    BY DEF Join!NotifyAwaitableCompleted, Join!KeepResult, i
  <1>6. Join!TaskResult(i) \in {"value", "exception"}
    BY <1>3, <1>4 DEF Join!TaskResult, JoinTypes, JoinTasks
  <1>7. /\ outcome' \in [Join!Tasks -> {"value", "exception", "empty"}]
        /\ outcome'[i] = Join!TaskResult(i) /\ outcome'[i] # "empty"
        /\ \A j \in Join!Tasks : j # i => outcome'[j] = outcome[j]
    BY <1>3, <1>5, <1>6 DEF JoinTypes
  <1>8. /\ Cardinality(Pending) \in Nat \ {0} /\ Pending' = Pending \ {i}
        /\ Cardinality(Pending') = Cardinality(Pending) - 1
    <2>1. i \in Pending /\ Pending' = Pending \ {i}
      BY <1>3, <1>4, <1>5, <1>7, JoinDomains DEF Pending
    <2>2. QED BY <1>3, <1>4, <2>1, PendingCounts
  <1>9. /\ m_count \in Nat \ {0} /\ m_value = 0 /\ waitResult = "empty"
        /\ m_awaitingCoroutine \/ m_count # 1
        /\ \A u \in Join!Threads : joinPc[u] \notin Joining
    BY <1>8 DEF JoinCounts, MainsCount, JoinTypes
  <1>10. /\ \/ m_count = 1 /\ joinPc'[t] = "results" /\ starting' = starting /\ t # Join!Main
            \/ m_count # 1 /\ t = Join!Main /\ joinPc'[t] = "start" /\ starting' = starting + 1
            \/ m_count # 1 /\ t # Join!Main /\ joinPc'[t] = "done" /\ starting' = starting
         /\ \A u \in Join!Threads : u # t => joinPc'[u] = joinPc[u]
         /\ joinPc' \in [Join!Threads -> JoinLabels]
    BY <1>4, <1>9, JoinDomains DEF Join!NotifyAwaitableCompleted, Join!TaskLeft, Join!Goto, JoinTypes, JoinLabels
  <1>11. JoinTypes'
    BY <1>1, <1>2, <1>3, <1>5, <1>7, <1>10, JoinDomains DEF JoinTypes
  <1>12. JoinTasks'
    BY <1>1, <1>2, <1>3, <1>4, <1>5, <1>7, <1>10, JoinDomains
       DEF JoinTypes, JoinTasks, NotStartedTask, StartingTask, StartedTask, RunsItself, Join!TaskResult
  <1>13. JoinCounts'
    <2>1. Join!Threads' = Join!Threads /\ Join!Main \in Join!Threads /\ MainsCount' = MainsCount /\ MainsCount \in {0, 1}
      BY <1>5, JoinDomains DEF MainsCount
    <2>2. m_count' = Cardinality(Pending') + MainsCount' /\ (m_count = 1 => m_count' = 0) /\ waitResult' = "empty"
      BY <1>5, <1>8, <1>9, <2>1 DEF JoinCounts
    <2>3. \A u \in Join!Threads : joinPc'[u] \in Joining => u = t /\ joinPc'[t] = "results" /\ m_count = 1
      BY <1>9, <1>10
    <2>4. joinPc'[Join!Main] \in {"return", "done"} => joinPc[Join!Main] \in {"return", "done"}
      BY <1>10, <2>1
    <2>5. QED BY <1>5, <1>9, <2>1, <2>2, <2>3, <2>4 DEF JoinCounts
  <1>14. QED BY <1>11, <1>12, <1>13

(* Who has brought the counter to zero: the results, the event, the futex. *)
LEMMA JoinSignals ==
  ASSUME JoinInv, NEW t \in Join!Threads, Join!FetchResults(t) \/ Join!SetEvent(t) \/ Join!FutexWake(t)
  PROVE  JoinInv'
  <1> USE DEF JoinInv, Starting, Joining, AtEvent
  <1>1. /\ UNCHANGED <<joinSymmetric, body, m_state, m_resultType, outcome, m_count, m_awaitingCoroutine, starting>>
        /\ joinPc[t] \in Joining /\ m_count = 0
        /\ \A u \in Join!Threads : u # t => joinPc[u] \notin Joining
    BY DEF Join!FetchResults, Join!SetEvent, Join!FutexWake, JoinCounts
  <1>2. /\ \A i \in Join!Tasks : outcome[i] # "empty"
        /\ m_awaitingCoroutine
    BY <1>1, PendingCounts DEF JoinCounts, MainsCount
  <1>3. /\ Pending' = Pending /\ Join!Tasks' = Join!Tasks /\ Join!Threads' = Join!Threads /\ MainsCount' = MainsCount
        /\ Join!WhenAllResult' = Join!WhenAllResult /\ Join!WhenAllResult \in {"value", "exception"}
    BY <1>1, JoinDomains DEF Pending, Join!WhenAllResult, MainsCount
  <1>4. CASE Join!FetchResults(t) \/ Join!SetEvent(t)
    <2>1. /\ \/ joinPc[t] = "results" /\ joinPc'[t] = "set" /\ waitResult' = Join!WhenAllResult /\ UNCHANGED m_value
             \/ joinPc[t] = "set" /\ joinPc'[t] = "wake" /\ m_value' = 1 /\ UNCHANGED waitResult
          /\ \A u \in Join!Threads : u # t => joinPc'[u] = joinPc[u]
          /\ joinPc' \in [Join!Threads -> JoinLabels]
      BY <1>4 DEF Join!FetchResults, Join!SetEvent, Join!Goto, JoinTypes, JoinLabels
    <2>2. JoinTypes'
      BY <1>1, <1>3, <2>1, JoinDomains DEF JoinTypes
    <2>3. JoinTasks'
      <3>1. joinPc'[Join!Main] \in Joining \cup AtEvent
        BY <1>1, <1>2, <2>1, JoinDomains DEF JoinTasks
      <3>2. \A i \in Join!Tasks : joinPc'[i] = joinPc[i] \/ (joinPc[i] \in Joining /\ joinPc'[i] \in Joining)
        BY <2>1, JoinDomains
      <3>3. starting = Len(body) + 1 /\ \A i \in Join!Tasks : StartedTask(i) /\ i < starting
        BY <1>2, JoinDomains DEF JoinTasks
      <3>4. \A i \in Join!Tasks : StartedTask(i)'
        BY <1>1, <1>2, <3>2, <3>3 DEF StartedTask, Join!TaskResult
      <3>5. QED BY <1>1, <1>2, <1>3, <3>1, <3>3, <3>4, JoinDomains DEF JoinTasks
    <2>4. JoinCounts'
      BY <1>1, <1>3, <2>1, JoinDomains DEF JoinCounts
    <2>5. QED BY <2>2, <2>3, <2>4
  <1>5. CASE Join!FutexWake(t)
    <2>1. UNCHANGED <<waitResult, m_value>> /\ joinPc[t] = "wake"
      BY <1>5 DEF Join!FutexWake
    <2>2. ASSUME NEW u \in Join!Threads
          PROVE  /\ u = Join!Main => joinPc'[u] = "wait" \/ (joinPc'[u] = joinPc[u] /\ joinPc[u] # "wake")
                 /\ u # Join!Main => joinPc'[u] = IF u = t THEN "done" ELSE joinPc[u]
      <3>1. joinPc'[u] = CASE u = Join!Main /\ (t = Join!Main \/ joinPc[Join!Main] = "asleep") -> "wait"
                           [] u = t /\ t # Join!Main -> "done"
                           [] OTHER -> joinPc[u]
        BY <1>5 DEF Join!FutexWake
      <3>2. QED BY <1>1, <2>1, <3>1
    <2>3. joinPc' \in [Join!Threads -> JoinLabels]
      <3>1. joinPc' = [u \in Join!Threads |-> joinPc'[u]]
        BY <1>5 DEF Join!FutexWake
      <3>2. \A u \in Join!Threads : joinPc'[u] \in JoinLabels
        BY <2>2 DEF JoinTypes, JoinLabels
      <3>3. QED BY <3>1, <3>2
    <2>4. JoinTypes'
      BY <1>1, <1>3, <2>1, <2>2, <2>3, JoinDomains DEF JoinTypes
    <2>5. JoinTasks'
      BY <1>1, <1>2, <1>3, <2>1, <2>2, JoinDomains, SMTT(40) DEF JoinTypes, JoinTasks, StartedTask, RunsItself, Join!TaskResult
    <2>6. JoinCounts'
      BY <1>1, <1>3, <2>1, <2>2, JoinDomains DEF JoinCounts
    <2>7. QED BY <2>4, <2>5, <2>6
  <1>6. QED BY <1>4, <1>5

LEMMA JoinStep == JoinInv /\ [Join!Next]_Join!vars => JoinInv'
  <1> SUFFICES ASSUME JoinInv, [Join!Next]_Join!vars PROVE JoinInv'
    OBVIOUS
  <1>1. CASE UNCHANGED Join!vars
    BY <1>1, SMTT(40) DEF Join!vars, JoinInv, JoinTypes, JoinTasks, JoinCounts, NotStartedTask, StartingTask, StartedTask,
       RunsItself, Pending, MainsCount, Join!Tasks, Join!Threads, Join!TaskResult, Join!WhenAllResult
  <1>2. CASE Join!Next
    BY <1>2, JoinWaits, JoinStarts, JoinSuspends, JoinResumes, JoinCompletes, JoinFinal, JoinSetsContinuation,
       JoinTriesAwait, JoinNotifies, JoinSignals
       DEF Join!Next, Join!ThreadStep, Join!MainStep
  <1>3. QED BY <1>1, <1>2

LEMMA JoinInvSuffices == JoinInv => ForkJoinSafe
  <1> SUFFICES ASSUME JoinInv PROVE ForkJoinSafe
    OBVIOUS
  <1> USE DEF JoinInv
  <1>1. Cardinality(Pending) \in 0 .. Len(body) /\ Len(body) \in Nat
    BY PendingCounts, JoinDomains
  <1>2. m_count \in 0 .. Len(body) + 1
    BY <1>1 DEF JoinCounts, MainsCount
  <1>3. m_count = 0 => m_awaitingCoroutine /\ \A i \in Join!Tasks : outcome[i] # "empty"
    BY <1>1, PendingCounts DEF JoinCounts, MainsCount
  <1>4. Join!TypeOK
    <2>1. /\ \A i \in Join!Tasks : body[i] \in {"null", "initial", "running", "suspended", "final"}
          /\ \A i \in Join!Tasks : m_state[i] \in BOOLEAN
      BY JoinDomains DEF JoinTypes
    <2>2. QED BY <1>2, <2>1 DEF JoinTypes, Join!TypeOK, Join!Results, JoinLabels, Starting, Joining, AtEvent
  <1>5. Join!JoinedOnce
    <2>1. Cardinality({t \in Join!Threads : joinPc[t] \in {"results", "set", "wake"}}) <= 1
      BY AtMostOne DEF JoinCounts, Joining
    <2>2. ASSUME NEW t \in Join!Threads, joinPc[t] = "results"
          PROVE  /\ m_awaitingCoroutine /\ waitResult = "empty"
                 /\ \A i \in Join!Tasks : outcome[i] # "empty"
                 /\ joinPc[Join!Main] \notin {"start", "body", "final", "set_continuation", "notify"}
      BY <1>3, <2>2 DEF JoinCounts, JoinTasks, Joining, AtEvent
    <2>3. QED BY <2>1, <2>2, JoinCardinality DEF Join!JoinedOnce
  <1>6. Join!ContinuationRunsOnce
    <2> SUFFICES ASSUME NEW i \in Join!Tasks
                 PROVE  LET there == {t \in Join!Threads :
                                        Join!TaskOf(t) = i /\ joinPc[t] \in {"notify", "set_continuation"}}
                        IN  /\ Cardinality({t \in there : joinPc[t] = "notify"}) <= 1
                            /\ (\E t \in there : joinPc[t] = "notify") => body[i] \in {"null", "final"} /\ outcome[i] = "empty"
      BY JoinCardinality DEF Join!ContinuationRunsOnce
    <2>1. ASSUME NEW t \in Join!Threads, Join!TaskOf(t) = i, joinPc[t] = "notify"
          PROVE  /\ body[i] \in {"null", "final"} /\ outcome[i] = "empty"
                 /\ IF t = Join!Main THEN i = starting /\ joinPc[i] # "notify" ELSE i = t
      <3>1. CASE t = Join!Main
        <4>1. i = starting
          BY <2>1, <3>1, JoinTaskOf
        <4>2. QED BY <2>1, <3>1, <4>1 DEF JoinTasks, StartingTask, Starting
      <3>2. CASE t # Join!Main
        <4>1. i = t /\ joinPc[Join!Main] \in JoinLabels \ {"idle"}
          BY <2>1, <3>2, JoinTaskOf, JoinDomains DEF JoinTypes
        <4>2. StartedTask(i) => body[i] \in {"null", "final"} /\ outcome[i] = "empty"
          BY <2>1, <4>1 DEF StartedTask, RunsItself, Joining
        <4>3. ~NotStartedTask(i) /\ (joinPc[Join!Main] \in Starting => ~StartingTask(i))
          BY <2>1, <4>1 DEF NotStartedTask, StartingTask, RunsItself, Starting
        <4>4. i < starting
          BY <4>1, <4>3, JoinDomains DEF JoinTypes, JoinTasks, JoinLabels
        <4>5. QED BY <3>2, <4>1, <4>2, <4>4 DEF JoinTasks
      <3>3. QED BY <3>1, <3>2
    <2> DEFINE notifying == {t \in Join!Threads : Join!TaskOf(t) = i /\ joinPc[t] = "notify"}
    <2>2. \A t, u \in notifying : t = u
      BY <2>1
    <2>3. Cardinality(notifying) <= 1
      BY <2>2, AtMostOne
    <2>4. {t \in {u \in Join!Threads : Join!TaskOf(u) = i /\ joinPc[u] \in {"notify", "set_continuation"}} :
             joinPc[t] = "notify"} = notifying
      OBVIOUS
    <2>5. QED BY <2>1, <2>3, <2>4
  <1>7. Join!NothingRunsAfterReturn
    <2> SUFFICES ASSUME joinPc[Join!Main] \in {"return", "done"}
                 PROVE  /\ \A t \in Join!Tasks : joinPc[t] \in {"idle", "wake", "done"} /\ body[t] \in {"null", "final"}
                        /\ waitResult = IF \E i \in Join!Tasks : body[i] = "null" \/ m_resultType[i] = "exception"
                                          THEN "exception" ELSE "value"
      BY DEF Join!NothingRunsAfterReturn
    <2>1. m_value = 1 /\ m_count = 0 /\ waitResult = Join!WhenAllResult /\ starting = Len(body) + 1
      BY <1>3 DEF JoinCounts, JoinTasks
    <2>2. ASSUME NEW i \in Join!Tasks
          PROVE  /\ outcome[i] = Join!TaskResult(i) /\ body[i] \in {"null", "final"}
                 /\ joinPc[i] \in {"idle", "wake", "done"}
      <3>1. StartedTask(i)
        BY <2>1, JoinDomains DEF JoinTasks
      <3>2. joinPc[i] \notin {"results", "set"}
        BY <2>1, JoinDomains DEF JoinCounts
      <3>3. QED BY <1>3, <2>1, <3>1, <3>2 DEF StartedTask, Joining
    <2>3. ASSUME NEW i \in Join!Tasks
          PROVE  outcome[i] = "exception" <=> body[i] = "null" \/ m_resultType[i] = "exception"
      BY <2>2 DEF Join!TaskResult, JoinTasks
    <2>4. QED BY <2>1, <2>2, <2>3 DEF Join!WhenAllResult
  <1>8. QED BY <1>4, <1>5, <1>6, <1>7 DEF ForkJoinSafe

(* Whatever the tasks do, in the call that starts them or in threads of    *)
(* their own, and with or without symmetric transfer: one thread resumes   *)
(* the coroutine that awaits them all, after the last one, each task's     *)
(* continuation runs once, and sync_wait() returns when nobody is left in  *)
(* what it destroys.                                                       *)
THEOREM ForkJoinIsSafe == MCSpec => []ForkJoinSafe
  <1>1. MCInit => JoinInv
    BY JoinInit DEF MCInit
  <1>2. [MCNext]_<<chosen, vars, taskVars, joinVars, generatorVars>> => [Join!Next]_Join!vars
    BY DEF MCNext, joinVars, Join!vars
  <1>3. QED BY <1>1, <1>2, JoinStep, JoinInvSuffices, PTL DEF MCSpec

-----------------------------------------------------------------------------
(* async_generator                                                         *)

BodyRuns == {"running", "elsewhere"}
BodyYields == {"yield", "suspend_first"}
ConsumerLooks == {"active", "elsewhere"}

(* Where producer and consumer can be together, for each value of m_state  *)
(* or, with symmetric transfer, without it.                                *)
StreamControl ==
  /\ symmetric =>
       /\ nested = "nobody"
       /\ \/ producer \in BodyRuns /\ consumer = "suspended"
          \/ producer = "initial" /\ consumer \in ConsumerLooks
          \/ producer = "suspended" /\ consumer \in ConsumerLooks \cup {"ended", "resumed"}
          \/ producer = "destroyed" /\ consumer = "destroyed"
  /\ ~symmetric =>
       \/ /\ streamState = "VNRCA"
          /\ producer \in BodyRuns \cup BodyYields
          /\ \/ nested = "nobody" /\ consumer \in {"reload", "made", "suspend"}
             \/ nested = "producer" /\ consumer = "resuming" /\ producer # "elsewhere"
          /\ consumer = "made" => seenState = "VNRCA"
       \/ /\ streamState = "VNRCS"
          /\ nested = "nobody" /\ consumer = "suspended"
          /\ producer \in BodyRuns \cup BodyYields \cup {"reload", "suspend"}
       \/ /\ streamState = "VRPA"
          /\ \/ /\ nested = "nobody" /\ producer \in {"reload", "suspend"}
                /\ consumer \in ConsumerLooks \cup {"made", "ended"}
             \/ /\ nested = "consumer" /\ producer = "resuming"
                /\ consumer \in {"active", "made", "ended", "resumed"}
          /\ consumer = "made" => seenState = "VRPA"
       \/ /\ streamState = "VRPS"
          /\ nested = "nobody"
          /\ \/ producer = "initial" /\ consumer \in ConsumerLooks
             \/ /\ producer = "suspended"
                /\ consumer \in ConsumerLooks \cup {"reload", "made", "suspend", "resumed", "ended"}
       \/ /\ streamState = "cancelled"
          /\ nested = "nobody" /\ consumer = "destroyed"
          /\ producer \in BodyRuns \cup BodyYields \cup {"reload", "suspend", "destroyed"}

(* The consumer has not taken the value yet, or the end of the sequence.   *)
ValueIsThere ==
  \/ producer \in BodyYields
  \/ consumer = "resumed"
  \/ producer = "suspended" /\ consumer \in {"reload", "suspend"}
  \/ producer = "suspended" /\ consumer = "made" /\ seenState # "VRPA"

ValueIsTaken == consumer \in ConsumerLooks \/ (consumer = "made" /\ seenState = "VRPA")

StreamNumbers ==
  /\ producer \in {"initial"} \cup BodyRuns => yielded = received
  /\ producer \in {"reload", "suspend"} /\ consumer = "suspended" => yielded = received
  /\ ValueIsTaken => m_currentValue = received /\ yielded = received
  /\ ValueIsThere => \/ m_currentValue = yielded /\ yielded = received + 1
                     \/ m_currentValue = 0 /\ yielded = received

StreamInv == Stream!TypeOK /\ StreamControl /\ StreamNumbers

LEMMA StreamInit == Stream!Init => StreamInv
  <1> SUFFICES ASSUME Stream!Init PROVE StreamInv
    OBVIOUS
  <1>1. 0 \in 0 .. MaxValues
    BY GeneratorsAssumption
  <1>2. symmetric \in BOOLEAN
    BY DEF Stream!Init
  <1>3. Stream!TypeOK
    BY <1>1, <1>2 DEF Stream!Init, Stream!TypeOK, Stream!States
  <1>4. StreamControl /\ StreamNumbers
    BY DEF Stream!Init, StreamControl, StreamNumbers, ValueIsThere, ValueIsTaken, BodyRuns, BodyYields, ConsumerLooks
  <1>5. QED BY <1>3, <1>4 DEF StreamInv

(* The steps of the producer.                                              *)
LEMMA StreamProducer ==
  ASSUME StreamInv, Stream!ProducerStep \/ Stream!ProducerAwaitsElsewhere
  PROVE  StreamInv'
  <1> USE GeneratorsAssumption
      DEF StreamInv, Stream!TypeOK, Stream!States, StreamControl, StreamNumbers, ValueIsThere, ValueIsTaken,
          BodyRuns, BodyYields, ConsumerLooks, Stream!ProducerGoes, Stream!TransferToConsumer
  <1>1. CASE Stream!ProducerAwaitsElsewhere
    BY <1>1 DEF Stream!ProducerAwaitsElsewhere
  <1>2. CASE Stream!ProducerResumedElsewhere
    BY <1>2 DEF Stream!ProducerResumedElsewhere
  <1>3. CASE Stream!YieldValue
    BY <1>3 DEF Stream!YieldValue
  <1>4. CASE Stream!BodyEnds
    BY <1>4 DEF Stream!BodyEnds
  <1>5. CASE Stream!InternalYieldValue
    BY <1>5 DEF Stream!InternalYieldValue
  <1>6. CASE Stream!SuspendFirst
    BY <1>6 DEF Stream!SuspendFirst
  <1>7. CASE Stream!ProducerReloads
    BY <1>7 DEF Stream!ProducerReloads
  <1>8. CASE Stream!Suspend
    BY <1>8 DEF Stream!Suspend
  <1>9. QED BY <1>1, <1>2, <1>3, <1>4, <1>5, <1>6, <1>7, <1>8 DEF Stream!ProducerStep

LEMMA StreamConsumer ==
  ASSUME StreamInv, Stream!ConsumerStep \/ Stream!ConsumerAwaitsElsewhere \/ Stream!DestroyGenerator
  PROVE  StreamInv'
  <1> USE GeneratorsAssumption
      DEF StreamInv, Stream!TypeOK, Stream!States, StreamControl, StreamNumbers, ValueIsThere, ValueIsTaken,
          BodyRuns, BodyYields, ConsumerLooks, Stream!ConsumerGoes
  <1>1. CASE Stream!TransferToProducer
    BY <1>1 DEF Stream!TransferToProducer
  <1>2. CASE Stream!MakeAdvanceOperation
    BY <1>2 DEF Stream!MakeAdvanceOperation
  <1>3. CASE Stream!ConsumerReloads
    BY <1>3 DEF Stream!ConsumerReloads
  <1>4. CASE Stream!AwaitAdvance
    BY <1>4 DEF Stream!AwaitAdvance
  <1>5. CASE Stream!ConsumerSuspends
    BY <1>5 DEF Stream!ConsumerSuspends
  <1>6. CASE Stream!AwaitResume
    BY <1>6 DEF Stream!AwaitResume
  <1>7. CASE Stream!ConsumerResumedElsewhere
    BY <1>7 DEF Stream!ConsumerResumedElsewhere
  <1>8. CASE Stream!ConsumerAwaitsElsewhere
    BY <1>8 DEF Stream!ConsumerAwaitsElsewhere
  <1>9. CASE Stream!DestroyGenerator
    BY <1>9 DEF Stream!DestroyGenerator
  <1>10. QED BY <1>1, <1>2, <1>3, <1>4, <1>5, <1>6, <1>7, <1>8, <1>9 DEF Stream!ConsumerStep

LEMMA StreamStep == StreamInv /\ [Stream!Next]_Stream!vars => StreamInv'
  <1> SUFFICES ASSUME StreamInv, [Stream!Next]_Stream!vars PROVE StreamInv'
    OBVIOUS
  <1>1. CASE UNCHANGED Stream!vars
    BY <1>1 DEF Stream!vars, StreamInv, Stream!TypeOK, StreamControl, StreamNumbers, ValueIsThere, ValueIsTaken
  <1>2. QED BY <1>1, StreamProducer, StreamConsumer DEF Stream!Next

LEMMA StreamInvSuffices ==
  StreamInv => Stream!TypeOK /\ Stream!StateIsTrue /\ Stream!ValueIsStable /\ Stream!DestroyedWhenUnused
  BY DEF StreamInv, StreamControl, StreamNumbers, ValueIsThere, ValueIsTaken, BodyRuns, BodyYields, ConsumerLooks,
         Stream!TypeOK, Stream!StateIsTrue, Stream!ValueIsStable, Stream!DestroyedWhenUnused, Stream!ProducerAtRest

(* Whoever destroys the frame while the generator object still exists.     *)
LEMMA StreamFrame ==
  ASSUME StreamInv, Stream!Next, consumer # "destroyed", producer' = "destroyed"
  PROVE  Stream!ProducerAtRest /\ nested # "producer"
  <1> USE DEF StreamInv, StreamControl, BodyRuns, BodyYields, ConsumerLooks, Stream!ProducerAtRest
  <1>1. CASE Stream!ProducerStep \/ Stream!ProducerAwaitsElsewhere
    BY <1>1 DEF Stream!ProducerStep, Stream!ProducerAwaitsElsewhere, Stream!ProducerResumedElsewhere, Stream!YieldValue,
                Stream!BodyEnds, Stream!InternalYieldValue, Stream!SuspendFirst, Stream!ProducerReloads, Stream!Suspend,
                Stream!ProducerGoes, Stream!TransferToConsumer
  <1>2. CASE Stream!ConsumerStep \/ Stream!ConsumerAwaitsElsewhere
    BY <1>2 DEF Stream!ConsumerStep, Stream!ConsumerAwaitsElsewhere, Stream!TransferToProducer, Stream!MakeAdvanceOperation,
                Stream!ConsumerReloads, Stream!AwaitAdvance, Stream!ConsumerSuspends, Stream!AwaitResume,
                Stream!ConsumerResumedElsewhere, Stream!ConsumerGoes
  <1>3. CASE Stream!DestroyGenerator
    BY <1>3 DEF Stream!DestroyGenerator
  <1>4. QED BY <1>1, <1>2, <1>3 DEF Stream!Next

-----------------------------------------------------------------------------
(* recursive_generator                                                     *)

Resumed == {"running", "thrown", "nesting"}      \* resume() has not returned
Delegating == {"nesting", "waiting"}             \* in the co_yield of a generator
InTree == {"running", "thrown", "yielded", "nesting", "waiting"}
Leaf == Tree!Leaf

(* The stack holds those that are resumed, each once, and each but the     *)
(* last has resumed the next.                                              *)
TreeStack ==
  /\ \A i, j \in 1 .. Len(stack) : stack[i] = stack[j] => i = j
  /\ \A g \in Generators : status[g] \in Resumed <=> \E i \in 1 .. Len(stack) : stack[i] = g
  /\ \A i \in 1 .. Len(stack) - 1 : status[stack[i]] = "nesting" /\ child[stack[i]] = stack[i + 1]
  /\ ~pulling => stack = << >>

(* m_parentOrLeaf is the way back from a generator to the one that yields  *)
(* it, also from a leaf that is complete and has not been left yet.        *)
TreeLinks ==
  /\ m_root[Root] = Root
  /\ \A g \in Generators : status[g] \in Delegating =>
       /\ child[g] \in Generators \ {Root} /\ m_parentOrLeaf[child[g]] = g /\ m_root[child[g]] = Root
       /\ status[child[g]] \in InTree \cup {"final"}
       /\ status[child[g]] = "final" => child[g] = Leaf
  /\ \A g \in Generators \ {Root} : status[g] \in InTree \/ g = Leaf =>
       status[m_parentOrLeaf[g]] \in Delegating /\ child[m_parentOrLeaf[g]] = g

TreeLeaf ==
  /\ status[Leaf] \in {"initial", "running", "thrown", "yielded", "final"}
  /\ \A g \in Generators : status[g] \in {"running", "thrown", "yielded"} => g = Leaf
  /\ status[Root] = "final" => Leaf = Root
  /\ status[Leaf] = "yielded" => treeValue[Leaf] = yields

TreeConsumer ==
  /\ pulling => iterator \in {"none", "at"} /\ status[Leaf] # "initial"
  /\ ~pulling /\ iterator = "none" => status[Leaf] = "initial"
  /\ ~pulling /\ iterator = "at" => status[Leaf] = "yielded"

TreeInv ==
  /\ Tree!TypeOK /\ TreeStack
  /\ iterator = "destroyed" => ~pulling /\ \A g \in Generators : status[g] \in {"initial", "destroyed"}
  /\ iterator # "destroyed" => TreeLinks /\ TreeLeaf /\ TreeConsumer

LEMMA TreeInit == Tree!Init => TreeInv
  <1> SUFFICES ASSUME Tree!Init PROVE TreeInv
    OBVIOUS
  <1> USE GeneratorsAssumption DEF Tree!Init
  <1>1. 0 \in 0 .. MaxValues /\ FALSE \in BOOLEAN /\ stack \in Seq(Generators) /\ Len(stack) = 0
    OBVIOUS
  <1>2. Tree!TypeOK
    BY <1>1 DEF Tree!TypeOK
  <1>3. TreeStack
    BY <1>1 DEF TreeStack, Resumed
  <1>4. Leaf = Root /\ Root \in Generators /\ \A g \in Generators : status[g] = "initial"
    BY DEF Leaf, Tree!Leaf
  <1>5. TreeLinks /\ TreeLeaf /\ TreeConsumer
    BY <1>4 DEF TreeLinks, TreeLeaf, TreeConsumer, Delegating, InTree
  <1>6. QED BY <1>2, <1>3, <1>5 DEF TreeInv

LEMMA TreeTypes ==
  ASSUME TreeInv
  PROVE  /\ status \in [Generators -> {"initial", "running", "thrown", "yielded", "nesting", "waiting", "final", "destroyed"}]
         /\ m_root \in [Generators -> Generators] /\ m_parentOrLeaf \in [Generators -> Generators]
         /\ treeValue \in [Generators -> 0 .. MaxValues] /\ m_exception \in [Generators -> BOOLEAN]
         /\ child \in [Generators -> Generators \cup {NoGenerator}]
         /\ stack \in Seq(Generators) /\ Len(stack) \in Nat
         /\ Root \in Generators /\ Leaf \in Generators /\ Leaf = m_parentOrLeaf[Root]
  BY GeneratorsAssumption DEF TreeInv, Tree!TypeOK, Leaf, Tree!Leaf

(* The generator on top of the stack, when it runs.                        *)
LEMMA TreeTop ==
  ASSUME TreeInv, NEW g \in Generators, Tree!Running(g)
  PROVE  /\ Len(stack) >= 1 /\ stack[Len(stack)] = g /\ stack # << >>
         /\ pulling /\ iterator \in {"none", "at"} /\ TreeLinks /\ TreeLeaf /\ TreeStack
         /\ status[g] \in Resumed /\ m_root[Root] = Root /\ m_root[g] = Root
         /\ status[g] \in {"running", "thrown"} => Leaf = g
  <1>1. Len(stack) >= 1 /\ stack[Len(stack)] = g /\ stack # << >>
    BY TreeTypes DEF Tree!Running
  <1>2. TreeStack /\ pulling /\ status[g] \in Resumed
    BY <1>1, TreeTypes DEF TreeInv, TreeStack
  <1>3. iterator # "destroyed"
    BY <1>2 DEF TreeInv
  <1>4. TreeLinks /\ TreeLeaf /\ TreeConsumer
    BY <1>3 DEF TreeInv
  <1>5. m_root[g] = Root
    <2>1. CASE g = Root
      BY <1>4, <2>1 DEF TreeLinks
    <2>2. CASE g # Root
      <3>1. PICK p \in Generators : p = m_parentOrLeaf[g]
        BY TreeTypes
      <3>2. status[p] \in Delegating /\ child[p] = g
        BY <1>2, <1>4, <2>2, <3>1 DEF TreeLinks, Resumed, InTree
      <3>3. QED BY <1>4, <3>2 DEF TreeLinks
    <2>3. QED BY <2>1, <2>2
  <1>6. QED BY <1>1, <1>2, <1>4, <1>5 DEF TreeConsumer, TreeLeaf, TreeLinks

(* resume() of the generator on top returns.                               *)
LEMMA TreePops ==
  ASSUME TreeInv, NEW g \in Generators, Tree!Running(g), NEW label \in {"yielded", "final", "waiting"},
         status' = [status EXCEPT ![g] = label], stack' = Tree!Pop, UNCHANGED <<child, pulling>>
  PROVE  stack' \in Seq(Generators) /\ TreeStack'
  <1> DEFINE n == Len(stack)
  <1>1. n \in Nat /\ n >= 1 /\ stack[n] = g /\ stack \in Seq(Generators) /\ TreeStack
    BY TreeTop, TreeTypes
  <1>2. stack' \in Seq(Generators) /\ Len(stack') = n - 1 /\ \A i \in 1 .. n - 1 : stack'[i] = stack[i]
    <2>1. Tree!Pop = SubSeq(stack, 1, n - 1) /\ \A i \in 1 .. n - 1 : stack[i] \in Generators
      BY <1>1 DEF Tree!Pop
    <2> HIDE DEF n
    <2>2. PICK m \in Int : m = n - 1 /\ m >= 0 /\ m - 1 + 1 = m /\ \A i \in 1 .. m : 1 + i - 1 = i
      BY <1>1
    <2>3. /\ SubSeq(stack, 1, m) \in Seq(Generators)
          /\ Len(SubSeq(stack, 1, m)) = IF 1 <= m THEN m - 1 + 1 ELSE 0
          /\ \A i \in 1 .. m - 1 + 1 : SubSeq(stack, 1, m)[i] = stack[1 + i - 1]
      BY <2>1, <2>2, SubSeqProperties
    <2>4. Len(SubSeq(stack, 1, m)) = m /\ \A i \in 1 .. m : SubSeq(stack, 1, m)[i] = stack[i]
      BY <2>2, <2>3
    <2>5. QED BY <2>1, <2>2, <2>3, <2>4
  <1>3. \A i \in 1 .. n - 1 : stack[i] # g /\ stack[i] \in Generators /\ i \in 1 .. n
    BY <1>1 DEF TreeStack
  <1> HIDE DEF n
  <1>4. status'[g] = label /\ \A h \in Generators : h # g => status'[h] = status[h]
    BY TreeTypes
  <1>5. \A i, j \in 1 .. Len(stack') : stack'[i] = stack'[j] => i = j
    BY <1>1, <1>2, <1>3 DEF TreeStack, n
  <1>6. ASSUME NEW h \in Generators
        PROVE  status'[h] \in Resumed <=> \E i \in 1 .. Len(stack') : stack'[i] = h
    <2>1. CASE h = g
      BY <1>2, <1>3, <1>4, <2>1 DEF Resumed
    <2>2. CASE h # g
      <3>1. (\E i \in 1 .. n : stack[i] = h) <=> \E i \in 1 .. n - 1 : stack[i] = h
        BY <1>1, <2>2
      <3>2. QED BY <1>1, <1>2, <1>4, <2>2, <3>1 DEF TreeStack, n
    <2>3. QED BY <2>1, <2>2
  <1>7. ASSUME NEW i \in 1 .. Len(stack') - 1
        PROVE  status'[stack'[i]] = "nesting" /\ child'[stack'[i]] = stack'[i + 1]
    <2>1. i \in 1 .. n - 1 /\ i + 1 \in 1 .. n - 1
      BY <1>1, <1>2
    <2>2. QED BY <1>1, <1>2, <1>3, <1>4, <2>1 DEF TreeStack, n
  <1>8. pulling
    BY TreeTop
  <1>9. QED BY <1>2, <1>5, <1>6, <1>7, <1>8 DEF TreeStack

(* The generator on top goes on.                                           *)
LEMMA TreeGoesOn ==
  ASSUME TreeInv, NEW g \in Generators, Tree!Running(g), NEW label \in Resumed,
         status' = [status EXCEPT ![g] = label], \A h \in Generators : h # g => child'[h] = child[h],
         UNCHANGED <<stack, pulling>>
  PROVE  TreeStack'
  <1> DEFINE n == Len(stack)
  <1>1. n \in Nat /\ n >= 1 /\ stack[n] = g /\ stack \in Seq(Generators) /\ TreeStack /\ status[g] \in Resumed
    BY TreeTop, TreeTypes
  <1>2. \A i \in 1 .. n - 1 : stack[i] # g /\ stack[i] \in Generators /\ i \in 1 .. n
    BY <1>1 DEF TreeStack
  <1>3. status'[g] = label /\ \A h \in Generators : h # g => status'[h] = status[h]
    BY TreeTypes
  <1> HIDE DEF n
  <1>4. \A h \in Generators : status'[h] \in Resumed <=> status[h] \in Resumed
    BY <1>1, <1>3
  <1>5. \A i \in 1 .. n - 1 : status'[stack[i]] = "nesting" /\ child'[stack[i]] = stack[i + 1]
    BY <1>1, <1>2, <1>3 DEF TreeStack, n
  <1>6. pulling
    BY TreeTop
  <1>7. QED BY <1>1, <1>4, <1>5, <1>6 DEF TreeStack, n

(* Statuses change and nobody is hung up elsewhere.                        *)
LEMMA TreeLinksKept ==
  ASSUME TreeInv, TreeLinks, UNCHANGED <<m_parentOrLeaf, m_root, child>>,
         \A g \in Generators :
           /\ status'[g] \in Delegating <=> status[g] \in Delegating
           /\ status[g] \in InTree \cup {"final"} => status'[g] \in InTree \cup {"final"}
           /\ status'[g] = "final" => status[g] = "final" \/ g = Leaf
           /\ status'[g] \in InTree => status[g] \in InTree \/ g = Leaf
  PROVE  TreeLinks'
  <1>1. Leaf' = Leaf
    BY DEF Leaf, Tree!Leaf
  <1>2. \A g \in Generators : m_parentOrLeaf[g] \in Generators
    BY TreeTypes
  <1>3. QED BY <1>1, <1>2 DEF TreeLinks

LEMMA TreeYieldValue ==
  ASSUME TreeInv, NEW g \in Generators, Tree!YieldValue(g)
  PROVE  TreeInv'
  <1>1. /\ Tree!Running(g) /\ status[g] = "running" /\ yields < MaxValues /\ yields' = yields + 1
        /\ treeValue' = [treeValue EXCEPT ![g] = yields + 1] /\ status' = [status EXCEPT ![g] = "yielded"]
        /\ stack' = Tree!Pop /\ UNCHANGED <<m_root, m_parentOrLeaf, m_exception, child, pulling, iterator>>
    BY DEF Tree!YieldValue
  <1>2. pulling /\ iterator \in {"none", "at"} /\ TreeLinks /\ TreeLeaf /\ Leaf = g /\ Leaf' = Leaf
    BY <1>1, TreeTop DEF Leaf, Tree!Leaf
  <1>3. status'[g] = "yielded" /\ \A h \in Generators : h # g => status'[h] = status[h]
    BY <1>1, TreeTypes
  <1>4. stack' \in Seq(Generators) /\ TreeStack'
    BY <1>1, TreePops
  <1>5. Tree!TypeOK'
    <2>1. yields + 1 \in 0 .. MaxValues
      BY <1>1, GeneratorsAssumption DEF TreeInv, Tree!TypeOK
    <2>2. QED BY <1>1, <1>4, <2>1 DEF TreeInv, Tree!TypeOK
  <1>6. TreeLinks'
    BY <1>1, <1>2, <1>3, TreeLinksKept DEF Delegating, InTree
  <1>7. treeValue'[g] = yields'
    BY <1>1, TreeTypes
  <1>8. TreeLeaf' /\ TreeConsumer'
    BY <1>1, <1>2, <1>3, <1>7, TreeTypes DEF TreeLeaf, TreeConsumer
  <1>9. QED BY <1>1, <1>2, <1>4, <1>5, <1>6, <1>8 DEF TreeInv

LEMMA TreeBodyCompletes ==
  ASSUME TreeInv, NEW g \in Generators, Tree!BodyCompletes(g)
  PROVE  TreeInv'
  <1>1. /\ Tree!Running(g) /\ status[g] \in {"running", "thrown"} /\ status' = [status EXCEPT ![g] = "final"]
        /\ stack' = Tree!Pop /\ UNCHANGED <<m_root, m_parentOrLeaf, treeValue, child, pulling, iterator, yields>>
    BY DEF Tree!BodyCompletes
  <1>2. PICK thrown \in BOOLEAN : m_exception' = [m_exception EXCEPT ![g] = thrown]
    BY DEF Tree!BodyCompletes
  <1>3. pulling /\ iterator \in {"none", "at"} /\ TreeLinks /\ TreeLeaf /\ Leaf = g /\ Leaf' = Leaf
    BY <1>1, TreeTop DEF Leaf, Tree!Leaf
  <1>4. status'[g] = "final" /\ \A h \in Generators : h # g => status'[h] = status[h]
    BY <1>1, TreeTypes
  <1>5. stack' \in Seq(Generators) /\ TreeStack'
    BY <1>1, TreePops
  <1>6. m_exception' \in [Generators -> BOOLEAN]
    BY <1>2, TreeTypes
  <1>7. Tree!TypeOK'
    BY <1>1, <1>5, <1>6 DEF TreeInv, Tree!TypeOK
  <1>8. TreeLinks'
    BY <1>1, <1>3, <1>4, TreeLinksKept DEF Delegating, InTree
  <1>9. TreeLeaf' /\ TreeConsumer'
    BY <1>1, <1>3, <1>4, TreeTypes DEF TreeLeaf, TreeConsumer
  <1>10. QED BY <1>1, <1>3, <1>5, <1>7, <1>8, <1>9 DEF TreeInv

LEMMA TreeBodyCatches ==
  ASSUME TreeInv, NEW g \in Generators, Tree!BodyCatches(g)
  PROVE  TreeInv'
  <1>1. /\ Tree!Running(g) /\ status[g] = "thrown" /\ status' = [status EXCEPT ![g] = "running"]
        /\ UNCHANGED <<m_root, m_parentOrLeaf, treeValue, m_exception, child, stack, pulling, iterator, yields>>
    BY DEF Tree!BodyCatches
  <1>2. pulling /\ iterator \in {"none", "at"} /\ TreeLinks /\ TreeLeaf /\ Leaf = g /\ Leaf' = Leaf
    BY <1>1, TreeTop DEF Leaf, Tree!Leaf
  <1>3. status'[g] = "running" /\ \A h \in Generators : h # g => status'[h] = status[h]
    BY <1>1, TreeTypes
  <1>4. TreeStack'
    <2>1. "running" \in Resumed
      BY DEF Resumed
    <2>2. QED BY <1>1, <2>1, TreeGoesOn
  <1>5. Tree!TypeOK'
    BY <1>1 DEF TreeInv, Tree!TypeOK
  <1>6. TreeLinks'
    BY <1>1, <1>2, <1>3, TreeLinksKept DEF Delegating, InTree
  <1>7. TreeLeaf' /\ TreeConsumer'
    BY <1>1, <1>2, <1>3, TreeTypes DEF TreeLeaf, TreeConsumer
  <1>8. QED BY <1>1, <1>2, <1>4, <1>5, <1>6, <1>7 DEF TreeInv

(* The nested generator is suspended somewhere inside: so is the outer one.*)
LEMMA TreeNestedSuspends ==
  ASSUME TreeInv, NEW g \in Generators, Tree!Running(g), status[g] = "nesting", status' = [status EXCEPT ![g] = "waiting"],
         stack' = Tree!Pop,
         UNCHANGED <<m_root, m_parentOrLeaf, treeValue, m_exception, child, pulling, iterator, yields>>
  PROVE  TreeInv'
  <1>1. pulling /\ iterator \in {"none", "at"} /\ TreeLinks /\ TreeLeaf /\ TreeConsumer /\ Leaf' = Leaf
    BY TreeTop DEF TreeInv, Leaf, Tree!Leaf
  <1>2. status'[g] = "waiting" /\ \A h \in Generators : h # g => status'[h] = status[h]
    BY TreeTypes
  <1>3. stack' \in Seq(Generators) /\ TreeStack'
    BY TreePops
  <1>4. Tree!TypeOK'
    BY <1>3 DEF TreeInv, Tree!TypeOK
  <1>5. TreeLinks'
    BY <1>1, <1>2, TreeLinksKept DEF Delegating, InTree
  <1>6. TreeLeaf' /\ TreeConsumer'
    BY <1>1, <1>2, TreeTypes DEF TreeLeaf, TreeConsumer
  <1>7. QED BY <1>1, <1>3, <1>4, <1>5, <1>6 DEF TreeInv

(* The leaf is complete and the one that yields it becomes the leaf.       *)
LEMMA TreeLeaves ==
  ASSUME TreeInv, TreeLinks, TreeLeaf, NEW g \in Generators, status[g] \in Delegating, status[child[g]] = "final",
         NEW label \in {"running", "thrown"}, status' = [status EXCEPT ![g] = label],
         m_parentOrLeaf' = [m_parentOrLeaf EXCEPT ![Root] = g], child' = [child EXCEPT ![g] = NoGenerator],
         UNCHANGED <<m_root, treeValue, yields>>
  PROVE  TreeLinks' /\ TreeLeaf' /\ Leaf' = g /\ status'[g] = label
  <1>1. status'[g] = label /\ \A h \in Generators : h # g => status'[h] = status[h] /\ child'[h] = child[h]
    BY TreeTypes
  <1>2. Leaf' = g /\ \A h \in Generators \ {Root} : m_parentOrLeaf'[h] = m_parentOrLeaf[h]
    BY TreeTypes DEF Leaf, Tree!Leaf
  <1>3. PICK c \in Generators \ {Root} : c = child[g] /\ c = Leaf /\ m_parentOrLeaf[c] = g /\ status[c] = "final" /\ c # g
    BY DEF TreeLinks, Delegating
  <1>4. ASSUME NEW h \in Generators, status'[h] \in Delegating
        PROVE  /\ child'[h] \in Generators \ {Root} /\ m_parentOrLeaf'[child'[h]] = h /\ m_root'[child'[h]] = Root
               /\ status'[child'[h]] \in InTree
    <2>1. h # g /\ status[h] \in Delegating /\ child'[h] = child[h]
      BY <1>1, <1>4 DEF Delegating
    <2>2. PICK x \in Generators \ {Root} :
            /\ x = child[h] /\ m_parentOrLeaf[x] = h /\ m_root[x] = Root /\ status[x] \in InTree \cup {"final"}
            /\ status[x] = "final" => x = Leaf
      BY <2>1 DEF TreeLinks
    <2>3. x # c
      BY <1>3, <2>1, <2>2
    <2>4. status[x] \in InTree
      BY <1>3, <2>2, <2>3
    <2>5. status'[x] \in InTree
      BY <1>1, <2>4 DEF InTree
    <2>6. QED BY <1>2, <2>1, <2>2, <2>5
  <1>5. ASSUME NEW h \in Generators \ {Root}, status'[h] \in InTree \/ h = g
        PROVE  status'[m_parentOrLeaf'[h]] \in Delegating /\ child'[m_parentOrLeaf'[h]] = h
    <2>1. status[h] \in InTree /\ h # c
      BY <1>1, <1>3, <1>5 DEF InTree, Delegating
    <2>2. PICK p \in Generators : p = m_parentOrLeaf[h] /\ status[p] \in Delegating /\ child[p] = h
      BY <2>1, TreeTypes DEF TreeLinks
    <2>3. p # g
      BY <1>3, <2>1, <2>2
    <2>4. QED BY <1>1, <1>2, <2>2, <2>3
  <1>6. m_root'[Root] = Root
    BY DEF TreeLinks
  <1>7. TreeLinks'
    BY <1>2, <1>4, <1>5, <1>6 DEF TreeLinks, InTree
  <1>8. TreeLeaf'
    BY <1>1, <1>2, <1>3, TreeTypes DEF TreeLeaf
  <1>9. QED BY <1>1, <1>2, <1>7, <1>8

LEMMA TreeNestedReturns ==
  ASSUME TreeInv, NEW g \in Generators, Tree!NestedResumeReturns(g)
  PROVE  TreeInv'
  <1>1. /\ Tree!Running(g) /\ status[g] = "nesting"
        /\ UNCHANGED <<m_root, treeValue, m_exception, pulling, iterator, yields>>
    BY DEF Tree!NestedResumeReturns
  <1>2. CASE status[child[g]] = "final"
    <2>1. /\ m_parentOrLeaf' = [m_parentOrLeaf EXCEPT ![Root] = g] /\ child' = [child EXCEPT ![g] = NoGenerator]
          /\ status' = [status EXCEPT ![g] = "running"] /\ UNCHANGED stack
      BY <1>1, <1>2, TreeTop DEF Tree!NestedResumeReturns
    <2>2. pulling /\ iterator \in {"none", "at"} /\ TreeLinks /\ TreeLeaf
      BY <1>1, TreeTop
    <2>3. TreeLinks' /\ TreeLeaf' /\ Leaf' = g /\ status'[g] = "running"
      BY <1>1, <1>2, <2>1, <2>2, TreeLeaves DEF Delegating
    <2>4. TreeStack'
      <3>1. "running" \in Resumed /\ \A h \in Generators : h # g => child'[h] = child[h]
        BY <2>1, TreeTypes DEF Resumed
      <3>2. QED BY <1>1, <2>1, <3>1, TreeGoesOn
    <2>5. Tree!TypeOK'
      BY <1>1, <2>1, GeneratorsAssumption DEF TreeInv, Tree!TypeOK
    <2>6. TreeConsumer'
      BY <1>1, <2>2, <2>3 DEF TreeConsumer
    <2>7. QED BY <1>1, <2>2, <2>3, <2>4, <2>5, <2>6 DEF TreeInv
  <1>3. CASE status[child[g]] # "final"
    BY <1>1, <1>3, TreeNestedSuspends DEF Tree!NestedResumeReturns
  <1>4. QED BY <1>2, <1>3

LEMMA TreeResumeParent ==
  ASSUME TreeInv, Tree!ResumeParent
  PROVE  TreeInv'
  <1> DEFINE parent == m_parentOrLeaf[Leaf]
             label == IF m_exception[child[parent]] THEN "thrown" ELSE "running"
  <1>1. /\ pulling /\ stack = << >> /\ Leaf # Root /\ status[Leaf] = "final"
        /\ m_parentOrLeaf' = [m_parentOrLeaf EXCEPT ![Root] = parent] /\ stack' = <<parent>>
        /\ status' = [status EXCEPT ![parent] = label]
        /\ m_exception' = [m_exception EXCEPT ![child[parent]] = FALSE]
        /\ child' = [child EXCEPT ![parent] = NoGenerator]
        /\ UNCHANGED <<m_root, treeValue, pulling, iterator, yields>>
    BY DEF Tree!ResumeParent, Leaf
  <1>2. TreeLinks /\ TreeLeaf /\ TreeConsumer /\ TreeStack /\ iterator \in {"none", "at"}
    BY <1>1 DEF TreeInv, TreeConsumer
  <1>3. parent \in Generators /\ status[parent] \in Delegating /\ child[parent] = Leaf /\ label \in {"running", "thrown"}
    BY <1>1, <1>2, TreeTypes DEF TreeLinks
  <1> HIDE DEF parent, label
  <1>4. TreeLinks' /\ TreeLeaf' /\ Leaf' = parent /\ status'[parent] = label
    BY <1>1, <1>2, <1>3, TreeLeaves
  <1>5. Tree!TypeOK'
    <2>1. m_exception' \in [Generators -> BOOLEAN]
      BY <1>1, TreeTypes
    <2>2. stack' \in Seq(Generators)
      BY <1>1, <1>3
    <2>3. QED BY <1>1, <1>3, <2>1, <2>2, GeneratorsAssumption DEF TreeInv, Tree!TypeOK
  <1>6. TreeStack'
    <2>1. Len(stack') = 1 /\ stack'[1] = parent /\ Len(stack) = 0
      BY <1>1
    <2>2. \A h \in Generators : status[h] \notin Resumed
      BY <1>2, <2>1 DEF TreeStack
    <2>3. \A h \in Generators : status'[h] \in Resumed <=> h = parent
      BY <1>1, <1>3, <1>4, <2>2, TreeTypes DEF Resumed
    <2>4. QED BY <1>1, <2>1, <2>3 DEF TreeStack
  <1>7. TreeConsumer'
    BY <1>1, <1>2, <1>3, <1>4 DEF TreeConsumer
  <1>8. QED BY <1>1, <1>2, <1>4, <1>5, <1>6, <1>7 DEF TreeInv

(* h is hung up under g and resumed.                                       *)
LEMMA TreeYieldGenerator ==
  ASSUME TreeInv, NEW g \in Generators, NEW h \in Generators, Tree!YieldGenerator(g, h)
  PROVE  TreeInv'
  <1>1. /\ Tree!Running(g) /\ status[g] = "running" /\ h # Root /\ status[h] = "initial" /\ g # h
        /\ UNCHANGED <<treeValue, m_exception, pulling, iterator, yields>> /\ stack' = Append(stack, h)
        /\ child' = [child EXCEPT ![g] = h] /\ status' = [status EXCEPT ![g] = "nesting", ![h] = "running"]
    BY DEF Tree!YieldGenerator
  <1>2. pulling /\ iterator \in {"none", "at"} /\ TreeLinks /\ TreeLeaf /\ TreeStack /\ Leaf = g /\ m_root[g] = Root
    BY <1>1, TreeTop
  <1>3. /\ m_root' = [m_root EXCEPT ![h] = Root]
        /\ m_parentOrLeaf' = [m_parentOrLeaf EXCEPT ![Root] = h, ![h] = g]
    BY <1>2 DEF Tree!YieldGenerator
  <1>4. /\ status'[g] = "nesting" /\ status'[h] = "running" /\ child'[g] = h
        /\ \A x \in Generators : x # g => child'[x] = child[x]
        /\ \A x \in Generators : x # g /\ x # h => status'[x] = status[x]
    BY <1>1, TreeTypes
  <1>5. /\ Leaf' = h /\ m_parentOrLeaf'[h] = g /\ m_root'[h] = Root /\ m_root'[Root] = Root
        /\ \A x \in Generators : x # Root /\ x # h => m_parentOrLeaf'[x] = m_parentOrLeaf[x]
        /\ \A x \in Generators : x # h => m_root'[x] = m_root[x]
    BY <1>1, <1>2, <1>3, TreeTypes DEF Leaf, Tree!Leaf, TreeLinks
  <1>6. Tree!TypeOK'
    <2>1. stack' \in Seq(Generators)
      BY <1>1, TreeTypes
    <2>2. m_root' \in [Generators -> Generators] /\ m_parentOrLeaf' \in [Generators -> Generators]
      BY <1>3, TreeTypes
    <2>3. QED BY <1>1, <2>1, <2>2 DEF TreeInv, Tree!TypeOK
  <1>7. TreeStack'
    <2> DEFINE n == Len(stack)
    <2>1. /\ n \in Nat /\ n >= 1 /\ stack[n] = g /\ Len(stack') = n + 1 /\ stack'[n + 1] = h
          /\ \A i \in 1 .. n : stack'[i] = stack[i] /\ stack[i] \in Generators
      BY <1>1, TreeTop, TreeTypes
    <2>2. \A i \in 1 .. n : stack[i] # h
      BY <1>1, <1>2 DEF TreeStack, Resumed
    <2>3. \A i \in 1 .. n - 1 : stack[i] # g /\ i \in 1 .. n
      BY <1>2, <2>1 DEF TreeStack
    <2> HIDE DEF n
    <2>4. ASSUME NEW i \in 1 .. n + 1, NEW j \in 1 .. n + 1, stack'[i] = stack'[j] PROVE i = j
      BY <1>2, <2>1, <2>2, <2>4 DEF TreeStack, n
    <2>5. ASSUME NEW x \in Generators
          PROVE  status'[x] \in Resumed <=> \E i \in 1 .. n + 1 : stack'[i] = x
      <3>1. (\E i \in 1 .. n + 1 : stack'[i] = x) <=> x = h \/ \E i \in 1 .. n : stack[i] = x
        BY <2>1
      <3>2. status[x] \in Resumed <=> \E i \in 1 .. n : stack[i] = x
        BY <1>2 DEF TreeStack, n
      <3>3. status'[x] \in Resumed <=> x = h \/ status[x] \in Resumed
        BY <1>1, <1>4 DEF Resumed
      <3>4. QED BY <3>1, <3>2, <3>3
    <2>6. ASSUME NEW i \in 1 .. n
          PROVE  status'[stack'[i]] = "nesting" /\ child'[stack'[i]] = stack'[i + 1]
      <3>1. CASE i = n
        BY <1>4, <2>1, <3>1
      <3>2. CASE i # n
        <4>1. i \in 1 .. n - 1 /\ i + 1 \in 1 .. n
          BY <2>1, <3>2
        <4>2. status[stack[i]] = "nesting" /\ child[stack[i]] = stack[i + 1]
          BY <1>2, <4>1 DEF TreeStack, n
        <4>3. QED BY <1>4, <2>1, <2>2, <2>3, <4>1, <4>2
      <3>3. QED BY <3>1, <3>2
    <2>7. n + 1 - 1 = n
      BY <2>1
    <2>8. \A i, j \in 1 .. Len(stack') : stack'[i] = stack'[j] => i = j
      BY <2>1, <2>4
    <2>9. \A x \in Generators : status'[x] \in Resumed <=> \E i \in 1 .. Len(stack') : stack'[i] = x
      BY <2>1, <2>5
    <2>10. \A i \in 1 .. Len(stack') - 1 : status'[stack'[i]] = "nesting" /\ child'[stack'[i]] = stack'[i + 1]
      BY <2>1, <2>6, <2>7
    <2>11. QED BY <1>1, <1>2, <2>8, <2>9, <2>10 DEF TreeStack
  <1>8. ASSUME NEW x \in Generators, status'[x] \in Delegating
        PROVE  /\ child'[x] \in Generators \ {Root} /\ m_parentOrLeaf'[child'[x]] = x /\ m_root'[child'[x]] = Root
               /\ status'[child'[x]] \in InTree
    <2>1. CASE x = g
      BY <1>1, <1>4, <1>5, <2>1 DEF InTree
    <2>2. CASE x # g
      <3>1. status[x] \in Delegating /\ child'[x] = child[x]
        BY <1>4, <1>8, <2>2 DEF Delegating
      <3>2. PICK y \in Generators \ {Root} :
              /\ y = child[x] /\ m_parentOrLeaf[y] = x /\ m_root[y] = Root /\ status[y] \in InTree \cup {"final"}
              /\ status[y] = "final" => y = Leaf
        BY <1>2, <3>1 DEF TreeLinks
      <3>3. y # h /\ status[y] # "final"
        BY <1>1, <1>2, <3>2 DEF InTree
      <3>4. status'[y] \in InTree
        BY <1>4, <3>2, <3>3 DEF InTree
      <3>5. QED BY <1>5, <3>1, <3>2, <3>3, <3>4
    <2>3. QED BY <2>1, <2>2
  <1>9. ASSUME NEW x \in Generators \ {Root}, status'[x] \in InTree \/ x = h
        PROVE  status'[m_parentOrLeaf'[x]] \in Delegating /\ child'[m_parentOrLeaf'[x]] = x
    <2>1. CASE x = h
      BY <1>4, <1>5, <2>1 DEF Delegating
    <2>2. CASE x # h
      <3>1. status[x] \in InTree
        BY <1>1, <1>4, <1>9, <2>2 DEF InTree
      <3>2. PICK p \in Generators : p = m_parentOrLeaf[x] /\ status[p] \in Delegating /\ child[p] = x
        BY <1>2, <3>1, TreeTypes DEF TreeLinks
      <3>3. p # g /\ p # h
        BY <1>1, <3>2 DEF Delegating
      <3>4. QED BY <1>4, <1>5, <2>2, <3>2, <3>3
    <2>3. QED BY <2>1, <2>2
  <1>10. TreeLinks'
    BY <1>5, <1>8, <1>9 DEF TreeLinks, InTree
  <1>11. TreeLeaf'
    BY <1>1, <1>2, <1>4, <1>5, TreeTypes DEF TreeLeaf
  <1>12. TreeConsumer'
    BY <1>1, <1>2, <1>4, <1>5 DEF TreeConsumer
  <1>13. QED BY <1>1, <1>2, <1>6, <1>7, <1>10, <1>11, <1>12 DEF TreeInv

LEMMA TreePull ==
  ASSUME TreeInv, Tree!Pull
  PROVE  TreeInv'
  <1>1. /\ iterator \in {"none", "at"} /\ ~pulling /\ pulling' = TRUE /\ stack' = <<Leaf>>
        /\ status' = [status EXCEPT ![Leaf] = "running"]
        /\ UNCHANGED <<m_root, m_parentOrLeaf, treeValue, m_exception, child, iterator, yields>>
    BY DEF Tree!Pull, Leaf
  <1>2. TreeLinks /\ TreeLeaf /\ TreeConsumer /\ TreeStack /\ Leaf \in Generators /\ Leaf' = Leaf
    BY <1>1, TreeTypes DEF TreeInv, Leaf, Tree!Leaf
  <1>3. status[Leaf] \in {"initial", "yielded"}
    BY <1>1, <1>2 DEF TreeConsumer
  <1>4. status'[Leaf] = "running" /\ \A h \in Generators : h # Leaf => status'[h] = status[h]
    BY <1>1, <1>2, TreeTypes
  <1>5. Tree!TypeOK'
    <2>1. stack' \in Seq(Generators)
      BY <1>1, <1>2
    <2>2. QED BY <1>1, <2>1 DEF TreeInv, Tree!TypeOK
  <1>6. TreeStack'
    <2>1. Len(stack') = 1 /\ stack'[1] = Leaf /\ Len(stack) = 0
      BY <1>1, <1>2 DEF TreeStack
    <2>2. \A h \in Generators : status[h] \notin Resumed
      BY <1>2, <2>1 DEF TreeStack
    <2>3. \A h \in Generators : status'[h] \in Resumed <=> h = Leaf
      BY <1>4, <2>2 DEF Resumed
    <2>4. QED BY <1>1, <2>1, <2>3 DEF TreeStack
  <1>7. TreeLinks'
    BY <1>1, <1>2, <1>3, <1>4, TreeLinksKept DEF Delegating, InTree
  <1>8. TreeLeaf' /\ TreeConsumer'
    BY <1>1, <1>2, <1>3, <1>4, TreeTypes DEF TreeLeaf, TreeConsumer
  <1>9. QED BY <1>1, <1>5, <1>6, <1>7, <1>8 DEF TreeInv

LEMMA TreePullReturns ==
  ASSUME TreeInv, Tree!PullReturns
  PROVE  TreeInv'
  <1>1. /\ pulling /\ stack = << >> /\ (Leaf = Root \/ status[Leaf] # "final") /\ pulling' = FALSE
        /\ iterator' = (IF status[Root] = "final" THEN "end" ELSE "at")
        /\ m_exception' = [m_exception EXCEPT ![Root] = FALSE]
        /\ UNCHANGED <<status, m_root, m_parentOrLeaf, treeValue, child, stack, yields>>
    BY DEF Tree!PullReturns, Leaf
  <1>2. TreeLinks /\ TreeLeaf /\ TreeConsumer /\ TreeStack /\ Leaf \in Generators /\ Leaf' = Leaf
    BY <1>1, TreeTypes DEF TreeInv, Leaf, Tree!Leaf
  <1>3. Tree!TypeOK'
    <2>1. m_exception' \in [Generators -> BOOLEAN] /\ iterator' \in {"end", "at"}
      BY <1>1, TreeTypes
    <2>2. QED BY <1>1, <2>1 DEF TreeInv, Tree!TypeOK
  <1>4. TreeStack'
    BY <1>1, <1>2 DEF TreeStack
  <1>5. TreeLinks' /\ TreeLeaf'
    BY <1>1, <1>2 DEF TreeLinks, TreeLeaf
  <1>6. status[Leaf] \notin Resumed
    BY <1>1, <1>2 DEF TreeStack
  <1>7. iterator' = "at" => status[Leaf] = "yielded"
    BY <1>1, <1>2, <1>6 DEF TreeLeaf, TreeConsumer, Resumed
  <1>8. TreeConsumer'
    BY <1>1, <1>2, <1>7 DEF TreeConsumer
  <1>9. QED BY <1>1, <1>3, <1>4, <1>5, <1>8 DEF TreeInv

LEMMA TreeDestroy ==
  ASSUME TreeInv, Tree!Destroy
  PROVE  TreeInv'
  <1>1. /\ ~pulling /\ iterator' = "destroyed"
        /\ status' = [g \in Generators |-> IF status[g] = "initial" /\ g # Root THEN "initial" ELSE "destroyed"]
        /\ UNCHANGED <<m_root, m_parentOrLeaf, treeValue, m_exception, child, stack, pulling, yields>>
    BY DEF Tree!Destroy
  <1>2. Tree!TypeOK'
    BY <1>1 DEF TreeInv, Tree!TypeOK
  <1>3. stack = << >>
    BY <1>1 DEF TreeInv, TreeStack
  <1>4. \A g \in Generators : status'[g] \in {"initial", "destroyed"}
    BY <1>1
  <1>5. TreeStack'
    BY <1>1, <1>3, <1>4 DEF TreeStack, Resumed
  <1>6. QED BY <1>1, <1>2, <1>4, <1>5 DEF TreeInv

LEMMA TreeStep == TreeInv /\ [Tree!Next]_Tree!vars => TreeInv'
  <1> SUFFICES ASSUME TreeInv, [Tree!Next]_Tree!vars PROVE TreeInv'
    OBVIOUS
  <1>1. CASE UNCHANGED Tree!vars
    BY <1>1 DEF Tree!vars, TreeInv, Tree!TypeOK, TreeStack, TreeLinks, TreeLeaf, TreeConsumer, Leaf, Tree!Leaf
  <1>2. QED BY <1>1, TreeYieldValue, TreeBodyCompletes, TreeBodyCatches, TreeNestedReturns, TreeYieldGenerator, TreePull,
               TreeResumeParent, TreePullReturns, TreeDestroy DEF Tree!Next

LEMMA TreeCardinality == ASSUME NEW S PROVE Tree!Cardinality(S) = Cardinality(S)
  BY DEF Tree!Cardinality, Cardinality

(* As many coroutines are resumed as calls of resume() have not returned.  *)
LEMMA TreeCounts ==
  ASSUME TreeInv
  PROVE  Cardinality({g \in Generators : status[g] \in Resumed}) = Len(stack)
  <1> DEFINE S == {g \in Generators : status[g] \in Resumed}
             n == Len(stack)
             f == [i \in 1 .. n |-> stack[i]]
  <1>1. stack \in Seq(Generators) /\ n \in Nat /\ TreeStack
    BY TreeTypes DEF TreeInv
  <1>2. f \in Bijection(1 .. n, S)
    <2>1. f \in [1 .. n -> S]
      BY <1>1 DEF TreeStack
    <2>2. \A i, j \in 1 .. n : f[i] = f[j] => i = j
      BY <1>1 DEF TreeStack
    <2>3. \A g \in S : \E i \in 1 .. n : f[i] = g
      BY <1>1 DEF TreeStack
    <2> HIDE DEF S, n, f
    <2>4. QED BY <2>1, <2>2, <2>3, Fun_IsBij
  <1>3. ExistsBijection(1 .. n, S)
    BY <1>2, Zenon DEF ExistsBijection
  <1>4. IsFiniteSet(1 .. n) /\ Cardinality(1 .. n) = n
    BY <1>1, FS_Interval
  <1> HIDE DEF S, n, f
  <1>5. Cardinality(S) = n
    BY <1>3, <1>4, FS_Bijection
  <1>6. QED BY <1>5 DEF S, n

LEMMA TreeInvSuffices == TreeInv => Tree!TypeOK /\ Tree!LeafIsInnermost /\ Tree!CallsNest
  <1> SUFFICES ASSUME TreeInv PROVE Tree!TypeOK /\ Tree!LeafIsInnermost /\ Tree!CallsNest
    OBVIOUS
  <1>1. Tree!CallsNest
    BY TreeCounts, TreeCardinality DEF TreeInv, TreeStack, Resumed, Tree!CallsNest
  <1>2. Tree!LeafIsInnermost
    <2> SUFFICES ASSUME iterator = "at", ~pulling
                 PROVE  /\ status[Leaf] = "yielded" /\ treeValue[Leaf] = yields
                        /\ \A g \in Generators : status[g] = "yielded" => g = Leaf
                        /\ \A g \in Generators : status[g] = "waiting" =>
                             /\ child[g] # Root /\ m_parentOrLeaf[child[g]] = g /\ m_root[child[g]] = Root
                             /\ status[child[g]] \in {"waiting", "yielded"}
                        /\ \A g \in Generators \ {Root} : status[g] \in {"waiting", "yielded"} =>
                             status[m_parentOrLeaf[g]] = "waiting" /\ child[m_parentOrLeaf[g]] = g
      BY DEF Tree!LeafIsInnermost, Leaf
    <2>1. TreeStack /\ TreeLinks /\ TreeLeaf /\ status[Leaf] = "yielded" /\ stack = << >>
      BY DEF TreeInv, TreeConsumer, TreeStack
    <2>2. \A g \in Generators : status[g] \notin Resumed
      BY <2>1 DEF TreeStack
    <2>3. ASSUME NEW g \in Generators, status[g] = "waiting"
          PROVE  /\ child[g] # Root /\ m_parentOrLeaf[child[g]] = g /\ m_root[child[g]] = Root
                 /\ status[child[g]] \in {"waiting", "yielded"}
      BY <2>1, <2>2, <2>3 DEF TreeLinks, Resumed, Delegating, InTree
    <2>4. ASSUME NEW g \in Generators \ {Root}, status[g] \in {"waiting", "yielded"}
          PROVE  status[m_parentOrLeaf[g]] = "waiting" /\ child[m_parentOrLeaf[g]] = g
      BY <2>1, <2>2, <2>4, TreeTypes DEF TreeLinks, Resumed, Delegating, InTree
    <2>5. QED BY <2>1, <2>3, <2>4 DEF TreeLeaf
  <1>3. QED BY <1>1, <1>2 DEF TreeInv

(* async_generator, with and without symmetric transfer and for any number *)
(* of values: what m_state says of the other side is true, values arrive   *)
(* one by one and stay while the consumer looks, and the frame is          *)
(* destroyed only by who may.  recursive_generator, however many           *)
(* generators nest, complete and throw: the leaf that the consumer resumes *)
(* is the innermost one, the pointers to the parents lead back through all *)
(* that wait, and a coroutine is resumed only when it is suspended.        *)
THEOREM GeneratorsAreSafe == MCSpec => GeneratorsSafe
  <1>1. MCInit => StreamInv /\ TreeInv
    BY StreamInit, TreeInit DEF MCInit
  <1>2. [MCNext]_<<chosen, vars, taskVars, joinVars, generatorVars>> => [Stream!Next]_Stream!vars /\ [Tree!Next]_Tree!vars
    BY DEF MCNext, GeneratorNext, generatorVars, streamVars, treeVars, Stream!vars, Tree!vars
  <1>3. StreamInv /\ [Stream!Next]_Stream!vars =>
          [consumer # "destroyed" /\ producer' = "destroyed" => Stream!ProducerAtRest /\ nested # "producer"]_Stream!vars
    BY StreamFrame DEF Stream!vars
  <1>4. QED BY <1>1, <1>2, <1>3, StreamStep, TreeStep, StreamInvSuffices, TreeInvSuffices, PTL
            DEF MCSpec, GeneratorsSafe, Stream!FrameIsNotInUse
=============================================================================
