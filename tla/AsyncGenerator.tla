--------------------------- MODULE AsyncGenerator ---------------------------
(***************************************************************************)
(* cppcoro::async_generator (async_generator.hpp): a producer coroutine    *)
(* that yields values to a consumer coroutine, in both builds.  With       *)
(* symmetric transfer control is handed over and m_state does not exist;   *)
(* without it the two hand over with m_state, each may find the other      *)
(* still running, and the one that finds the other suspended resumes it as *)
(* a nested call.                                                          *)
(*                                                                         *)
(* Both may also co_await something else between two uses of the generator *)
(* and be resumed by another thread.  A nested call then returns, so that  *)
(* producer and consumer run at the same time.                             *)
(***************************************************************************)
EXTENDS Integers

CONSTANT MaxValues   \* bound: how many values are yielded

VARIABLES
  symmetric,        \* the compiler supports symmetric transfer
  m_state,          \* value_not_ready_consumer_active (VNRCA), ... (VNRCS, VRPA, VRPS), cancelled
  m_currentValue,   \* 0 when it is nullptr: the sequence has ended
  m_exception,
  producer,         \* where the producer is
  consumer,         \* where the consumer is
  nested,           \* who runs inside the other's call of resume(), or "nobody"
  seenState,        \* what the consumer's advance operation saw in m_state
  yielded, received \* how many values were yielded and have reached the consumer

vars == <<symmetric, m_state, m_currentValue, m_exception, producer, consumer, nested, seenState, yielded, received>>

States == {"VNRCA", "VNRCS", "VRPA", "VRPS", "cancelled"}

TypeOK ==
  /\ symmetric \in BOOLEAN
  /\ m_state \in States
  /\ m_currentValue \in 0..MaxValues
  /\ m_exception \in BOOLEAN
  /\ producer \in {"initial", "running", "elsewhere", "yield", "resuming", "reload", "suspend_first", "suspend",
                   "suspended", "destroyed"}
  /\ consumer \in {"active", "elsewhere", "resuming", "reload", "made", "suspend", "suspended", "resumed",
                   "ended", "destroyed"}
  /\ nested \in {"nobody", "producer", "consumer"}
  /\ seenState \in States
  /\ yielded \in 0..MaxValues /\ received \in 0..MaxValues

Init ==
  /\ symmetric \in BOOLEAN
  /\ m_state = "VRPS"
  /\ m_currentValue = 0
  /\ m_exception = FALSE
  /\ producer = "initial"
  /\ consumer = "active"
  /\ nested = "nobody"
  /\ seenState = "VRPS"
  /\ yielded = 0 /\ received = 0

(* Control leaves coroutine x: if it ran in the other's call of resume(),  *)
(* that call returns.                                                      *)
ProducerGoes(label) ==
  /\ producer' = label
  /\ nested' = IF nested = "producer" THEN "nobody" ELSE nested
  /\ consumer' = IF nested = "producer" THEN "reload" ELSE consumer

ConsumerGoes(label) ==
  /\ consumer' = label
  /\ nested' = IF nested = "consumer" THEN "nobody" ELSE nested
  /\ producer' = IF nested = "consumer" THEN "reload" ELSE producer

-----------------------------------------------------------------------------
(* The producer                                                            *)

ProducerAwaitsElsewhere ==
  /\ producer = "running"
  /\ ProducerGoes("elsewhere")
  /\ UNCHANGED <<symmetric, m_state, m_currentValue, m_exception, seenState, yielded, received>>

ProducerResumedElsewhere ==
  /\ producer = "elsewhere"
  /\ producer' = "running"
  /\ UNCHANGED <<symmetric, m_state, m_currentValue, m_exception, consumer, nested, seenState, yielded, received>>

(* The yield operation with symmetric transfer hands control over; without *)
(* it internal_yield_value() comes first.                                  *)
TransferToConsumer ==
  /\ producer' = IF symmetric THEN "suspended" ELSE "yield"
  /\ consumer' = IF symmetric THEN "resumed" ELSE consumer

(* yield_value()                                                           *)
YieldValue ==
  /\ producer = "running"
  /\ yielded < MaxValues
  /\ yielded' = yielded + 1
  /\ m_currentValue' = yielded + 1
  /\ TransferToConsumer
  /\ UNCHANGED <<symmetric, m_state, m_exception, nested, seenState, received>>

(* The body ends, by co_return or by an exception that is kept unless      *)
(* nobody will see it: final_suspend() yields no value.                    *)
BodyEnds ==
  /\ producer = "running"
  /\ \E thrown \in BOOLEAN : m_exception' = (thrown /\ m_state # "cancelled")
  /\ m_currentValue' = 0
  /\ TransferToConsumer
  /\ UNCHANGED <<symmetric, m_state, nested, seenState, yielded, received>>

(* internal_yield_value(): a suspended consumer is resumed here and now;   *)
(* otherwise the producer tries to suspend, unless it was cancelled.       *)
InternalYieldValue ==
  /\ producer = "yield"
  /\ \/ /\ m_state = "VNRCS"
        /\ m_state' = "VRPA"
        /\ producer' = "resuming"
        /\ consumer' = "resumed"
        /\ nested' = "consumer"
     \/ /\ m_state # "VNRCS"
        /\ producer' = IF m_state = "cancelled" THEN "destroyed" ELSE "suspend_first"
        /\ UNCHANGED <<m_state, consumer, nested>>
  /\ UNCHANGED <<symmetric, m_currentValue, m_exception, seenState, yielded, received>>

(* yield_operation::await_suspend() while the consumer was last seen       *)
(* active: it suspends, or finds that the consumer has suspended and       *)
(* resumes it, or that the generator is gone.                              *)
SuspendFirst ==
  /\ producer = "suspend_first"
  /\ \/ m_state = "VNRCA" /\ m_state' = "VRPS" /\ ProducerGoes("suspended")
     \/ /\ m_state = "VNRCS"
        /\ m_state' = "VRPA"
        /\ producer' = "resuming"
        /\ consumer' = "resumed"
        /\ nested' = "consumer"
     \/ m_state = "cancelled" /\ ProducerGoes("destroyed") /\ UNCHANGED m_state
  /\ UNCHANGED <<symmetric, m_currentValue, m_exception, seenState, yielded, received>>

(* The call of m_consumerCoroutine.resume() has returned: goes on if the   *)
(* consumer waits for the next value already.                              *)
ProducerReloads ==
  /\ producer = "reload"
  /\ producer' = CASE m_state = "VNRCS" -> "running"
                   [] m_state = "VRPA" -> "suspend"
                   [] OTHER -> "destroyed"
  /\ UNCHANGED <<symmetric, m_state, m_currentValue, m_exception, consumer, nested, seenState, yielded, received>>

(* A slip: the producer suspends without looking at what the consumer did. *)
SuspendBlindly ==
  /\ producer = "suspend"
  /\ m_state' = "VRPS"
  /\ producer' = "suspended"
  /\ UNCHANGED <<symmetric, m_currentValue, m_exception, consumer, nested, seenState, yielded, received>>

(* The compare_exchange that suspends the producer, the consumer active.   *)
Suspend ==
  /\ producer = "suspend"
  /\ m_state' = IF m_state = "VRPA" THEN "VRPS" ELSE m_state
  /\ producer' = CASE m_state = "VRPA" -> "suspended"
                   [] m_state = "VNRCS" -> "running"
                   [] OTHER -> "destroyed"
  /\ UNCHANGED <<symmetric, m_currentValue, m_exception, consumer, nested, seenState, yielded, received>>

-----------------------------------------------------------------------------
(* The consumer                                                            *)

ConsumerAwaitsElsewhere ==
  /\ \/ consumer = "active" /\ ConsumerGoes("elsewhere")
     \/ consumer = "ended" /\ nested = "consumer" /\ ConsumerGoes("ended")
  /\ UNCHANGED <<symmetric, m_state, m_currentValue, m_exception, seenState, yielded, received>>

ConsumerResumedElsewhere ==
  /\ consumer = "elsewhere"
  /\ consumer' = "active"
  /\ UNCHANGED <<symmetric, m_state, m_currentValue, m_exception, producer, nested, seenState, yielded, received>>

(* With symmetric transfer, co_await of begin() or operator++().           *)
TransferToProducer ==
  /\ symmetric
  /\ consumer = "active"
  /\ consumer' = "suspended"
  /\ producer' = "running"
  /\ UNCHANGED <<symmetric, m_state, m_currentValue, m_exception, nested, seenState, yielded, received>>

(* The advance operation made by begin() or operator++(): a suspended      *)
(* producer is resumed here and now.                                       *)
MakeAdvanceOperation ==
  /\ ~symmetric
  /\ consumer = "active"
  /\ \/ /\ m_state = "VRPS"
        /\ m_state' = "VNRCA"
        /\ consumer' = "resuming"
        /\ producer' = "running"
        /\ nested' = "producer"
        /\ UNCHANGED seenState
     \/ /\ m_state # "VRPS"
        /\ consumer' = "made"
        /\ seenState' = m_state
        /\ UNCHANGED <<m_state, producer, nested>>
  /\ UNCHANGED <<symmetric, m_currentValue, m_exception, yielded, received>>

(* The call of producerCoroutine.resume() has returned.                    *)
ConsumerReloads ==
  /\ consumer = "reload"
  /\ consumer' = "made"
  /\ seenState' = m_state
  /\ UNCHANGED <<symmetric, m_state, m_currentValue, m_exception, producer, nested, yielded, received>>

(* co_await of the operation: await_ready(), and await_suspend() up to its *)
(* last compare_exchange.                                                  *)
AwaitAdvance ==
  /\ consumer = "made"
  /\ \/ seenState = "VRPS" /\ consumer' = "resumed" /\ UNCHANGED <<m_state, producer, nested>>
     \/ seenState = "VNRCA" /\ consumer' = "suspend" /\ UNCHANGED <<m_state, producer, nested>>
     \/ seenState = "VRPA" /\ m_state = "VRPA" /\ m_state' = "VNRCS" /\ ConsumerGoes("suspended")
     \/ /\ seenState = "VRPA" /\ m_state # "VRPA"
        /\ m_state' = "VNRCA"
        /\ consumer' = "resuming"
        /\ producer' = "running"
        /\ nested' = "producer"
  /\ UNCHANGED <<symmetric, m_currentValue, m_exception, seenState, yielded, received>>

(* A slip: the consumer suspends although the value is there by now.       *)
ConsumerSuspendsBlindly ==
  /\ consumer = "suspend"
  /\ m_state' = "VNRCS"
  /\ ConsumerGoes("suspended")
  /\ UNCHANGED <<symmetric, m_currentValue, m_exception, seenState, yielded, received>>

(* The compare_exchange that suspends the consumer, or finds that the      *)
(* producer has yielded and suspended meanwhile.                           *)
ConsumerSuspends ==
  /\ consumer = "suspend"
  /\ \/ m_state = "VNRCA" /\ m_state' = "VNRCS" /\ ConsumerGoes("suspended")
     \/ m_state # "VNRCA" /\ consumer' = "resumed" /\ UNCHANGED <<m_state, producer, nested>>
  /\ UNCHANGED <<symmetric, m_currentValue, m_exception, seenState, yielded, received>>

(* await_resume(): a value, or the end of the sequence and its exception.  *)
AwaitResume ==
  /\ consumer = "resumed"
  /\ \/ m_currentValue # 0 /\ consumer' = "active" /\ received' = m_currentValue /\ UNCHANGED m_exception
     \/ m_currentValue = 0 /\ consumer' = "ended" /\ m_exception' = FALSE /\ UNCHANGED received
  /\ UNCHANGED <<symmetric, m_state, m_currentValue, producer, nested, seenState, yielded>>

(* A slip: the frame is destroyed although its coroutine still runs.       *)
DestroyGeneratorAtOnce ==
  /\ consumer \in {"active", "made", "ended"}
  /\ m_state' = IF symmetric THEN m_state ELSE "cancelled"
  /\ consumer' = "destroyed"
  /\ nested' = IF nested = "consumer" THEN "nobody" ELSE nested
  /\ producer' = "destroyed"
  /\ UNCHANGED <<symmetric, m_currentValue, m_exception, seenState, yielded, received>>

(* ~async_generator(): destroys the frame, or leaves that to the producer  *)
(* when it next yields.  A nested consumer is done then, and returns.      *)
DestroyGenerator ==
  /\ consumer \in {"active", "made", "ended"}
  /\ m_state' = IF symmetric THEN m_state ELSE "cancelled"
  /\ consumer' = "destroyed"
  /\ nested' = IF nested = "consumer" THEN "nobody" ELSE nested
  /\ producer' = CASE symmetric \/ m_state = "VRPS" -> "destroyed"
                   [] nested = "consumer" -> "reload"
                   [] OTHER -> producer
  /\ UNCHANGED <<symmetric, m_currentValue, m_exception, seenState, yielded, received>>

-----------------------------------------------------------------------------
ProducerStep ==
  \/ ProducerResumedElsewhere \/ YieldValue \/ BodyEnds \/ InternalYieldValue
  \/ SuspendFirst \/ ProducerReloads \/ Suspend

ConsumerStep ==
  \/ TransferToProducer \/ MakeAdvanceOperation \/ ConsumerReloads \/ AwaitAdvance
  \/ ConsumerSuspends \/ AwaitResume \/ ConsumerResumedElsewhere

Next ==
  ProducerStep \/ ProducerAwaitsElsewhere \/ ConsumerStep \/ ConsumerAwaitsElsewhere \/ DestroyGenerator

(* A producer that runs reaches its next co_yield or its end; a consumer   *)
(* goes on with a co_await that it has begun.                              *)
ProducerProceeds == InternalYieldValue \/ SuspendFirst \/ ProducerReloads \/ Suspend
BodyProceeds == YieldValue \/ BodyEnds
ConsumerProceeds == ConsumerReloads \/ AwaitAdvance \/ ConsumerSuspends \/ AwaitResume

Spec ==
  /\ Init /\ [][Next]_vars
  /\ WF_vars(ProducerProceeds) /\ WF_vars(ProducerResumedElsewhere) /\ SF_vars(BodyProceeds)
  /\ WF_vars(ConsumerProceeds)

-----------------------------------------------------------------------------
ProducerAtRest == producer \in {"initial", "suspended"}

(* What m_state says of the other side is true, so that a coroutine is     *)
(* resumed only when it is suspended, and the two never wait for each      *)
(* other.                                                                  *)
StateIsTrue ==
  /\ ~symmetric /\ m_state = "VNRCS" => consumer = "suspended"
  /\ ~symmetric /\ m_state = "VRPS" => ProducerAtRest
  /\ consumer = "suspended" => ~ProducerAtRest
  /\ nested = "consumer" => producer = "resuming"
  /\ nested = "producer" => consumer = "resuming"

(* The value that the consumer looks at lives in the producer's frame: as  *)
(* long as it does, the producer has not gone on past its co_yield, and    *)
(* values arrive one by one, none twice and none missing.                  *)
ValueIsStable ==
  /\ consumer \in {"active", "elsewhere"} =>
       /\ producer \in {"initial", "resuming", "reload", "suspend", "suspended"}
       /\ received = m_currentValue /\ yielded = received
  /\ consumer = "resumed" => m_currentValue \in {0, received + 1}

(* The frame goes with the generator object, or is left to a producer that *)
(* will find out.                                                          *)
DestroyedWhenUnused ==
  /\ producer = "destroyed" => consumer = "destroyed" /\ nested # "producer"
  /\ consumer = "destroyed" =>
       \/ producer = "destroyed"
       \/ ~symmetric /\ m_state = "cancelled" /\ ~ProducerAtRest

(* The generator object destroys the frame only while its coroutine is     *)
(* suspended for good: in nobody's hands and not on its way to suspend.    *)
FrameIsNotInUse ==
  [][consumer # "destroyed" /\ producer' = "destroyed" => ProducerAtRest /\ nested # "producer"]_vars

(* A consumer that waits for a value is resumed; and a generator that is   *)
(* destroyed takes its coroutine with it, at the latest when that yields.  *)
ConsumerIsResumed == consumer = "suspended" ~> consumer = "resumed"
FrameIsDestroyed == consumer = "destroyed" ~> producer = "destroyed"
=============================================================================
