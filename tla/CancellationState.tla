-------------------------- MODULE CancellationState --------------------------
(***************************************************************************)
(* cppcoro::detail::cancellation_state (lib/cancellation_state.cpp) with   *)
(* the cancellation_source, cancellation_token and                         *)
(* cancellation_registration objects that share it.                        *)
(*                                                                         *)
(* The lists of chunks of entries are one array of entries, in the order   *)
(* in which request_cancellation() visits them.  add_registration() claims *)
(* a free one: hash of the thread, the approximate free counts and the     *)
(* allocation of lists and chunks only decide which.  An entry of a chunk  *)
(* that is not allocated yet is nullptr to whoever reads it.               *)
(*                                                                         *)
(* Each registration is constructed and destroyed by a thread of its own   *)
(* that holds a token, or is destroyed inside a callback.  A canceller is  *)
(* a thread that holds a cancellation_source.                              *)
(***************************************************************************)
EXTENDS Naturals, FiniteSets

CONSTANTS Registrations,   \* cancellation_registration objects
          Cancellers,      \* threads with a cancellation_source
          Entries,         \* number of entries, of all lists and chunks
          Nothing          \* nullptr

VARIABLES
  requested,             \* cancellation_requested_flag of m_state
  notified,              \* cancellation_notification_complete_flag
  sourceRefs,            \* bits 2-32 of m_state
  tokenRefs,             \* bits 33-63
  deleted,               \* `delete this' was executed
  m_registrationState,   \* is it allocated
  m_notificationThreadId,
  m_entries,             \* the registration in each entry
  entryIndex,            \* m_chunk and m_entryIndex of each registration
  pc,                    \* where the thread of each registration, or canceller, is
  position,              \* the entry a canceller looks at
  running,               \* the callback a canceller runs
  calls                  \* how often each callback was started

flags == <<requested, notified>>
refs == <<sourceRefs, tokenRefs, deleted>>
registry == <<m_registrationState, m_notificationThreadId, m_entries, entryIndex>>
canceller == <<position, running>>
vars == <<flags, refs, registry, pc, canceller, calls>>

RegistrationLabels ==
  {"token", "checked", "add", "recheck", "remove", "callback", "registered",
   "deregister", "wait", "release", "destroyed"}
CancellerLabels == {"source", "load", "scan", "acquire", "called", "complete", "release", "gone"}

TypeOK ==
  /\ requested \in BOOLEAN
  /\ notified \in BOOLEAN
  /\ sourceRefs \in 0 .. Cardinality(Cancellers)
  /\ tokenRefs \in 0 .. Cardinality(Registrations)
  /\ deleted \in BOOLEAN
  /\ m_registrationState \in BOOLEAN
  /\ m_notificationThreadId \in Cancellers \cup {Nothing}
  /\ m_entries \in [1 .. Entries -> Registrations \cup {Nothing}]
  /\ entryIndex \in [Registrations -> 0 .. Entries]
  /\ \A r \in Registrations : pc[r] \in RegistrationLabels
  /\ \A q \in Cancellers : pc[q] \in CancellerLabels
  /\ position \in [Cancellers -> 1 .. Entries + 1]
  /\ running \in [Cancellers -> Registrations \cup {Nothing}]
  /\ calls \in [Registrations -> Nat]

(* Every canceller has a copy of the source and every thread that will     *)
(* register has a token.                                                   *)
Init ==
  /\ requested = FALSE
  /\ notified = FALSE
  /\ sourceRefs = Cardinality(Cancellers)
  /\ tokenRefs = Cardinality(Registrations)
  /\ deleted = FALSE
  /\ m_registrationState = FALSE
  /\ m_notificationThreadId = Nothing
  /\ m_entries = [i \in 1 .. Entries |-> Nothing]
  /\ entryIndex = [r \in Registrations |-> 0]
  /\ pc = [t \in Registrations \cup Cancellers |->
             IF t \in Registrations THEN "token" ELSE "source"]
  /\ position = [q \in Cancellers |-> 1]
  /\ running = [q \in Cancellers |-> Nothing]
  /\ calls = [r \in Registrations |-> 0]

Goto(t, label) == pc' = [pc EXCEPT ![t] = label]

-----------------------------------------------------------------------------
(* Reference counts: the release that takes the last reference of both     *)
(* kinds deletes the state.                                                *)

ReleaseTokenRef ==
  /\ tokenRefs' = tokenRefs - 1
  /\ deleted' = (deleted \/ (tokenRefs = 1 /\ sourceRefs = 0))
  /\ UNCHANGED sourceRefs

(* A slip: the last source deletes the state even if tokens are left.      *)
ReleaseSourceRefAlone ==
  /\ sourceRefs' = sourceRefs - 1
  /\ deleted' = (deleted \/ sourceRefs = 1)
  /\ UNCHANGED tokenRefs

ReleaseSourceRef ==
  /\ sourceRefs' = sourceRefs - 1
  /\ deleted' = (deleted \/ (sourceRefs = 1 /\ tokenRefs = 0))
  /\ UNCHANGED tokenRefs

(* The registration object drops the token it was constructed from or its  *)
(* own reference.                                                          *)
Release(r) ==
  /\ pc[r] = "release"
  /\ ReleaseTokenRef
  /\ entryIndex' = [entryIndex EXCEPT ![r] = 0]
  /\ Goto(r, "destroyed")
  /\ UNCHANGED <<flags, m_registrationState, m_notificationThreadId, m_entries, canceller,
                 calls>>

-----------------------------------------------------------------------------
(* cancellation_registration::register_callback, try_register_callback.    *)

(* can_be_cancelled(): a source is left, or cancellation was requested.    *)
(* When it cannot be cancelled the registration refers to no state.        *)
RegisterChecks(r) ==
  /\ pc[r] = "token"
  /\ Goto(r, IF sourceRefs > 0 \/ requested THEN "checked" ELSE "release")
  /\ UNCHANGED <<flags, refs, registry, canceller, calls>>

(* The first check of the flag, and allocation of the registration state   *)
(* if there is none.                                                       *)
RegisterStarts(r) ==
  /\ pc[r] = "checked"
  /\ \/ /\ requested
        /\ Goto(r, "callback")
        /\ UNCHANGED m_registrationState
     \/ /\ ~requested
        /\ Goto(r, "add")
        /\ m_registrationState' = TRUE
  /\ UNCHANGED <<flags, refs, m_notificationThreadId, m_entries, entryIndex, canceller,
                 calls>>

(* add_registration(): a free entry is claimed by a compare-exchange.      *)
AddRegistration(r) ==
  /\ pc[r] = "add"
  /\ \E i \in 1 .. Entries :
       /\ m_entries[i] = Nothing
       /\ m_entries' = [m_entries EXCEPT ![i] = r]
       /\ entryIndex' = [entryIndex EXCEPT ![r] = i]
  /\ Goto(r, "recheck")
  /\ UNCHANGED <<flags, refs, m_registrationState, m_notificationThreadId, canceller, calls>>

(* A slip: the flag is not checked again.                                  *)
RegisterTrustsFirstCheck(r) ==
  /\ pc[r] = "recheck"
  /\ Goto(r, "registered")
  /\ UNCHANGED <<flags, refs, registry, canceller, calls>>

RegisterRechecks(r) ==
  /\ pc[r] = "recheck"
  /\ Goto(r, IF requested THEN "remove" ELSE "registered")
  /\ UNCHANGED <<flags, refs, registry, canceller, calls>>

(* entry.compare_exchange_strong(registration, nullptr)                    *)
TakeBack(r) == m_entries' = [m_entries EXCEPT ![entryIndex[r]] = Nothing]

(* Cancellation was requested meanwhile: the registration is taken back,   *)
(* or a canceller has taken it and will call the callback.                 *)
RegisterRemoves(r) ==
  /\ pc[r] = "remove"
  /\ \/ /\ m_entries[entryIndex[r]] = r
        /\ TakeBack(r)
        /\ Goto(r, "callback")
     \/ /\ m_entries[entryIndex[r]] # r
        /\ Goto(r, "registered")
        /\ UNCHANGED m_entries
  /\ UNCHANGED <<flags, refs, m_registrationState, m_notificationThreadId, entryIndex, canceller,
                 calls>>

(* try_register_callback returned false: the constructor calls the         *)
(* callback and the registration refers to no state.                       *)
RegisterCalls(r) ==
  /\ pc[r] = "callback"
  /\ calls' = [calls EXCEPT ![r] = @ + 1]
  /\ Goto(r, "release")
  /\ UNCHANGED <<flags, refs, registry, canceller>>

Register(r) ==
  \/ RegisterChecks(r)
  \/ RegisterStarts(r)
  \/ AddRegistration(r)
  \/ RegisterRechecks(r)
  \/ RegisterRemoves(r)
  \/ RegisterCalls(r)

-----------------------------------------------------------------------------
(* cancellation_registration::~cancellation_registration,                  *)
(* deregister_callback.                                                    *)

Destroy(r) ==
  /\ pc[r] = "registered"
  /\ Goto(r, "deregister")
  /\ UNCHANGED <<flags, refs, registry, canceller, calls>>

Deregisters(r) ==
  /\ pc[r] = "deregister"
  /\ m_entries[entryIndex[r]] = r
  /\ TakeBack(r)
  /\ Goto(r, "release")
  /\ UNCHANGED <<flags, refs, m_registrationState, m_notificationThreadId, entryIndex, canceller,
                 calls>>

(* A slip: the destructor does not wait for a callback that is running.    *)
DeregisterDoesNotWait(r) ==
  /\ pc[r] = "deregister"
  /\ m_entries[entryIndex[r]] # r
  /\ Goto(r, "release")
  /\ UNCHANGED <<flags, refs, registry, canceller, calls>>

(* A canceller has taken the registration; this thread is not the one.     *)
DeregisterTooLate(r) ==
  /\ pc[r] = "deregister"
  /\ m_entries[entryIndex[r]] # r
  /\ Goto(r, "wait")
  /\ UNCHANGED <<flags, refs, registry, canceller, calls>>

DeregisterWaits(r) ==
  /\ pc[r] = "wait"
  /\ notified
  /\ Goto(r, "release")
  /\ UNCHANGED <<flags, refs, registry, canceller, calls>>

Deregister(r) == Deregisters(r) \/ DeregisterTooLate(r) \/ DeregisterWaits(r)

-----------------------------------------------------------------------------
(* cancellation_state::request_cancellation.                               *)

(* Somebody, maybe this thread, has requested it before.                   *)
RequestIsNoOp(q) ==
  /\ pc[q] \in {"source", "complete"}
  /\ requested
  /\ Goto(q, "release")
  /\ UNCHANGED <<flags, refs, registry, canceller, calls>>

RequestCancellation(q) ==
  /\ pc[q] = "source"
  /\ ~requested
  /\ requested' = TRUE
  /\ Goto(q, "load")
  /\ UNCHANGED <<notified, refs, registry, canceller, calls>>

(* A source may also be destroyed without a request.                       *)
DestroySource(q) ==
  /\ pc[q] = "source"
  /\ Goto(q, "release")
  /\ UNCHANGED <<flags, refs, registry, canceller, calls>>

RequestLoads(q) ==
  /\ pc[q] = "load"
  /\ \/ /\ m_registrationState
        /\ m_notificationThreadId' = q
        /\ Goto(q, "scan")
     \/ /\ ~m_registrationState
        /\ Goto(q, "release")
        /\ UNCHANGED m_notificationThreadId
  /\ UNCHANGED <<flags, refs, m_registrationState, m_entries, entryIndex, canceller, calls>>

NextEntry(q) == position' = [position EXCEPT ![q] = @ + 1]

ScanSkips(q) ==
  /\ pc[q] = "scan"
  /\ position[q] <= Entries
  /\ m_entries[position[q]] = Nothing
  /\ NextEntry(q)
  /\ UNCHANGED <<flags, refs, registry, pc, running, calls>>

ScanFinds(q) ==
  /\ pc[q] = "scan"
  /\ position[q] <= Entries
  /\ m_entries[position[q]] # Nothing
  /\ Goto(q, "acquire")
  /\ UNCHANGED <<flags, refs, registry, canceller, calls>>

(* entry.exchange(nullptr): ownership of whatever registration is in the   *)
(* entry by now; its callback is called.                                   *)
ScanAcquires(q) ==
  LET i == position[q]
      r == m_entries[i]
  IN /\ pc[q] = "acquire"
     /\ \/ /\ r # Nothing
           /\ m_entries' = [m_entries EXCEPT ![i] = Nothing]
           /\ running' = [running EXCEPT ![q] = r]
           /\ calls' = [calls EXCEPT ![r] = @ + 1]
           /\ Goto(q, "called")
           /\ UNCHANGED position
        \/ /\ r = Nothing
           /\ NextEntry(q)
           /\ Goto(q, "scan")
           /\ UNCHANGED <<m_entries, running, calls>>
     /\ UNCHANGED <<flags, refs, m_registrationState, m_notificationThreadId, entryIndex>>

(* The callback destroys a registration, its own or another one, on this   *)
(* thread: one that is already taken is not waited for.                    *)
CallbackDestroys(q, r) ==
  /\ pc[q] = "called"
  /\ pc[r] = "registered"
  /\ \/ /\ m_entries[entryIndex[r]] = r
        /\ TakeBack(r)
     \/ /\ m_entries[entryIndex[r]] # r
        /\ m_notificationThreadId = q
        /\ UNCHANGED m_entries
  /\ ReleaseTokenRef
  /\ entryIndex' = [entryIndex EXCEPT ![r] = 0]
  /\ Goto(r, "destroyed")
  /\ UNCHANGED <<flags, m_registrationState, m_notificationThreadId, canceller, calls>>

CallbackReturns(q) ==
  /\ pc[q] = "called"
  /\ running' = [running EXCEPT ![q] = Nothing]
  /\ NextEntry(q)
  /\ Goto(q, "scan")
  /\ UNCHANGED <<flags, refs, registry, calls>>

(* A slip: completion is never announced.                                  *)
ScanEndsSilently(q) ==
  /\ pc[q] = "scan"
  /\ position[q] > Entries
  /\ Goto(q, "complete")
  /\ UNCHANGED <<flags, refs, registry, canceller, calls>>

ScanEnds(q) ==
  /\ pc[q] = "scan"
  /\ position[q] > Entries
  /\ notified' = TRUE
  /\ Goto(q, "complete")
  /\ UNCHANGED <<requested, refs, registry, canceller, calls>>

(* The canceller destroys its source.                                      *)
ReleaseSource(q) ==
  /\ pc[q] \in {"complete", "release"}
  /\ ReleaseSourceRef
  /\ Goto(q, "gone")
  /\ UNCHANGED <<flags, registry, canceller, calls>>

Request(q) ==
  \/ RequestIsNoOp(q)
  \/ RequestCancellation(q)
  \/ RequestLoads(q)
  \/ ScanSkips(q)
  \/ ScanFinds(q)
  \/ ScanAcquires(q)
  \/ CallbackReturns(q)
  \/ ScanEnds(q)
  \/ ReleaseSource(q)

Next ==
  \/ \E r \in Registrations : Register(r) \/ Destroy(r) \/ Deregister(r) \/ Release(r)
  \/ \E q \in Cancellers :
       Request(q) \/ DestroySource(q) \/ \E r \in Registrations : CallbackDestroys(q, r)

(* Threads that are inside of a call go on, and so do callbacks.           *)
Spec ==
  /\ Init /\ [][Next]_vars
  /\ \A r \in Registrations : WF_vars(Register(r) \/ Deregister(r) \/ Release(r))
  /\ \A q \in Cancellers : WF_vars(pc[q] # "source" /\ Request(q))

-----------------------------------------------------------------------------
(* What makes cancellation correct.                                        *)

(* A callback is called once, by the constructor or by a canceller, and by *)
(* nobody once its registration is destroyed ("After the destructor        *)
(* returns it is guaranteed that the callback will not be subsequently     *)
(* called"); nor does the destructor return on another thread while it     *)
(* runs.                                                                   *)
CallbackNotAfterDestruction ==
  /\ \A r \in Registrations : calls[r] <= 1
  /\ \A q \in Cancellers : running[q] # Nothing => pc[running[q]] # "release"
  /\ \A i \in 1 .. Entries :
       m_entries[i] # Nothing => pc[m_entries[i]] \notin {"release", "destroyed"}

(* No registration is missed: once the canceller has visited every entry   *)
(* and the constructor has returned, the callback has been started,        *)
(* however the visit and the registration were interleaved.                *)
NoCallbackMissed ==
  \A r \in Registrations : notified /\ pc[r] = "registered" => calls[r] = 1

(* The state is deleted with its last reference, once, and nobody who may  *)
(* use it is left then.                                                    *)
DeletedWhenUnused ==
  /\ TypeOK
  /\ deleted <=> /\ \A r \in Registrations : pc[r] = "destroyed"
                 /\ \A q \in Cancellers : pc[q] = "gone"

(* A thread in ~cancellation_registration is not stuck there if the        *)
(* callbacks return.                                                       *)
DestructorReturns ==
  \A r \in Registrations : (pc[r] = "deregister") ~> (pc[r] = "destroyed")
=============================================================================
