------------------------ MODULE AclSchedulerProofs --------------------------
(***************************************************************************)
(* The invariants of AclScheduler for any set of addresses and any number  *)
(* of operations.                                                          *)
(***************************************************************************)
EXTENDS AclScheduler, SequenceTheorems, TLAPS

\* The four invariants together are inductive.
SchedInv == SchedTypeOK /\ NoIdleQueue /\ ExactlyOneCallback /\ StartedInOrder

\* What the invariants say of a queue q, of the operations st started and ca
\* cancelled, and of the number n of operations.
Ids(q) == {q[i].id : i \in DOMAIN q}
Accounted(q, st, ca, n) ==
  /\ q \in Seq(Entry) /\ n \in Nat
  /\ Ids(q) \cup st \cup ca = 1..n
  /\ Ids(q) \cap st = {} /\ Ids(q) \cap ca = {} /\ st \cap ca = {}
  /\ \A i, j \in DOMAIN q : i < j => q[i].id < q[j].id
  /\ \A s \in st, p \in Ids(q) : s < p

-----------------------------------------------------------------------------
(* Operations on an accounted queue                                        *)

\* The entries of the queue carry natural numbers as their identities.
LEMMA EntryIds ==
  ASSUME NEW q \in Seq(Entry)
  PROVE  \A i \in 1..Len(q) : q[i].id \in Nat
<1> SUFFICES ASSUME NEW i \in 1..Len(q) PROVE q[i].id \in Nat
  OBVIOUS
<1>1. q[i] \in Entry
  BY ElementOfSeq
<1> QED
  BY <1>1 DEF Entry

\* Starting the first operation of the queue.
LEMMA AccountedStart ==
  ASSUME NEW q, NEW st, NEW ca, NEW n, Accounted(q, st, ca, n), q # <<>>
  PROVE  Accounted(Tail(q), st \cup {Head(q).id}, ca, n) /\ Head(q) \in Entry
<1>1. q \in Seq(Entry) /\ n \in Nat
  BY DEF Accounted
<1>2. /\ Tail(q) \in Seq(Entry) /\ Len(q) \in Nat /\ Len(q) > 0
      /\ DOMAIN q = 1..Len(q) /\ DOMAIN Tail(q) = 1..(Len(q) - 1)
      /\ Head(q) = q[1] /\ Head(q) \in Entry
      /\ \A i \in 1..(Len(q) - 1) : Tail(q)[i] = q[i+1]
  BY <1>1, HeadTailProperties, LenProperties, EmptySeq
<1>3. \A i \in 1..Len(q) : q[i].id \in Nat
  BY <1>1, EntryIds
<1>4. Ids(Tail(q)) = Ids(q) \ {q[1].id}
  <2>1. \A i \in 1..Len(q) : i # 1 => q[1].id < q[i].id
    BY <1>2 DEF Accounted
  <2>2. Ids(Tail(q)) \subseteq Ids(q) \ {q[1].id}
    BY <2>1, <1>2, <1>3 DEF Ids
  <2>3. ASSUME NEW x \in Ids(q), x # q[1].id PROVE x \in Ids(Tail(q))
    <3>1. PICK i \in 1..Len(q) : x = q[i].id
      BY <1>2 DEF Ids
    <3>2. i - 1 \in 1..(Len(q) - 1) /\ x = Tail(q)[i - 1].id
      BY <3>1, <2>3, <1>2
    <3> QED
      BY <3>2, <1>2 DEF Ids
  <2> QED
    BY <2>2, <2>3
<1>5. q[1].id \in Ids(q) /\ \A p \in Ids(Tail(q)) : q[1].id < p
  BY <1>2, <1>3 DEF Accounted, Ids
<1>6. \A i, j \in DOMAIN Tail(q) : i < j => Tail(q)[i].id < Tail(q)[j].id
  BY <1>2 DEF Accounted
<1> QED
  BY <1>1, <1>2, <1>4, <1>5, <1>6 DEF Accounted

\* Adding an operation at the end of the queue.
LEMMA AccountedAppend ==
  ASSUME NEW q, NEW st, NEW ca, NEW n, Accounted(q, st, ca, n),
         NEW e \in Entry, e.id = n + 1
  PROVE  Accounted(Append(q, e), st, ca, n + 1)
<1> DEFINE r == Append(q, e)
<1>1. q \in Seq(Entry) /\ n \in Nat
  BY DEF Accounted
<1>2. /\ r \in Seq(Entry) /\ Len(q) \in Nat
      /\ DOMAIN q = 1..Len(q) /\ DOMAIN r = 1..(Len(q) + 1)
      /\ r[Len(q) + 1] = e /\ \A i \in 1..Len(q) : r[i] = q[i]
  BY <1>1, AppendProperties, LenProperties
<1> HIDE DEF r
<1>3. Ids(r) = Ids(q) \cup {n + 1}
  <2>1. Ids(r) \subseteq Ids(q) \cup {n + 1}
    <3> SUFFICES ASSUME NEW i \in 1..(Len(q) + 1) PROVE r[i].id \in Ids(q) \cup {n + 1}
      BY <1>2 DEF Ids
    <3>1. i \in 1..Len(q) \/ i = Len(q) + 1
      BY <1>2
    <3> QED
      BY <3>1, <1>2 DEF Ids
  <2>2. \A i \in DOMAIN q : i \in DOMAIN r /\ r[i] = q[i]
    BY <1>2
  <2>3. Ids(q) \subseteq Ids(r)
    BY <2>2 DEF Ids
  <2>4. n + 1 \in Ids(r)
    <3>1. Len(q) + 1 \in DOMAIN r
      BY <1>2
    <3> QED
      BY <3>1, <1>2 DEF Ids
  <2> QED
    BY <2>1, <2>3, <2>4
<1>4. Ids(q) \subseteq 1..n /\ st \subseteq 1..n /\ ca \subseteq 1..n
  BY DEF Accounted
<1>5. \A i \in 1..Len(q) : q[i].id \in 1..n
  BY <1>4, <1>2 DEF Ids
<1>6. \A i, j \in DOMAIN r : i < j => r[i].id < r[j].id
  <2> SUFFICES ASSUME NEW i \in 1..(Len(q) + 1), NEW j \in 1..(Len(q) + 1), i < j
               PROVE  r[i].id < r[j].id
    BY <1>2
  <2>1. CASE j = Len(q) + 1
    BY <2>1, <1>1, <1>2, <1>5
  <2>2. CASE j \in 1..Len(q)
    BY <2>2, <1>2 DEF Accounted
  <2> QED
    BY <2>1, <2>2, <1>2
<1>7. /\ Ids(r) \cup st \cup ca = 1..(n + 1)
      /\ Ids(r) \cap st = {} /\ Ids(r) \cap ca = {} /\ st \cap ca = {}
  <2>1. 1..(n + 1) = (1..n) \cup {n + 1} /\ n + 1 \notin 1..n
    BY <1>1
  <2> QED
    BY <2>1, <1>3, <1>4 DEF Accounted
<1>8. \A s \in st, p \in Ids(r) : s < p
  BY <1>1, <1>3, <1>4 DEF Accounted
<1>9. Accounted(r, st, ca, n + 1)
  BY <1>1, <1>2, <1>6, <1>7, <1>8 DEF Accounted
<1> QED
  BY <1>9 DEF r

\* Cancelling an operation in the middle of the queue.
LEMMA AccountedCancel ==
  ASSUME NEW q, NEW st, NEW ca, NEW n, Accounted(q, st, ca, n),
         NEW k \in DOMAIN q
  PROVE  Accounted(RemoveAt(q, k), st, ca \cup {q[k].id}, n)
<1> DEFINE r == RemoveAt(q, k)
<1>1. q \in Seq(Entry) /\ n \in Nat
  BY DEF Accounted
<1>2. Len(q) \in Nat /\ DOMAIN q = 1..Len(q) /\ k \in 1..Len(q)
  BY <1>1, LenProperties
<1>3. /\ r \in Seq(Entry) /\ DOMAIN r = 1..(Len(q) - 1)
      /\ \A i \in 1..(Len(q) - 1) : r[i] = IF i < k THEN q[i] ELSE q[i + 1]
  <2> DEFINE a == SubSeq(q, 1, k - 1)
             b == SubSeq(q, k + 1, Len(q))
  <2>1. /\ a \in Seq(Entry) /\ Len(a) = k - 1
        /\ \A i \in 1..(k - 1) : a[i] = q[i]
    BY <1>1, <1>2, SubSeqProperties
  <2>2. /\ b \in Seq(Entry) /\ Len(b) = Len(q) - k
        /\ \A i \in 1..(Len(q) - k) : b[i] = q[k + i]
    BY <1>1, <1>2, SubSeqProperties
  <2>3. r = a \o b
    BY DEF RemoveAt
  <2> HIDE DEF a, b, r
  <2>4. /\ r \in Seq(Entry) /\ Len(r) = Len(a) + Len(b)
        /\ \A i \in 1..(Len(a) + Len(b)) : r[i] = IF i <= Len(a) THEN a[i]
                                                 ELSE b[i - Len(a)]
    BY <2>1, <2>2, <2>3, ConcatProperties
  <2>5. DOMAIN r = 1..(Len(q) - 1)
    BY <2>1, <2>2, <2>4, <1>2, LenProperties
  <2>6. ASSUME NEW i \in 1..(Len(q) - 1)
        PROVE  r[i] = IF i < k THEN q[i] ELSE q[i + 1]
    <3>1. CASE i < k
      BY <3>1, <2>1, <2>2, <2>4, <1>2
    <3>2. CASE ~(i < k)
      <4>1. i - (k - 1) \in 1..(Len(q) - k) /\ k + (i - (k - 1)) = i + 1
        BY <3>2, <1>2
      <4>2. r[i] = b[i - (k - 1)]
        BY <3>2, <2>1, <2>2, <2>4, <1>2
      <4> QED
        BY <3>2, <4>1, <4>2, <2>2
    <3> QED
      BY <3>1, <3>2
  <2> QED
    BY <2>4, <2>5, <2>6
<1> HIDE DEF r
<1>4. \A i, j \in 1..Len(q) : i < j => q[i].id < q[j].id
  BY <1>2 DEF Accounted
<1>5. \A i \in 1..Len(q) : q[i].id \in Nat
  BY <1>1, EntryIds
<1>6. Ids(r) = Ids(q) \ {q[k].id}
  <2>1. ASSUME NEW i \in 1..Len(q), i # k PROVE q[i].id # q[k].id
    <3>1. i < k \/ k < i
      BY <2>1, <1>2
    <3>2. q[i].id < q[k].id \/ q[k].id < q[i].id
      BY <3>1, <1>2, <1>4
    <3> QED
      BY <3>2, <1>2, <1>5
  <2>2. ASSUME NEW i \in 1..(Len(q) - 1) PROVE r[i].id \in Ids(q) \ {q[k].id}
    <3>1. PICK x \in 1..Len(q) : x # k /\ r[i] = q[x]
      <4>1. CASE i < k
        BY <4>1, <1>2, <1>3
      <4>2. CASE ~(i < k)
        BY <4>2, <1>2, <1>3
      <4> QED
        BY <4>1, <4>2
    <3>2. q[x].id # q[k].id
      BY <3>1, <2>1
    <3> QED
      BY <3>1, <3>2, <1>2 DEF Ids
  <2>3. ASSUME NEW i \in 1..Len(q), i # k PROVE q[i].id \in Ids(r)
    <3>1. CASE i < k
      BY <3>1, <1>2, <1>3 DEF Ids
    <3>2. CASE i > k
      <4>1. i - 1 \in 1..(Len(q) - 1) /\ r[i - 1] = q[i]
        BY <3>2, <1>2, <1>3
      <4> QED
        BY <4>1, <1>3 DEF Ids
    <3> QED
      BY <3>1, <3>2, <2>3, <1>2
  <2>4. Ids(r) \subseteq Ids(q) \ {q[k].id}
    BY <2>2, <1>3 DEF Ids
  <2>5. Ids(q) \ {q[k].id} \subseteq Ids(r)
    <3> SUFFICES ASSUME NEW i \in 1..Len(q), q[i].id # q[k].id PROVE q[i].id \in Ids(r)
      BY <1>2 DEF Ids
    <3> QED
      BY <2>3
  <2> QED
    BY <2>4, <2>5
<1>7. q[k].id \in Ids(q)
  BY DEF Ids
<1>8. ASSUME NEW i \in DOMAIN r, NEW j \in DOMAIN r, i < j
      PROVE  r[i].id < r[j].id
  <2>1. i \in 1..(Len(q) - 1) /\ j \in 1..(Len(q) - 1)
    BY <1>3
  <2>2. PICK x \in 1..Len(q) : x = (IF i < k THEN i ELSE i + 1) /\ r[i] = q[x]
    BY <2>1, <1>2, <1>3
  <2>3. PICK y \in 1..Len(q) : y = (IF j < k THEN j ELSE j + 1) /\ r[j] = q[y]
    BY <2>1, <1>2, <1>3
  <2>4. x < y
    BY <1>8, <2>1, <2>2, <2>3, <1>2
  <2> QED
    BY <2>2, <2>3, <2>4, <1>4
<1>9. Accounted(r, st, ca \cup {q[k].id}, n)
  BY <1>1, <1>3, <1>6, <1>7, <1>8 DEF Accounted
<1> QED
  BY <1>9 DEF r

-----------------------------------------------------------------------------
(* The invariant                                                           *)

\* The invariant is that the queue is accounted for and not idle for nothing.
LEMMA InvByAccount ==
  SchedInv <=> /\ outgoing_entry \subseteq Entry
               /\ incoming_addresses \subseteq Addresses
               /\ phase \in {"running", "stopped"}
               /\ NoIdleQueue
               /\ Accounted(pending_operations, started, cancelled, enqueued)
BY DEF SchedInv, SchedTypeOK, ExactlyOneCallback, StartedInOrder, PendingIds,
       Accounted, Ids

\* The same of the next state.
LEMMA InvByAccountNext ==
  SchedInv' <=> /\ outgoing_entry' \subseteq Entry
                /\ incoming_addresses' \subseteq Addresses
                /\ phase' \in {"running", "stopped"}
                /\ NoIdleQueue'
                /\ Accounted(pending_operations', started', cancelled', enqueued')
BY DEF SchedInv, SchedTypeOK, ExactlyOneCallback, StartedInOrder, PendingIds,
       Accounted, Ids

\* try_dequeue_next_operation establishes the invariant from an accounted
\* queue, whatever the outgoing entry and the incoming addresses.
LEMMA DequeueInv ==
  ASSUME NEW outgoing, NEW pending, NEW incoming, NEW callbacks, NEW n,
         outgoing \subseteq Entry, incoming \subseteq Addresses,
         phase \in {"running", "stopped"},
         Accounted(pending, started, cancelled, n), enqueued' = n,
         try_dequeue_next_operation(outgoing, pending, incoming, callbacks)
  PROVE  SchedInv'
<1>1. incoming_addresses' = incoming /\ phase' = phase /\ cancelled' = cancelled
  BY DEF try_dequeue_next_operation
<1>2. CASE MayDequeue(outgoing, pending, incoming)
  <2>1. /\ outgoing_entry' = {Head(pending)} /\ pending_operations' = Tail(pending)
        /\ started' = started \cup {Head(pending).id}
    BY <1>2 DEF try_dequeue_next_operation
  <2>2. /\ Accounted(Tail(pending), started \cup {Head(pending).id}, cancelled, n)
        /\ Head(pending) \in Entry
    BY <1>2, AccountedStart DEF MayDequeue
  <2>3. NoIdleQueue'
    BY <2>1 DEF NoIdleQueue
  <2> QED
    BY <1>1, <2>1, <2>2, <2>3, InvByAccountNext
<1>3. CASE ~MayDequeue(outgoing, pending, incoming)
  <2>1. /\ outgoing_entry' = outgoing /\ pending_operations' = pending
        /\ started' = started
    BY <1>3 DEF try_dequeue_next_operation
  <2>2. NoIdleQueue'
    BY <1>1, <1>3, <2>1 DEF NoIdleQueue, MayDequeue
  <2> QED
    BY <1>1, <2>1, <2>2, InvByAccountNext
<1> QED
  BY <1>2, <1>3

\* Every function of the scheduler preserves the invariant: those that do not
\* call try_dequeue_next_operation leave nothing that it could start.
LEMMA StepInv == SchedInv /\ [SchedNext]_sched_vars => SchedInv'
<1> SUFFICES ASSUME SchedInv, [SchedNext]_sched_vars PROVE SchedInv'
  OBVIOUS
<1>1. /\ outgoing_entry \subseteq Entry /\ incoming_addresses \subseteq Addresses
      /\ phase \in {"running", "stopped"} /\ NoIdleQueue
      /\ Accounted(pending_operations, started, cancelled, enqueued)
  BY InvByAccount
<1>2. enqueued \in Nat
  BY <1>1 DEF Accounted
<1>3. ASSUME NEW callbacks, NoEffect(callbacks) PROVE SchedInv'
  BY <1>1, <1>3, InvByAccountNext DEF NoEffect, NoIdleQueue
<1>4. CASE ReportOutgoingAclConnectionFailure
  BY <1>1, <1>3, <1>4, DequeueInv DEF ReportOutgoingAclConnectionFailure
<1>5. CASE ReportRemoteNameRequestCompletion
  BY <1>1, <1>3, <1>5, DequeueInv DEF ReportRemoteNameRequestCompletion
<1>6. CASE Stop
  BY <1>1, <1>6, InvByAccountNext DEF Stop, NoIdleQueue
<1>7. ASSUME NEW address \in Addresses, RegisterPendingIncomingConnection(address)
      PROVE  SchedInv'
  BY <1>1, <1>7, InvByAccountNext DEF RegisterPendingIncomingConnection, NoIdleQueue
<1>8. ASSUME NEW address \in Addresses, ReportAclConnectionCompletion(address)
      PROVE  SchedInv'
  <2> DEFINE matching == {e \in outgoing_entry : e.kind = "acl" /\ e.address = address}
  <2>1. PICK incoming, name :
          /\ incoming \subseteq incoming_addresses
          /\ try_dequeue_next_operation(outgoing_entry \ matching, pending_operations,
               incoming, <<Callback(name, Unqueued(address))>>)
          /\ enqueued' = enqueued
    BY <1>8 DEF ReportAclConnectionCompletion
  <2> HIDE DEF matching
  <2>2. outgoing_entry \ matching \subseteq Entry /\ incoming \subseteq Addresses
    BY <1>1, <2>1
  <2> QED
    BY <1>1, <2>1, <2>2, DequeueInv
<1>9. ASSUME NEW kind \in Kinds, NEW address \in Addresses, Enqueue(kind, address)
      PROVE  SchedInv'
  <2> DEFINE entry == [kind |-> kind, address |-> address, id |-> enqueued + 1]
  <2>1. entry \in Entry /\ entry.id = enqueued + 1
    BY <1>2 DEF Entry
  <2>2. /\ try_dequeue_next_operation(outgoing_entry,
             Append(pending_operations, entry), incoming_addresses, <<>>)
        /\ enqueued' = enqueued + 1
    BY <1>9 DEF Enqueue
  <2> HIDE DEF entry
  <2>3. Accounted(Append(pending_operations, entry), started, cancelled, enqueued + 1)
    BY <1>1, <2>1, AccountedAppend
  <2> QED
    BY <1>1, <2>2, <2>3, DequeueInv
<1>10. ASSUME NEW kind \in Kinds, NEW address \in Addresses, Cancel(kind, address)
       PROVE  SchedInv'
  <2>1. CASE \E callbacks : NoEffect(callbacks)
    BY <1>3, <2>1
  <2>2. CASE \E i \in DOMAIN pending_operations :
               /\ pending_operations' = RemoveAt(pending_operations, i)
               /\ cancelled' = cancelled \cup {pending_operations[i].id}
               /\ UNCHANGED <<outgoing_entry, incoming_addresses, phase, enqueued,
                              started>>
    <3>1. PICK i \in DOMAIN pending_operations :
               /\ pending_operations' = RemoveAt(pending_operations, i)
               /\ cancelled' = cancelled \cup {pending_operations[i].id}
               /\ UNCHANGED <<outgoing_entry, incoming_addresses, phase, enqueued,
                              started>>
      BY <2>2
    <3>2. Accounted(pending_operations', started', cancelled', enqueued')
      BY <1>1, <3>1, AccountedCancel
    <3>3. pending_operations # <<>>
      OBVIOUS
    <3>4. NoIdleQueue'
      BY <1>1, <3>1, <3>3 DEF NoIdleQueue
    <3> QED
      BY <1>1, <3>1, <3>2, <3>4, InvByAccountNext
  <2> QED
    BY <1>10, <2>1, <2>2 DEF Cancel
<1>11. CASE UNCHANGED sched_vars
  BY <1>1, <1>11, InvByAccountNext DEF sched_vars, NoIdleQueue
<1> QED
  BY <1>4, <1>5, <1>6, <1>7, <1>8, <1>9, <1>10, <1>11 DEF SchedNext

\* The scheduler's state keeps its type, its queue is never idle for nothing,
\* and every operation is accounted for, in order, for any set of addresses
\* and any number of operations.
THEOREM SchedulerCorrect == SchedSpec => []SchedInv
<1>1. SchedInit => SchedInv
  <2> SUFFICES ASSUME SchedInit PROVE SchedInv
    OBVIOUS
  <2>1. <<>> \in Seq(Entry) /\ Len(<<>>) = 0 /\ DOMAIN <<>> = {} /\ 1..0 = {}
    BY EmptySeq
  <2> QED
    BY <2>1 DEF SchedInit, SchedInv, SchedTypeOK, NoIdleQueue, ExactlyOneCallback,
                StartedInOrder, PendingIds
<1> QED
  BY <1>1, StepInv, PTL DEF SchedSpec

\* While the scheduler runs, a queued operation waits only for an outgoing
\* operation or an incoming connection.
THEOREM NoIdleQueueHolds == SchedSpec => []NoIdleQueue
<1>1. SchedInv => NoIdleQueue
  BY DEF SchedInv
<1> QED
  BY <1>1, SchedulerCorrect, PTL

\* Exactly one of the start and the cancelled callback of an operation is
\* invoked, once the operation has left the queue.
THEOREM ExactlyOneCallbackHolds == SchedSpec => []ExactlyOneCallback
<1>1. SchedInv => ExactlyOneCallback
  BY DEF SchedInv
<1> QED
  BY <1>1, SchedulerCorrect, PTL

\* Operations start in the order in which they were enqueued.
THEOREM StartedInOrderHolds == SchedSpec => []StartedInOrder
<1>1. SchedInv => StartedInOrder
  BY DEF SchedInv
<1> QED
  BY <1>1, SchedulerCorrect, PTL
=============================================================================
