----------------------------- MODULE TaskProofs -----------------------------
(***************************************************************************)
(* Proofs about module Task, for any finite sets of workers and holders:   *)
(* the safety properties of its runs, and that it implements the abstract  *)
(* specification TaskLifecycle.                                            *)
(***************************************************************************)
EXTENDS Task, FiniteSetTheorems, TLAPS

-----------------------------------------------------------------------------
(* The inductive invariant behind the safety properties. *)

\* Somebody has the right to run the task or to put it into a run queue.
Queued == jpc = "spawn" \/ runq > 0 \/ RunningWorkers # {} \/ EnqueuingHolders # {}

\* The worker is inside Task::poll, between start_poll and end_poll.
InPoll(w) == wpc[w] \in {"poll", "end"}

\* Who has the right to run the task, and what the flags say about it.  A new task
\* is queued with WOKEN clear, but nobody holds a waker for it yet.
RunInv ==
  /\ SingleRunner
  /\ state.polling <=> \E w \in Workers : InPoll(w)
  /\ state.complete => ~Queued
  /\ Queued /\ ~state.polling /\ ~state.woken => \A h \in Holders : hpc[h] = "none"

\* WOKEN records every wake-up that has not been served.
WakeInv ==
  /\ state.cancelled => state.woken
  /\ "ref" \in unserved /\ ~state.complete => state.woken
  /\ state.woken /\ ~state.complete /\ ~state.cancelled => WillBePolled

\* The stage as the flags and the program counters determine it.
StageInv ==
  /\ ~state.complete /\ (\A w \in Workers : wpc[w] # "end") => stage = "Pending"
  /\ \A w \in Workers : wpc[w] = "end" => stage = "Ready"
  /\ state.has_output => state.complete
  /\ state.complete /\ jpc \notin {"take", "release", "drop", "gone"}
       => state.has_output /\ stage = "Ready"
  /\ jpc = "take" => state.complete /\ stage = "Ready"

\* Who owns the join waker slot.
JoinInv ==
  /\ jpc \in {"register", "reregister", "registered"} <=> state.join_waker = "Registering"
  /\ state.join_waker = "Waiting" \/ jpc \in {"reregister", "registered"} => slot
  /\ state.join_waker = "Woken" => state.complete \/ state.cancelled
  /\ \A w \in Workers : wpc[w] \in {"wait", "wake"} =>
       /\ ~Queued
       /\ state.complete \/ state.cancelled
       /\ \A v \in Workers : wpc[v] \in {"wait", "wake"} => v = w
  /\ \A w \in Workers : wpc[w] = "wait" => state.join_waker \in {"Registering", "Waiting"}
  /\ \A w \in Workers : wpc[w] = "wake" => state.join_waker \in {"Empty", "Woken"}

\* The inductive invariant.
IInv ==
  TypeOK /\ RefsCountHolders /\ RunInv /\ WakeInv /\ StageInv /\ JoinInv

-----------------------------------------------------------------------------
(* What the transitions of the state word do, field by field. *)

\* State::start_poll sets POLLING and clears WOKEN, or claims the join waker.
LEMMA StartPollFacts ==
  ASSUME NEW s \in Snapshot
  PROVE  LET n == start_poll(s)
             a == start_poll_action(s)
         IN  /\ n \in Snapshot
             /\ n.complete = s.complete /\ n.cancelled = s.cancelled
             /\ n.has_output = s.has_output /\ n.refs = s.refs
             /\ n.has_join_handle = s.has_join_handle
             /\ a \in {"DontPoll", "Cancelled", "Poll"}
             /\ a = "DontPoll" <=> s.polling \/ s.complete
             /\ a = "DontPoll" => n = s
             /\ a = "Cancelled" => /\ s.cancelled
                                   /\ n.polling = s.polling /\ n.woken = s.woken
                                   /\ n.join_waker = IF s.join_waker = "Waiting"
                                                     THEN "Empty" ELSE s.join_waker
             /\ a = "Poll" => /\ ~s.cancelled
                              /\ n.polling /\ ~n.woken
                              /\ n.join_waker = s.join_waker
BY DEF start_poll, start_poll_action, claim_join_waker, Snapshot, JoinWakerState

\* State::end_poll of a future that is not ready.
LEMMA EndPollPendingFacts ==
  ASSUME NEW s \in Snapshot
  PROVE  LET n == end_poll(s, FALSE)
         IN  /\ n \in Snapshot
             /\ ~n.polling /\ ~n.complete
             /\ n.woken = s.woken /\ n.cancelled = s.cancelled
             /\ n.has_output = s.has_output /\ n.refs = s.refs
             /\ n.join_waker = s.join_waker
             /\ end_poll_action(s, FALSE) = "PendingSchedule" <=> s.woken
BY DEF end_poll, end_poll_action, Snapshot, JoinWakerState

\* State::end_poll of a finished future also claims a waiting join waker.
LEMMA EndPollReadyFacts ==
  ASSUME NEW s \in Snapshot
  PROVE  LET n == end_poll(s, TRUE)
         IN  /\ n \in Snapshot
             /\ ~n.polling /\ n.complete /\ n.has_output
             /\ n.woken = s.woken /\ n.cancelled = s.cancelled
             /\ n.refs = s.refs
             /\ n.join_waker = IF s.join_waker = "Waiting" THEN "Empty" ELSE s.join_waker
             /\ end_poll_action(s, TRUE) = "ReadyJoined" <=> has_join_waker(s)
BY DEF end_poll, end_poll_action, claim_join_waker, Snapshot, JoinWakerState

\* State::try_join takes the output bit or starts a registration.
LEMMA TryJoinFacts ==
  ASSUME NEW s \in Snapshot
  PROVE  LET n == try_join(s)
             a == try_join_action(s)
         IN  /\ n \in Snapshot
             /\ n.polling = s.polling /\ n.complete = s.complete
             /\ n.woken = s.woken /\ n.cancelled = s.cancelled
             /\ n.refs = s.refs
             /\ (n.has_output <=> s.has_output /\ a # "TakeOutput")
             /\ a \in {"Canceled", "TakeOutput", "Register", "Reregister"}
             /\ a = "Canceled" <=> s.cancelled
             /\ a = "TakeOutput" <=> ~s.cancelled /\ s.complete /\ s.has_output
             /\ a = "Register" => s.join_waker = "Empty"
             /\ a = "Reregister" => s.join_waker # "Empty"
             /\ n.join_waker = IF a \in {"Register", "Reregister"}
                               THEN "Registering" ELSE s.join_waker
BY DEF try_join, try_join_action, should_register, Snapshot, JoinWakerState

\* The transitions that only touch the join waker and the handle bit.
LEMMA JoinWakerFacts ==
  ASSUME NEW s \in Snapshot,
         NEW n \in {join_waker_registered(s), drop_join_handle(s),
                    wait_for_join_waker(s)}
  PROVE  /\ n \in Snapshot
         /\ n.polling = s.polling /\ n.complete = s.complete
         /\ n.woken = s.woken /\ n.cancelled = s.cancelled
         /\ n.has_output = s.has_output /\ n.refs = s.refs
         /\ n = join_waker_registered(s) => n.join_waker = "Waiting"
         /\ n = drop_join_handle(s) => n.join_waker = s.join_waker
         /\ n = wait_for_join_waker(s) => n.join_waker = "Woken"
BY DEF join_waker_registered, drop_join_handle, wait_for_join_waker,
       Snapshot, JoinWakerState

\* State::wake_by_val sets WOKEN exactly when it says Enqueue.
LEMMA WakeByValFacts ==
  ASSUME NEW s \in Snapshot
  PROVE  LET n == wake_by_val(s)
             a == wake_by_val_action(s)
         IN  /\ n \in Snapshot
             /\ n.polling = s.polling /\ n.complete = s.complete
             /\ n.join_waker = s.join_waker
             /\ n.has_output = s.has_output /\ n.refs = s.refs
             /\ n.cancelled = s.cancelled
             /\ a \in {"Drop", "Enqueue"}
             /\ a = "Drop" => n.woken = s.woken
             /\ a = "Enqueue" => ~s.polling /\ ~s.complete /\ ~s.woken /\ n.woken
BY DEF wake_by_val, wake_by_val_action, Snapshot, JoinWakerState

\* State::wake_by_ref sets WOKEN of every unfinished task.
LEMMA WakeByRefFacts ==
  ASSUME NEW s \in Snapshot
  PROVE  LET n == wake_by_ref(s)
             a == wake_by_ref_action(s)
         IN  /\ n \in Snapshot
             /\ n.polling = s.polling /\ n.complete = s.complete
             /\ n.join_waker = s.join_waker
             /\ n.has_output = s.has_output /\ n.refs = s.refs
             /\ n.cancelled = s.cancelled
             /\ (n.woken <=> s.woken \/ ~s.complete)
             /\ a \in {"None", "Enqueue"}
             /\ a = "Enqueue" <=> ~s.polling /\ ~s.complete /\ ~s.woken
BY DEF wake_by_ref, wake_by_ref_action, Snapshot, JoinWakerState

\* State::cancel sets CANCELLED and WOKEN together.
LEMMA CancelFacts ==
  ASSUME NEW s \in Snapshot
  PROVE  LET n == cancel(s)
         IN  /\ n \in Snapshot
             /\ n.polling = s.polling /\ n.complete = s.complete
             /\ n.join_waker = s.join_waker
             /\ n.has_output = s.has_output /\ n.refs = s.refs
             /\ n.cancelled
             /\ (n.woken <=> s.woken \/ ~s.cancelled)
BY DEF cancel, cancel_action, Snapshot, JoinWakerState

\* State::clone_ref and drop_ref change nothing but the count.
LEMMA RefFacts ==
  ASSUME NEW s \in Snapshot
  PROVE  /\ clone_ref(s) \in Snapshot /\ clone_ref(s).refs = s.refs + 1
         /\ s.refs > 0 => drop_ref(s) \in Snapshot
         /\ drop_ref(s).refs = s.refs - 1
         /\ \A n \in {clone_ref(s), drop_ref(s)} :
              /\ n.polling = s.polling /\ n.complete = s.complete
              /\ n.woken = s.woken /\ n.cancelled = s.cancelled
              /\ n.has_output = s.has_output /\ n.join_waker = s.join_waker
BY DEF clone_ref, drop_ref, Snapshot, JoinWakerState

\* The word TaskRef::new_allocated leaves behind.
LEMMA NewFacts ==
  LET n == create_join_handle(clone_ref(New))
  IN  /\ n \in Snapshot
      /\ ~n.polling /\ ~n.complete /\ ~n.woken
      /\ ~n.cancelled /\ ~n.has_output
      /\ n.join_waker = "Empty" /\ n.refs = 2
<1>1. New \in Snapshot
  BY Zenon DEF New, Snapshot, JoinWakerState
<1>2. /\ New.polling = FALSE /\ New.complete = FALSE /\ New.woken = FALSE
      /\ New.cancelled = FALSE /\ New.has_output = FALSE
      /\ New.join_waker = "Empty" /\ New.refs = 1
  BY DEF New
<1>3. /\ clone_ref(New) \in Snapshot
      /\ clone_ref(New).refs = 2
      /\ clone_ref(New).polling = FALSE /\ clone_ref(New).complete = FALSE
      /\ clone_ref(New).woken = FALSE /\ clone_ref(New).cancelled = FALSE
      /\ clone_ref(New).has_output = FALSE /\ clone_ref(New).join_waker = "Empty"
  BY <1>1, <1>2, RefFacts
<1>4. QED
  BY <1>3 DEF create_join_handle, Snapshot, JoinWakerState

-----------------------------------------------------------------------------
(* Reference counting. *)

Busy == {w \in Workers : wpc[w] # "idle"}
Held == {h \in Holders : hpc[h] # "none"}
Cloned == {h \in Holders : hpc[h] = "ref_enqueue"}
JoinRefs == CASE jpc = "spawn" -> 2 [] jpc = "gone" -> 0 [] OTHER -> 1

\* A finite set that gains or loses one element.
LEMMA CardStep ==
  ASSUME NEW S, IsFiniteSet(S), NEW T, NEW x
  PROVE  /\ Cardinality(S) \in Nat
         /\ x \in S => Cardinality(S) > 0
         /\ x \notin S /\ T = S \cup {x} => Cardinality(T) = Cardinality(S) + 1
         /\ x \in S /\ T = S \ {x} => Cardinality(T) = Cardinality(S) - 1
<1>1. Cardinality(S) \in Nat
  BY FS_CardinalityType
<1>2. ASSUME x \in S PROVE Cardinality(S) > 0
  BY <1>1, <1>2, FS_EmptySet
<1>3. ASSUME x \notin S PROVE Cardinality(S \cup {x}) = Cardinality(S) + 1
  BY <1>3, FS_AddElement
<1>4. ASSUME x \in S PROVE Cardinality(S \ {x}) = Cardinality(S) - 1
  BY <1>4, FS_RemoveElement
<1>5. QED
  BY <1>1, <1>2, <1>3, <1>4

\* The sets of reference holders are finite.
LEMMA FiniteParts ==
  /\ IsFiniteSet(Busy) /\ IsFiniteSet(Held) /\ IsFiniteSet(Cloned)
  /\ Cardinality(Busy) \in Nat /\ Cardinality(Held) \in Nat /\ Cardinality(Cloned) \in Nat
<1>1. Busy \subseteq Workers /\ Held \subseteq Holders /\ Cloned \subseteq Holders
  BY DEF Busy, Held, Cloned
<1>2. IsFiniteSet(Busy) /\ IsFiniteSet(Held) /\ IsFiniteSet(Cloned)
  BY <1>1, FiniteActors, FS_Subset
<1>3. QED
  BY <1>2, FS_CardinalityType

\* One worker moves: how the set of busy workers changes in size.
LEMMA WorkerCount ==
  ASSUME TypeOK, NEW w \in Workers, NEW to \in WorkerPC,
         wpc' = [wpc EXCEPT ![w] = to]
  PROVE  /\ wpc[w] = "idle" /\ to # "idle" => Cardinality(Busy') = Cardinality(Busy) + 1
         /\ wpc[w] # "idle" /\ to = "idle" => Cardinality(Busy') = Cardinality(Busy) - 1
         /\ (wpc[w] = "idle" <=> to = "idle") => Cardinality(Busy') = Cardinality(Busy)
<1>1. CASE wpc[w] = "idle" /\ to # "idle"
  <2>1. w \notin Busy /\ Busy' = Busy \cup {w}
    BY <1>1 DEF TypeOK, Busy
  <2>2. QED
    BY <1>1, <2>1, FiniteParts, CardStep
<1>2. CASE wpc[w] # "idle" /\ to = "idle"
  <2>1. w \in Busy /\ Busy' = Busy \ {w}
    BY <1>2 DEF TypeOK, Busy
  <2>2. QED
    BY <1>2, <2>1, FiniteParts, CardStep
<1>3. CASE wpc[w] = "idle" <=> to = "idle"
  <2>1. Busy' = Busy
    BY <1>3 DEF TypeOK, Busy
  <2>2. QED
    BY <1>3, <2>1
<1>4. QED
  BY <1>1, <1>2, <1>3

\* One holder moves: how the set of held wakers changes in size.
LEMMA HolderCount ==
  ASSUME TypeOK, NEW h \in Holders, NEW to \in HolderPC,
         hpc' = [hpc EXCEPT ![h] = to]
  PROVE  /\ hpc[h] = "none" /\ to # "none" => Cardinality(Held') = Cardinality(Held) + 1
         /\ hpc[h] # "none" /\ to = "none" => Cardinality(Held') = Cardinality(Held) - 1
         /\ (hpc[h] = "none" <=> to = "none") => Cardinality(Held') = Cardinality(Held)
<1>1. CASE hpc[h] = "none" /\ to # "none"
  <2>1. h \notin Held /\ Held' = Held \cup {h}
    BY <1>1 DEF TypeOK, Held
  <2>2. QED
    BY <1>1, <2>1, FiniteParts, CardStep
<1>2. CASE hpc[h] # "none" /\ to = "none"
  <2>1. h \in Held /\ Held' = Held \ {h}
    BY <1>2 DEF TypeOK, Held
  <2>2. QED
    BY <1>2, <2>1, FiniteParts, CardStep
<1>3. CASE hpc[h] = "none" <=> to = "none"
  <2>1. Held' = Held
    BY <1>3 DEF TypeOK, Held
  <2>2. QED
    BY <1>3, <2>1
<1>4. QED
  BY <1>1, <1>2, <1>3

\* One holder moves: how the set of second references changes in size.
LEMMA ClonedCount ==
  ASSUME TypeOK, NEW h \in Holders, NEW to \in HolderPC,
         hpc' = [hpc EXCEPT ![h] = to]
  PROVE  /\ hpc[h] # "ref_enqueue" /\ to = "ref_enqueue"
              => Cardinality(Cloned') = Cardinality(Cloned) + 1
         /\ hpc[h] = "ref_enqueue" /\ to # "ref_enqueue"
              => Cardinality(Cloned') = Cardinality(Cloned) - 1
         /\ (hpc[h] = "ref_enqueue" <=> to = "ref_enqueue")
              => Cardinality(Cloned') = Cardinality(Cloned)
<1>1. CASE hpc[h] # "ref_enqueue" /\ to = "ref_enqueue"
  <2>1. h \notin Cloned /\ Cloned' = Cloned \cup {h}
    BY <1>1 DEF TypeOK, Cloned
  <2>2. QED
    BY <1>1, <2>1, FiniteParts, CardStep
<1>2. CASE hpc[h] = "ref_enqueue" /\ to # "ref_enqueue"
  <2>1. h \in Cloned /\ Cloned' = Cloned \ {h}
    BY <1>2 DEF TypeOK, Cloned
  <2>2. QED
    BY <1>2, <2>1, FiniteParts, CardStep
<1>3. CASE hpc[h] = "ref_enqueue" <=> to = "ref_enqueue"
  <2>1. Cloned' = Cloned
    BY <1>3 DEF TypeOK, Cloned
  <2>2. QED
    BY <1>3, <2>1
<1>4. QED
  BY <1>1, <1>2, <1>3

\* Whoever reaches the task holds a counted reference.
LEMMA RefsPositive ==
  ASSUME TypeOK, RefsCountHolders
  PROVE  /\ \A w \in Workers : wpc[w] # "idle" => state.refs > 0
         /\ \A h \in Holders : hpc[h] # "none" => state.refs > 0
         /\ jpc # "gone" => state.refs > 0
         /\ jpc = "spawn" => state.refs > 1
<1>1. state.refs = runq + Cardinality(Busy) + Cardinality(Held)
                        + Cardinality(Cloned) + JoinRefs
  BY DEF RefsCountHolders, Busy, Held, Cloned, JoinRefs
<1>2. JoinRefs \in Nat /\ (jpc # "gone" => JoinRefs > 0) /\ (jpc = "spawn" => JoinRefs = 2)
  BY DEF JoinRefs
<1>3. \A w \in Workers : wpc[w] # "idle" => Cardinality(Busy) > 0
  BY FiniteParts, CardStep DEF Busy
<1>4. \A h \in Holders : hpc[h] # "none" => Cardinality(Held) > 0
  BY FiniteParts, CardStep DEF Held
<1>5. QED
  BY <1>1, <1>2, <1>3, <1>4, FiniteParts DEF TypeOK

-----------------------------------------------------------------------------
(* One step preserves each part of the invariant. *)

\* Types: only drop_ref needs more than the types, a positive count.
LEMMA TypeStep ==
  ASSUME TypeOK, RefsCountHolders, [Next]_vars
  PROVE  TypeOK'
<1> USE DEF TypeOK, WorkerPC, HolderPC, JoinPC
<1>1. CASE SpawnScheduled
  BY <1>1 DEF SpawnScheduled, JoinGoto
<1>2. CASE SpawnClosed
  BY <1>2, RefFacts, RefsPositive DEF SpawnClosed, JoinGoto, DropTaskRef,
     drop_ref_was_last
<1>3. ASSUME NEW w \in Workers, Dequeue(w) PROVE TypeOK'
  BY <1>3 DEF Dequeue, WorkerGoto
<1>4. ASSUME NEW w \in Workers, StartPoll(w) PROVE TypeOK'
  BY <1>4, StartPollFacts DEF StartPoll, should_wait, has_join_waker
<1>5. ASSUME NEW w \in Workers, EndPollPending(w) PROVE TypeOK'
  BY <1>5, EndPollPendingFacts DEF EndPollPending
<1>6. ASSUME NEW w \in Workers, StoreOutput(w) PROVE TypeOK'
  BY <1>6 DEF StoreOutput, WorkerGoto
<1>7. ASSUME NEW w \in Workers, EndPollReady(w) PROVE TypeOK'
  BY <1>7, EndPollReadyFacts DEF EndPollReady, should_wait, has_join_waker
<1>8. ASSUME NEW w \in Workers, WaitForJoinWaker(w) PROVE TypeOK'
  BY <1>8, JoinWakerFacts DEF WaitForJoinWaker, WorkerGoto, can_take_join_waker
<1>9. ASSUME NEW w \in Workers, WakeJoinWaker(w) PROVE TypeOK'
  BY <1>9 DEF WakeJoinWaker, WorkerGoto
<1>10. ASSUME NEW w \in Workers, Requeue(w) PROVE TypeOK'
  BY <1>10 DEF Requeue, WorkerGoto
<1>11. ASSUME NEW w \in Workers, WorkerDrop(w) PROVE TypeOK'
  BY <1>11, RefFacts, RefsPositive DEF WorkerDrop, WorkerGoto, DropTaskRef,
     drop_ref_was_last
<1>12. ASSUME NEW w \in Workers, WakeSelf(w) PROVE TypeOK'
  BY <1>12, WakeByRefFacts DEF WakeSelf
<1>13. ASSUME NEW w \in Workers, NEW h \in Holders, CloneWaker(w, h) PROVE TypeOK'
  BY <1>13, RefFacts DEF CloneWaker, HolderGoto
<1>14. ASSUME NEW h \in Holders, WakeByVal(h) PROVE TypeOK'
  BY <1>14, WakeByValFacts DEF WakeByVal, HolderGoto
<1>15. ASSUME NEW h \in Holders, EnqueueVal(h) PROVE TypeOK'
  BY <1>15 DEF EnqueueVal, HolderGoto
<1>16. ASSUME NEW h \in Holders, WakeByRef(h) PROVE TypeOK'
  BY <1>16, WakeByRefFacts DEF WakeByRef, HolderGoto
<1>17. ASSUME NEW h \in Holders, CloneForQueue(h) PROVE TypeOK'
  BY <1>17, RefFacts DEF CloneForQueue, HolderGoto
<1>18. ASSUME NEW h \in Holders, EnqueueRef(h) PROVE TypeOK'
  BY <1>18 DEF EnqueueRef, HolderGoto
<1>19. ASSUME NEW h \in Holders, StartDrop(h) PROVE TypeOK'
  BY <1>19 DEF StartDrop, HolderGoto
<1>20. ASSUME NEW h \in Holders, HolderDrop(h) PROVE TypeOK'
  BY <1>20, RefFacts, RefsPositive DEF HolderDrop, HolderGoto, DropTaskRef,
     drop_ref_was_last
<1>21. ASSUME NEW h \in Holders, CancelByRef(h) PROVE TypeOK'
  BY <1>21, CancelFacts DEF CancelByRef
<1>22. ASSUME NEW h \in Holders, NEW g \in Holders, CloneHeld(h, g) PROVE TypeOK'
  BY <1>22, RefFacts DEF CloneHeld, HolderGoto
<1>23. CASE PollJoin
  BY <1>23, TryJoinFacts DEF PollJoin
<1>24. CASE StoreJoinWaker
  BY <1>24 DEF StoreJoinWaker
<1>25. CASE JoinWakerRegistered
  BY <1>25, JoinWakerFacts DEF JoinWakerRegistered, JoinGoto
<1>26. CASE TakeOutput
  BY <1>26 DEF TakeOutput, JoinGoto
<1>27. CASE CancelByHandle
  BY <1>27, CancelFacts DEF CancelByHandle
<1>28. CASE AbandonJoin
  BY <1>28 DEF AbandonJoin
<1>28a. CASE JoinerEndPoll
  BY <1>28a DEF JoinerEndPoll, JoinGoto
<1>29. CASE ReleaseJoinHandle
  BY <1>29, JoinWakerFacts DEF ReleaseJoinHandle, JoinGoto
<1>30. CASE JoinDrop
  BY <1>30, RefFacts, RefsPositive DEF JoinDrop, JoinGoto, DropTaskRef,
     drop_ref_was_last
<1>31. CASE UNCHANGED vars
  BY <1>31 DEF vars
<1>32. QED
  BY <1>1, <1>2, <1>3, <1>4, <1>5, <1>6, <1>7, <1>8, <1>9, <1>10, <1>11, <1>12,
     <1>13, <1>14, <1>15, <1>16, <1>17, <1>18, <1>19, <1>20, <1>21, <1>22,
     <1>23, <1>24, <1>25, <1>26, <1>27, <1>28, <1>28a, <1>29, <1>30,
     <1>31 DEF Next,
     WorkerStep, HolderStep, JoinStep

\* The count, in terms of the sets above.
LEMMA RefsRestated ==
  /\ RefsCountHolders <=>
       /\ state.refs = runq + Cardinality(Busy) + Cardinality(Held)
                           + Cardinality(Cloned) + JoinRefs
       /\ allocated <=> state.refs > 0
  /\ RefsCountHolders' <=>
       /\ state'.refs = runq' + Cardinality(Busy') + Cardinality(Held')
                            + Cardinality(Cloned') + JoinRefs'
       /\ allocated' <=> state'.refs > 0
BY DEF RefsCountHolders, Busy, Held, Cloned, JoinRefs

\* The reference count: each clone, drop and hand-over moves both sides alike.
LEMMA RefsStep ==
  ASSUME TypeOK, RefsCountHolders, [Next]_vars
  PROVE  RefsCountHolders'
<1>1. CASE SpawnScheduled
  <2>1. Busy' = Busy /\ Held' = Held /\ Cloned' = Cloned
    BY <1>1 DEF SpawnScheduled, JoinGoto, Busy, Held, Cloned
  <2>2. JoinRefs' = JoinRefs - 1 /\ JoinRefs \in Nat
    BY <1>1 DEF SpawnScheduled, JoinGoto, JoinRefs
  <2>3. QED
    BY <1>1, <2>1, <2>2, FiniteParts, RefsRestated DEF SpawnScheduled, TypeOK
<1>2. CASE SpawnClosed
  <2>1. Busy' = Busy /\ Held' = Held /\ Cloned' = Cloned
    BY <1>2 DEF SpawnClosed, JoinGoto, Busy, Held, Cloned
  <2>2. JoinRefs' = JoinRefs - 1 /\ JoinRefs \in Nat
    BY <1>2 DEF SpawnClosed, JoinGoto, JoinRefs
  <2>3. /\ state'.refs = state.refs - 1 /\ state.refs \in Nat /\ state.refs > 0
        /\ (allocated' <=> allocated /\ state.refs # 1) /\ runq' = runq
    BY <1>2, RefFacts, RefsPositive DEF SpawnClosed, JoinGoto, DropTaskRef,
       drop_ref_was_last, TypeOK, Snapshot
  <2>4. allocated' <=> state'.refs > 0
    BY <2>3, RefsRestated
  <2>5. QED
    BY <2>1, <2>2, <2>3, <2>4, FiniteParts, RefsRestated DEF TypeOK
<1>3. ASSUME NEW w \in Workers, Dequeue(w) PROVE RefsCountHolders'
  <2>1. Held' = Held /\ Cloned' = Cloned /\ JoinRefs' = JoinRefs
    BY <1>3 DEF Dequeue, WorkerGoto, Held, Cloned, JoinRefs
  <2>2. Cardinality(Busy') = Cardinality(Busy) + 1
    BY <1>3, WorkerCount DEF Dequeue, WorkerGoto, WorkerPC
  <2>3. JoinRefs \in Nat
    BY DEF JoinRefs
  <2>4. QED
    BY <1>3, <2>1, <2>2, <2>3, FiniteParts, RefsRestated DEF Dequeue, TypeOK
<1>4. ASSUME NEW w \in Workers, StartPoll(w) PROVE RefsCountHolders'
  <2>1. Held' = Held /\ Cloned' = Cloned /\ JoinRefs' = JoinRefs
    BY <1>4 DEF StartPoll, Held, Cloned, JoinRefs
  <2>2. Cardinality(Busy') = Cardinality(Busy)
    BY <1>4, StartPollFacts, WorkerCount DEF StartPoll, should_wait,
       has_join_waker, WorkerPC, TypeOK
  <2>3. JoinRefs \in Nat
    BY DEF JoinRefs
  <2>4. QED
    BY <1>4, <2>1, <2>2, <2>3, FiniteParts, RefsRestated, StartPollFacts DEF
       StartPoll, TypeOK
<1>5. ASSUME NEW w \in Workers, EndPollPending(w) PROVE RefsCountHolders'
  <2>1. Held' = Held /\ Cloned' = Cloned /\ JoinRefs' = JoinRefs
    BY <1>5 DEF EndPollPending, Held, Cloned, JoinRefs
  <2>2. Cardinality(Busy') = Cardinality(Busy)
    BY <1>5, WorkerCount DEF EndPollPending, WorkerPC
  <2>3. JoinRefs \in Nat
    BY DEF JoinRefs
  <2>4. QED
    BY <1>5, <2>1, <2>2, <2>3, FiniteParts, RefsRestated, EndPollPendingFacts
       DEF EndPollPending, TypeOK
<1>6. ASSUME NEW w \in Workers, StoreOutput(w) PROVE RefsCountHolders'
  <2>1. Held' = Held /\ Cloned' = Cloned /\ JoinRefs' = JoinRefs
    BY <1>6 DEF StoreOutput, WorkerGoto, Held, Cloned, JoinRefs
  <2>2. Cardinality(Busy') = Cardinality(Busy)
    BY <1>6, WorkerCount DEF StoreOutput, WorkerGoto, WorkerPC
  <2>3. JoinRefs \in Nat
    BY DEF JoinRefs
  <2>4. QED
    BY <1>6, <2>1, <2>2, <2>3, FiniteParts, RefsRestated DEF StoreOutput,
       TypeOK
<1>7. ASSUME NEW w \in Workers, EndPollReady(w) PROVE RefsCountHolders'
  <2>1. Held' = Held /\ Cloned' = Cloned /\ JoinRefs' = JoinRefs
    BY <1>7 DEF EndPollReady, Held, Cloned, JoinRefs
  <2>2. Cardinality(Busy') = Cardinality(Busy)
    BY <1>7, WorkerCount DEF EndPollReady, should_wait, has_join_waker,
       WorkerPC
  <2>3. JoinRefs \in Nat
    BY DEF JoinRefs
  <2>4. QED
    BY <1>7, <2>1, <2>2, <2>3, FiniteParts, RefsRestated, EndPollReadyFacts DEF
       EndPollReady, TypeOK
<1>8. ASSUME NEW w \in Workers, WaitForJoinWaker(w) PROVE RefsCountHolders'
  <2>1. Held' = Held /\ Cloned' = Cloned /\ JoinRefs' = JoinRefs
    BY <1>8 DEF WaitForJoinWaker, WorkerGoto, Held, Cloned, JoinRefs
  <2>2. Cardinality(Busy') = Cardinality(Busy)
    BY <1>8, WorkerCount DEF WaitForJoinWaker, WorkerGoto, can_take_join_waker,
       WorkerPC
  <2>3. JoinRefs \in Nat
    BY DEF JoinRefs
  <2>4. QED
    BY <1>8, <2>1, <2>2, <2>3, FiniteParts, RefsRestated, JoinWakerFacts DEF
       WaitForJoinWaker, TypeOK
<1>9. ASSUME NEW w \in Workers, WakeJoinWaker(w) PROVE RefsCountHolders'
  <2>1. Held' = Held /\ Cloned' = Cloned /\ JoinRefs' = JoinRefs
    BY <1>9 DEF WakeJoinWaker, WorkerGoto, Held, Cloned, JoinRefs
  <2>2. Cardinality(Busy') = Cardinality(Busy)
    BY <1>9, WorkerCount DEF WakeJoinWaker, WorkerGoto, WorkerPC
  <2>3. JoinRefs \in Nat
    BY DEF JoinRefs
  <2>4. QED
    BY <1>9, <2>1, <2>2, <2>3, FiniteParts, RefsRestated DEF WakeJoinWaker,
       TypeOK
<1>10. ASSUME NEW w \in Workers, Requeue(w) PROVE RefsCountHolders'
  <2>1. Held' = Held /\ Cloned' = Cloned /\ JoinRefs' = JoinRefs
    BY <1>10 DEF Requeue, WorkerGoto, Held, Cloned, JoinRefs
  <2>2. Cardinality(Busy') = Cardinality(Busy) - 1
    BY <1>10, WorkerCount DEF Requeue, WorkerGoto, WorkerPC
  <2>3. JoinRefs \in Nat
    BY DEF JoinRefs
  <2>4. QED
    BY <1>10, <2>1, <2>2, <2>3, FiniteParts, RefsRestated DEF Requeue, TypeOK
<1>11. ASSUME NEW w \in Workers, WorkerDrop(w) PROVE RefsCountHolders'
  <2>1. Held' = Held /\ Cloned' = Cloned /\ JoinRefs' = JoinRefs
    BY <1>11 DEF WorkerDrop, WorkerGoto, Held, Cloned, JoinRefs
  <2>2. Cardinality(Busy') = Cardinality(Busy) - 1
    BY <1>11, WorkerCount DEF WorkerDrop, WorkerGoto, WorkerPC
  <2>3. JoinRefs \in Nat
    BY DEF JoinRefs
  <2>4. /\ state'.refs = state.refs - 1 /\ state.refs \in Nat /\ state.refs > 0
        /\ (allocated' <=> allocated /\ state.refs # 1) /\ runq' = runq
    BY <1>11, RefFacts, RefsPositive DEF WorkerDrop, WorkerGoto, DropTaskRef,
       drop_ref_was_last, TypeOK, Snapshot
  <2>5. allocated' <=> state'.refs > 0
    BY <2>4, RefsRestated
  <2>6. QED
    BY <2>1, <2>2, <2>3, <2>4, <2>5, FiniteParts, RefsRestated DEF TypeOK
<1>12. ASSUME NEW w \in Workers, WakeSelf(w) PROVE RefsCountHolders'
  <2>1. Busy' = Busy /\ Held' = Held /\ Cloned' = Cloned /\ JoinRefs' = JoinRefs
    BY <1>12 DEF WakeSelf, Busy, Held, Cloned, JoinRefs
  <2>2. JoinRefs \in Nat
    BY DEF JoinRefs
  <2>3. QED
    BY <1>12, <2>1, <2>2, FiniteParts, RefsRestated, WakeByRefFacts DEF
       WakeSelf, TypeOK
<1>13. ASSUME NEW w \in Workers, NEW h \in Holders, CloneWaker(w, h) PROVE RefsCountHolders'
  <2>1. Busy' = Busy /\ JoinRefs' = JoinRefs
    BY <1>13 DEF CloneWaker, HolderGoto, Busy, JoinRefs
  <2>2. Cardinality(Held') = Cardinality(Held) + 1 /\ Cardinality(Cloned') = Cardinality(Cloned)
    BY <1>13, HolderCount, ClonedCount DEF CloneWaker, HolderGoto, HolderPC,
       TypeOK
  <2>3. JoinRefs \in Nat
    BY DEF JoinRefs
  <2>4. /\ state'.refs = state.refs + 1 /\ state.refs \in Nat /\ state.refs > 0
        /\ allocated' = allocated /\ runq' = runq
    BY <1>13, RefFacts, RefsPositive DEF CloneWaker, HolderGoto, TypeOK,
       Snapshot
  <2>5. QED
    BY <2>1, <2>2, <2>3, <2>4, FiniteParts, RefsRestated DEF TypeOK
<1>14. ASSUME NEW h \in Holders, WakeByVal(h) PROVE RefsCountHolders'
  <2>1. Busy' = Busy /\ JoinRefs' = JoinRefs
    BY <1>14 DEF WakeByVal, HolderGoto, Busy, JoinRefs
  <2>2. Cardinality(Held') = Cardinality(Held) /\ Cardinality(Cloned') = Cardinality(Cloned)
    BY <1>14, WakeByValFacts, HolderCount, ClonedCount DEF WakeByVal,
       HolderGoto, HolderPC, TypeOK
  <2>3. JoinRefs \in Nat
    BY DEF JoinRefs
  <2>4. QED
    BY <1>14, <2>1, <2>2, <2>3, FiniteParts, RefsRestated, WakeByValFacts DEF
       WakeByVal, TypeOK
<1>15. ASSUME NEW h \in Holders, EnqueueVal(h) PROVE RefsCountHolders'
  <2>1. Busy' = Busy /\ JoinRefs' = JoinRefs
    BY <1>15 DEF EnqueueVal, HolderGoto, Busy, JoinRefs
  <2>2. Cardinality(Held') = Cardinality(Held) - 1 /\ Cardinality(Cloned') = Cardinality(Cloned)
    BY <1>15, HolderCount, ClonedCount DEF EnqueueVal, HolderGoto, HolderPC,
       TypeOK
  <2>3. JoinRefs \in Nat
    BY DEF JoinRefs
  <2>4. QED
    BY <1>15, <2>1, <2>2, <2>3, FiniteParts, RefsRestated DEF EnqueueVal,
       TypeOK
<1>16. ASSUME NEW h \in Holders, WakeByRef(h) PROVE RefsCountHolders'
  <2>1. Busy' = Busy /\ JoinRefs' = JoinRefs
    BY <1>16 DEF WakeByRef, HolderGoto, Busy, JoinRefs
  <2>2. Cardinality(Held') = Cardinality(Held) /\ Cardinality(Cloned') = Cardinality(Cloned)
    BY <1>16, WakeByRefFacts, HolderCount, ClonedCount DEF WakeByRef,
       HolderGoto, HolderPC, TypeOK
  <2>3. JoinRefs \in Nat
    BY DEF JoinRefs
  <2>4. QED
    BY <1>16, <2>1, <2>2, <2>3, FiniteParts, RefsRestated, WakeByRefFacts DEF
       WakeByRef, TypeOK
<1>17. ASSUME NEW h \in Holders, CloneForQueue(h) PROVE RefsCountHolders'
  <2>1. Busy' = Busy /\ JoinRefs' = JoinRefs
    BY <1>17 DEF CloneForQueue, HolderGoto, Busy, JoinRefs
  <2>2. Cardinality(Held') = Cardinality(Held) /\ Cardinality(Cloned') = Cardinality(Cloned) + 1
    BY <1>17, HolderCount, ClonedCount DEF CloneForQueue, HolderGoto, HolderPC,
       TypeOK
  <2>3. JoinRefs \in Nat
    BY DEF JoinRefs
  <2>4. /\ state'.refs = state.refs + 1 /\ state.refs \in Nat /\ state.refs > 0
        /\ allocated' = allocated /\ runq' = runq
    BY <1>17, RefFacts, RefsPositive DEF CloneForQueue, HolderGoto, TypeOK,
       Snapshot
  <2>5. QED
    BY <2>1, <2>2, <2>3, <2>4, FiniteParts, RefsRestated DEF TypeOK
<1>18. ASSUME NEW h \in Holders, EnqueueRef(h) PROVE RefsCountHolders'
  <2>1. Busy' = Busy /\ JoinRefs' = JoinRefs
    BY <1>18 DEF EnqueueRef, HolderGoto, Busy, JoinRefs
  <2>2. Cardinality(Held') = Cardinality(Held) /\ Cardinality(Cloned') = Cardinality(Cloned) - 1
    BY <1>18, HolderCount, ClonedCount DEF EnqueueRef, HolderGoto, HolderPC,
       TypeOK
  <2>3. JoinRefs \in Nat
    BY DEF JoinRefs
  <2>4. QED
    BY <1>18, <2>1, <2>2, <2>3, FiniteParts, RefsRestated DEF EnqueueRef,
       TypeOK
<1>19. ASSUME NEW h \in Holders, StartDrop(h) PROVE RefsCountHolders'
  <2>1. Busy' = Busy /\ JoinRefs' = JoinRefs
    BY <1>19 DEF StartDrop, HolderGoto, Busy, JoinRefs
  <2>2. Cardinality(Held') = Cardinality(Held) /\ Cardinality(Cloned') = Cardinality(Cloned)
    BY <1>19, HolderCount, ClonedCount DEF StartDrop, HolderGoto, HolderPC,
       TypeOK
  <2>3. JoinRefs \in Nat
    BY DEF JoinRefs
  <2>4. QED
    BY <1>19, <2>1, <2>2, <2>3, FiniteParts, RefsRestated DEF StartDrop, TypeOK
<1>20. ASSUME NEW h \in Holders, HolderDrop(h) PROVE RefsCountHolders'
  <2>1. Busy' = Busy /\ JoinRefs' = JoinRefs
    BY <1>20 DEF HolderDrop, HolderGoto, Busy, JoinRefs
  <2>2. Cardinality(Held') = Cardinality(Held) - 1 /\ Cardinality(Cloned') = Cardinality(Cloned)
    BY <1>20, HolderCount, ClonedCount DEF HolderDrop, HolderGoto, HolderPC,
       TypeOK
  <2>3. JoinRefs \in Nat
    BY DEF JoinRefs
  <2>4. /\ state'.refs = state.refs - 1 /\ state.refs \in Nat /\ state.refs > 0
        /\ (allocated' <=> allocated /\ state.refs # 1) /\ runq' = runq
    BY <1>20, RefFacts, RefsPositive DEF HolderDrop, HolderGoto, DropTaskRef,
       drop_ref_was_last, TypeOK, Snapshot
  <2>5. allocated' <=> state'.refs > 0
    BY <2>4, RefsRestated
  <2>6. QED
    BY <2>1, <2>2, <2>3, <2>4, <2>5, FiniteParts, RefsRestated DEF TypeOK
<1>21. ASSUME NEW h \in Holders, CancelByRef(h) PROVE RefsCountHolders'
  <2>1. Busy' = Busy /\ Held' = Held /\ Cloned' = Cloned /\ JoinRefs' = JoinRefs
    BY <1>21 DEF CancelByRef, Busy, Held, Cloned, JoinRefs
  <2>2. JoinRefs \in Nat
    BY DEF JoinRefs
  <2>3. QED
    BY <1>21, <2>1, <2>2, FiniteParts, RefsRestated, CancelFacts DEF
       CancelByRef, TypeOK
<1>22. ASSUME NEW h \in Holders, NEW g \in Holders, CloneHeld(h, g) PROVE RefsCountHolders'
  <2>1. Busy' = Busy /\ JoinRefs' = JoinRefs
    BY <1>22 DEF CloneHeld, HolderGoto, Busy, JoinRefs
  <2>2. Cardinality(Held') = Cardinality(Held) + 1 /\ Cardinality(Cloned') = Cardinality(Cloned)
    BY <1>22, HolderCount, ClonedCount DEF CloneHeld, HolderGoto, HolderPC,
       TypeOK
  <2>3. JoinRefs \in Nat
    BY DEF JoinRefs
  <2>4. /\ state'.refs = state.refs + 1 /\ state.refs \in Nat /\ state.refs > 0
        /\ allocated' = allocated /\ runq' = runq
    BY <1>22, RefFacts, RefsPositive DEF CloneHeld, HolderGoto, TypeOK,
       Snapshot
  <2>5. QED
    BY <2>1, <2>2, <2>3, <2>4, FiniteParts, RefsRestated DEF TypeOK
<1>23. CASE PollJoin
  <2>1. Busy' = Busy /\ Held' = Held /\ Cloned' = Cloned
    BY <1>23 DEF PollJoin, Busy, Held, Cloned
  <2>2. JoinRefs' = JoinRefs /\ JoinRefs \in Nat
    BY <1>23, TryJoinFacts DEF PollJoin, JoinRefs, TypeOK
  <2>3. QED
    BY <1>23, <2>1, <2>2, FiniteParts, RefsRestated, TryJoinFacts DEF PollJoin,
       TypeOK
<1>24. CASE StoreJoinWaker
  <2>1. Busy' = Busy /\ Held' = Held /\ Cloned' = Cloned
    BY <1>24 DEF StoreJoinWaker, Busy, Held, Cloned
  <2>2. JoinRefs' = JoinRefs /\ JoinRefs \in Nat
    BY <1>24 DEF StoreJoinWaker, JoinRefs
  <2>3. QED
    BY <1>24, <2>1, <2>2, FiniteParts, RefsRestated DEF StoreJoinWaker, TypeOK
<1>25. CASE JoinWakerRegistered
  <2>1. Busy' = Busy /\ Held' = Held /\ Cloned' = Cloned
    BY <1>25 DEF JoinWakerRegistered, JoinGoto, Busy, Held, Cloned
  <2>2. JoinRefs' = JoinRefs /\ JoinRefs \in Nat
    BY <1>25 DEF JoinWakerRegistered, JoinGoto, JoinRefs
  <2>3. QED
    BY <1>25, <2>1, <2>2, FiniteParts, RefsRestated, JoinWakerFacts DEF
       JoinWakerRegistered, TypeOK
<1>26. CASE TakeOutput
  <2>1. Busy' = Busy /\ Held' = Held /\ Cloned' = Cloned
    BY <1>26 DEF TakeOutput, JoinGoto, Busy, Held, Cloned
  <2>2. JoinRefs' = JoinRefs /\ JoinRefs \in Nat
    BY <1>26 DEF TakeOutput, JoinGoto, JoinRefs
  <2>3. QED
    BY <1>26, <2>1, <2>2, FiniteParts, RefsRestated DEF TakeOutput, TypeOK
<1>27. CASE CancelByHandle
  <2>1. Busy' = Busy /\ Held' = Held /\ Cloned' = Cloned /\ JoinRefs' = JoinRefs
    BY <1>27 DEF CancelByHandle, Busy, Held, Cloned, JoinRefs
  <2>2. JoinRefs \in Nat
    BY DEF JoinRefs
  <2>3. QED
    BY <1>27, <2>1, <2>2, FiniteParts, RefsRestated, CancelFacts DEF
       CancelByHandle, TypeOK
<1>28. CASE AbandonJoin
  <2>1. Busy' = Busy /\ Held' = Held /\ Cloned' = Cloned
    BY <1>28 DEF AbandonJoin, Busy, Held, Cloned
  <2>2. JoinRefs' = JoinRefs /\ JoinRefs \in Nat
    BY <1>28 DEF AbandonJoin, JoinRefs
  <2>3. QED
    BY <1>28, <2>1, <2>2, FiniteParts, RefsRestated DEF AbandonJoin, TypeOK
<1>28a. CASE JoinerEndPoll
  <2>1. Busy' = Busy /\ Held' = Held /\ Cloned' = Cloned
    BY <1>28a DEF JoinerEndPoll, JoinGoto, Busy, Held, Cloned
  <2>2. JoinRefs' = JoinRefs /\ JoinRefs \in Nat
    BY <1>28a DEF JoinerEndPoll, JoinGoto, JoinRefs
  <2>3. QED
    BY <1>28a, <2>1, <2>2, FiniteParts, RefsRestated DEF JoinerEndPoll, TypeOK
<1>29. CASE ReleaseJoinHandle
  <2>1. Busy' = Busy /\ Held' = Held /\ Cloned' = Cloned
    BY <1>29 DEF ReleaseJoinHandle, JoinGoto, Busy, Held, Cloned
  <2>2. JoinRefs' = JoinRefs /\ JoinRefs \in Nat
    BY <1>29 DEF ReleaseJoinHandle, JoinGoto, JoinRefs
  <2>3. QED
    BY <1>29, <2>1, <2>2, FiniteParts, RefsRestated, JoinWakerFacts DEF
       ReleaseJoinHandle, TypeOK
<1>30. CASE JoinDrop
  <2>1. Busy' = Busy /\ Held' = Held /\ Cloned' = Cloned
    BY <1>30 DEF JoinDrop, JoinGoto, Busy, Held, Cloned
  <2>2. JoinRefs' = JoinRefs - 1 /\ JoinRefs \in Nat
    BY <1>30 DEF JoinDrop, JoinGoto, JoinRefs
  <2>3. /\ state'.refs = state.refs - 1 /\ state.refs \in Nat /\ state.refs > 0
        /\ (allocated' <=> allocated /\ state.refs # 1) /\ runq' = runq
    BY <1>30, RefFacts, RefsPositive DEF JoinDrop, JoinGoto, DropTaskRef,
       drop_ref_was_last, TypeOK, Snapshot
  <2>4. allocated' <=> state'.refs > 0
    BY <2>3, RefsRestated
  <2>5. QED
    BY <2>1, <2>2, <2>3, <2>4, FiniteParts, RefsRestated DEF TypeOK
<1>31. CASE UNCHANGED vars
  BY <1>31 DEF vars, RefsCountHolders
<1>32. QED
  BY <1>1, <1>2, <1>3, <1>4, <1>5, <1>6, <1>7, <1>8, <1>9, <1>10, <1>11, <1>12,
     <1>13, <1>14, <1>15, <1>16, <1>17, <1>18, <1>19, <1>20, <1>21, <1>22,
     <1>23, <1>24, <1>25, <1>26, <1>27, <1>28, <1>28a, <1>29, <1>30,
     <1>31 DEF Next,
     WorkerStep, HolderStep, JoinStep

\* RunStep, action EndPollPending.
LEMMA RunStepEndPollPending ==
  ASSUME TypeOK, RunInv, NEW w \in Workers, EndPollPending(w)
  PROVE  RunInv'
<1>1. /\ ~state'.polling /\ ~state'.complete /\ state'.woken = state.woken
      /\ wpc[w] = "poll" /\ wpc' = [wpc EXCEPT ![w] = IF state.woken THEN "requeue" ELSE "drop"]
      /\ UNCHANGED <<runq, hpc, jpc>>
  BY EndPollPendingFacts DEF EndPollPending, TypeOK
<1>2. /\ \A v \in Workers : v # w => v \notin RunningWorkers
      /\ EnqueuingHolders = {} /\ runq = 0 /\ jpc # "spawn"
  BY <1>1 DEF TypeOK, RunInv, SingleRunner, RunningWorkers
<1>3. /\ EnqueuingHolders' = {}
      /\ RunningWorkers' = IF state.woken THEN {w} ELSE {}
  BY <1>1, <1>2 DEF TypeOK, RunningWorkers, EnqueuingHolders
<1>4. ~ \E v \in Workers : InPoll(v)'
  BY <1>1, <1>2 DEF TypeOK, InPoll, RunningWorkers
<1>5. QED
  BY SMTT(30), <1>1, <1>2, <1>3, <1>4 DEF TypeOK, RunInv, SingleRunner, Queued

\* RunStep, action EndPollReady.
LEMMA RunStepEndPollReady ==
  ASSUME TypeOK, RunInv, NEW w \in Workers, EndPollReady(w)
  PROVE  RunInv'
<1>1. /\ ~state'.polling /\ state'.complete /\ wpc[w] = "end"
      /\ UNCHANGED <<runq, hpc, jpc>>
  BY EndPollReadyFacts DEF EndPollReady, TypeOK
<1>2. \E to \in {"wait", "wake", "drop"} : wpc' = [wpc EXCEPT ![w] = to]
  BY DEF EndPollReady
<1>3. /\ \A v \in Workers : v # w => v \notin RunningWorkers
      /\ EnqueuingHolders = {} /\ runq = 0 /\ jpc # "spawn"
  BY <1>1 DEF TypeOK, RunInv, SingleRunner, RunningWorkers
<1>4. EnqueuingHolders' = {} /\ RunningWorkers' = {}
  BY <1>1, <1>2, <1>3 DEF TypeOK, RunningWorkers, EnqueuingHolders
<1>5. ~ \E v \in Workers : InPoll(v)'
  BY <1>1, <1>2, <1>3 DEF TypeOK, InPoll, RunningWorkers
<1>6. QED
  BY <1>1, <1>3, <1>4, <1>5 DEF TypeOK, RunInv, SingleRunner, Queued

\* The right to run or queue the task stays unique.  A wake-up may queue it only
\* when neither POLLING nor WOKEN is set, and then nobody else has that right.
LEMMA RunStep ==
  ASSUME TypeOK, RunInv, [Next]_vars
  PROVE  RunInv'
<1> USE DEF TypeOK, RunInv, SingleRunner, Queued, InPoll, RunningWorkers,
            EnqueuingHolders
<1>1. CASE SpawnScheduled
  BY <1>1 DEF SpawnScheduled, JoinGoto
<1>2. CASE SpawnClosed
  BY <1>2, RefFacts DEF SpawnClosed, JoinGoto, DropTaskRef, drop_ref_was_last
<1>3. ASSUME NEW w \in Workers, Dequeue(w) PROVE RunInv'
  BY <1>3 DEF Dequeue, WorkerGoto
<1>4. ASSUME NEW w \in Workers, StartPoll(w) PROVE RunInv'
  BY <1>4, StartPollFacts DEF StartPoll, should_wait, has_join_waker
<1>5. ASSUME NEW w \in Workers, EndPollPending(w) PROVE RunInv'
  BY <1>5, RunStepEndPollPending
<1>6. ASSUME NEW w \in Workers, StoreOutput(w) PROVE RunInv'
  BY <1>6 DEF StoreOutput, WorkerGoto
<1>7. ASSUME NEW w \in Workers, EndPollReady(w) PROVE RunInv'
  BY <1>7, RunStepEndPollReady
<1>8. ASSUME NEW w \in Workers, WaitForJoinWaker(w) PROVE RunInv'
  BY <1>8, JoinWakerFacts DEF WaitForJoinWaker, WorkerGoto, can_take_join_waker
<1>9. ASSUME NEW w \in Workers, WakeJoinWaker(w) PROVE RunInv'
  BY <1>9 DEF WakeJoinWaker, WorkerGoto
<1>10. ASSUME NEW w \in Workers, Requeue(w) PROVE RunInv'
  BY <1>10 DEF Requeue, WorkerGoto
<1>11. ASSUME NEW w \in Workers, WorkerDrop(w) PROVE RunInv'
  BY <1>11, RefFacts DEF WorkerDrop, WorkerGoto, DropTaskRef, drop_ref_was_last
<1>12. ASSUME NEW w \in Workers, WakeSelf(w) PROVE RunInv'
  BY <1>12, WakeByRefFacts DEF WakeSelf
<1>13. ASSUME NEW w \in Workers, NEW h \in Holders, CloneWaker(w, h) PROVE RunInv'
  BY <1>13, RefFacts DEF CloneWaker, HolderGoto
<1>14. ASSUME NEW h \in Holders, WakeByVal(h) PROVE RunInv'
  BY <1>14, WakeByValFacts DEF WakeByVal, HolderGoto
<1>15. ASSUME NEW h \in Holders, EnqueueVal(h) PROVE RunInv'
  BY <1>15 DEF EnqueueVal, HolderGoto
<1>16. ASSUME NEW h \in Holders, WakeByRef(h) PROVE RunInv'
  BY <1>16, WakeByRefFacts DEF WakeByRef, HolderGoto
<1>17. ASSUME NEW h \in Holders, CloneForQueue(h) PROVE RunInv'
  BY <1>17, RefFacts DEF CloneForQueue, HolderGoto
<1>18. ASSUME NEW h \in Holders, EnqueueRef(h) PROVE RunInv'
  BY <1>18 DEF EnqueueRef, HolderGoto
<1>19. ASSUME NEW h \in Holders, StartDrop(h) PROVE RunInv'
  BY <1>19 DEF StartDrop, HolderGoto
<1>20. ASSUME NEW h \in Holders, HolderDrop(h) PROVE RunInv'
  BY <1>20, RefFacts DEF HolderDrop, HolderGoto, DropTaskRef, drop_ref_was_last
<1>21. ASSUME NEW h \in Holders, CancelByRef(h) PROVE RunInv'
  BY SMTT(30), <1>21, CancelFacts DEF CancelByRef
<1>22. ASSUME NEW h \in Holders, NEW g \in Holders, CloneHeld(h, g) PROVE RunInv'
  BY <1>22, RefFacts DEF CloneHeld, HolderGoto
<1>23. CASE PollJoin
  BY <1>23, TryJoinFacts DEF PollJoin
<1>24. CASE StoreJoinWaker
  BY <1>24 DEF StoreJoinWaker
<1>25. CASE JoinWakerRegistered
  BY <1>25, JoinWakerFacts DEF JoinWakerRegistered, JoinGoto
<1>26. CASE TakeOutput
  BY <1>26 DEF TakeOutput, JoinGoto
<1>27. CASE CancelByHandle
  BY SMTT(30), <1>27, CancelFacts DEF CancelByHandle
<1>28. CASE AbandonJoin
  BY <1>28 DEF AbandonJoin
<1>28a. CASE JoinerEndPoll
  BY <1>28a DEF JoinerEndPoll, JoinGoto
<1>29. CASE ReleaseJoinHandle
  BY <1>29, JoinWakerFacts DEF ReleaseJoinHandle, JoinGoto
<1>30. CASE JoinDrop
  BY SMTT(30), <1>30, RefFacts DEF JoinDrop, JoinGoto, DropTaskRef, drop_ref_was_last
<1>31. CASE UNCHANGED vars
  BY <1>31 DEF vars
<1>32. QED
  BY <1>1, <1>2, <1>3, <1>4, <1>5, <1>6, <1>7, <1>8, <1>9, <1>10, <1>11, <1>12,
     <1>13, <1>14, <1>15, <1>16, <1>17, <1>18, <1>19, <1>20, <1>21, <1>22,
     <1>23, <1>24, <1>25, <1>26, <1>27, <1>28, <1>28a, <1>29, <1>30,
     <1>31 DEF Next,
     WorkerStep, HolderStep, JoinStep

\* WOKEN of an unfinished task always stands for a poll that is still to come.
LEMMA WakeStep ==
  ASSUME TypeOK, RunInv, WakeInv, [Next]_vars
  PROVE  WakeInv'
<1> USE DEF TypeOK, RunInv, SingleRunner, Queued, InPoll, WakeInv,
            WillBePolled, RunningWorkers, EnqueuingHolders
<1>1. CASE SpawnScheduled
  BY <1>1 DEF SpawnScheduled, JoinGoto
<1>2. CASE SpawnClosed
  BY <1>2, RefFacts DEF SpawnClosed, JoinGoto, DropTaskRef, drop_ref_was_last
<1>3. ASSUME NEW w \in Workers, Dequeue(w) PROVE WakeInv'
  BY <1>3 DEF Dequeue, WorkerGoto
<1>4. ASSUME NEW w \in Workers, StartPoll(w) PROVE WakeInv'
  BY <1>4, StartPollFacts DEF StartPoll, should_wait, has_join_waker
<1>5. ASSUME NEW w \in Workers, EndPollPending(w) PROVE WakeInv'
  BY <1>5, EndPollPendingFacts DEF EndPollPending
<1>6. ASSUME NEW w \in Workers, StoreOutput(w) PROVE WakeInv'
  BY <1>6 DEF StoreOutput, WorkerGoto
<1>7. ASSUME NEW w \in Workers, EndPollReady(w) PROVE WakeInv'
  BY <1>7, EndPollReadyFacts DEF EndPollReady, should_wait, has_join_waker
<1>8. ASSUME NEW w \in Workers, WaitForJoinWaker(w) PROVE WakeInv'
  BY SMTT(30), <1>8, JoinWakerFacts DEF WaitForJoinWaker, WorkerGoto, can_take_join_waker
<1>9. ASSUME NEW w \in Workers, WakeJoinWaker(w) PROVE WakeInv'
  BY <1>9 DEF WakeJoinWaker, WorkerGoto
<1>10. ASSUME NEW w \in Workers, Requeue(w) PROVE WakeInv'
  BY <1>10 DEF Requeue, WorkerGoto
<1>11. ASSUME NEW w \in Workers, WorkerDrop(w) PROVE WakeInv'
  BY <1>11, RefFacts DEF WorkerDrop, WorkerGoto, DropTaskRef, drop_ref_was_last
<1>12. ASSUME NEW w \in Workers, WakeSelf(w) PROVE WakeInv'
  BY <1>12, WakeByRefFacts DEF WakeSelf
<1>13. ASSUME NEW w \in Workers, NEW h \in Holders, CloneWaker(w, h) PROVE WakeInv'
  BY <1>13, RefFacts DEF CloneWaker, HolderGoto
<1>14. ASSUME NEW h \in Holders, WakeByVal(h) PROVE WakeInv'
  BY SMTT(30), <1>14, WakeByValFacts DEF WakeByVal, HolderGoto
<1>15. ASSUME NEW h \in Holders, EnqueueVal(h) PROVE WakeInv'
  BY <1>15 DEF EnqueueVal, HolderGoto
<1>16. ASSUME NEW h \in Holders, WakeByRef(h) PROVE WakeInv'
  BY SMTT(30), <1>16, WakeByRefFacts DEF WakeByRef, HolderGoto
<1>17. ASSUME NEW h \in Holders, CloneForQueue(h) PROVE WakeInv'
  BY <1>17, RefFacts DEF CloneForQueue, HolderGoto
<1>18. ASSUME NEW h \in Holders, EnqueueRef(h) PROVE WakeInv'
  BY <1>18 DEF EnqueueRef, HolderGoto
<1>19. ASSUME NEW h \in Holders, StartDrop(h) PROVE WakeInv'
  BY <1>19 DEF StartDrop, HolderGoto
<1>20. ASSUME NEW h \in Holders, HolderDrop(h) PROVE WakeInv'
  BY <1>20, RefFacts DEF HolderDrop, HolderGoto, DropTaskRef, drop_ref_was_last
<1>21. ASSUME NEW h \in Holders, CancelByRef(h) PROVE WakeInv'
  BY <1>21, CancelFacts DEF CancelByRef
<1>22. ASSUME NEW h \in Holders, NEW g \in Holders, CloneHeld(h, g) PROVE WakeInv'
  BY <1>22, RefFacts DEF CloneHeld, HolderGoto
<1>23. CASE PollJoin
  BY <1>23, TryJoinFacts DEF PollJoin
<1>24. CASE StoreJoinWaker
  BY <1>24 DEF StoreJoinWaker
<1>25. CASE JoinWakerRegistered
  BY <1>25, JoinWakerFacts DEF JoinWakerRegistered, JoinGoto
<1>26. CASE TakeOutput
  BY <1>26 DEF TakeOutput, JoinGoto
<1>27. CASE CancelByHandle
  BY <1>27, CancelFacts DEF CancelByHandle
<1>28. CASE AbandonJoin
  BY <1>28 DEF AbandonJoin
<1>28a. CASE JoinerEndPoll
  BY <1>28a DEF JoinerEndPoll, JoinGoto
<1>29. CASE ReleaseJoinHandle
  BY <1>29, JoinWakerFacts DEF ReleaseJoinHandle, JoinGoto
<1>30. CASE JoinDrop
  BY <1>30, RefFacts DEF JoinDrop, JoinGoto, DropTaskRef, drop_ref_was_last
<1>31. CASE UNCHANGED vars
  BY <1>31 DEF vars
<1>32. QED
  BY <1>1, <1>2, <1>3, <1>4, <1>5, <1>6, <1>7, <1>8, <1>9, <1>10, <1>11, <1>12,
     <1>13, <1>14, <1>15, <1>16, <1>17, <1>18, <1>19, <1>20, <1>21, <1>22,
     <1>23, <1>24, <1>25, <1>26, <1>27, <1>28, <1>28a, <1>29, <1>30,
     <1>31 DEF Next,
     WorkerStep, HolderStep, JoinStep

\* The stage follows the COMPLETE and HAS_OUTPUT bits.
LEMMA StageStep ==
  ASSUME TypeOK, RunInv, StageInv, [Next]_vars
  PROVE  StageInv'
<1> USE DEF TypeOK, RunInv, SingleRunner, Queued, InPoll, StageInv,
            RunningWorkers
<1>1. CASE SpawnScheduled
  BY <1>1 DEF SpawnScheduled, JoinGoto
<1>2. CASE SpawnClosed
  BY <1>2, RefFacts DEF SpawnClosed, JoinGoto, DropTaskRef, drop_ref_was_last
<1>3. ASSUME NEW w \in Workers, Dequeue(w) PROVE StageInv'
  BY <1>3 DEF Dequeue, WorkerGoto
<1>4. ASSUME NEW w \in Workers, StartPoll(w) PROVE StageInv'
  BY <1>4, StartPollFacts DEF StartPoll, should_wait, has_join_waker
<1>5. ASSUME NEW w \in Workers, EndPollPending(w) PROVE StageInv'
  BY <1>5, EndPollPendingFacts DEF EndPollPending
<1>6. ASSUME NEW w \in Workers, StoreOutput(w) PROVE StageInv'
  BY <1>6 DEF StoreOutput, WorkerGoto
<1>7. ASSUME NEW w \in Workers, EndPollReady(w) PROVE StageInv'
  BY <1>7, EndPollReadyFacts DEF EndPollReady, should_wait, has_join_waker
<1>8. ASSUME NEW w \in Workers, WaitForJoinWaker(w) PROVE StageInv'
  BY <1>8, JoinWakerFacts DEF WaitForJoinWaker, WorkerGoto, can_take_join_waker
<1>9. ASSUME NEW w \in Workers, WakeJoinWaker(w) PROVE StageInv'
  BY <1>9 DEF WakeJoinWaker, WorkerGoto
<1>10. ASSUME NEW w \in Workers, Requeue(w) PROVE StageInv'
  BY <1>10 DEF Requeue, WorkerGoto
<1>11. ASSUME NEW w \in Workers, WorkerDrop(w) PROVE StageInv'
  BY <1>11, RefFacts DEF WorkerDrop, WorkerGoto, DropTaskRef, drop_ref_was_last
<1>12. ASSUME NEW w \in Workers, WakeSelf(w) PROVE StageInv'
  BY <1>12, WakeByRefFacts DEF WakeSelf
<1>13. ASSUME NEW w \in Workers, NEW h \in Holders, CloneWaker(w, h) PROVE StageInv'
  BY <1>13, RefFacts DEF CloneWaker, HolderGoto
<1>14. ASSUME NEW h \in Holders, WakeByVal(h) PROVE StageInv'
  BY <1>14, WakeByValFacts DEF WakeByVal, HolderGoto
<1>15. ASSUME NEW h \in Holders, EnqueueVal(h) PROVE StageInv'
  BY <1>15 DEF EnqueueVal, HolderGoto
<1>16. ASSUME NEW h \in Holders, WakeByRef(h) PROVE StageInv'
  BY <1>16, WakeByRefFacts DEF WakeByRef, HolderGoto
<1>17. ASSUME NEW h \in Holders, CloneForQueue(h) PROVE StageInv'
  BY <1>17, RefFacts DEF CloneForQueue, HolderGoto
<1>18. ASSUME NEW h \in Holders, EnqueueRef(h) PROVE StageInv'
  BY <1>18 DEF EnqueueRef, HolderGoto
<1>19. ASSUME NEW h \in Holders, StartDrop(h) PROVE StageInv'
  BY <1>19 DEF StartDrop, HolderGoto
<1>20. ASSUME NEW h \in Holders, HolderDrop(h) PROVE StageInv'
  BY <1>20, RefFacts DEF HolderDrop, HolderGoto, DropTaskRef, drop_ref_was_last
<1>21. ASSUME NEW h \in Holders, CancelByRef(h) PROVE StageInv'
  BY <1>21, CancelFacts DEF CancelByRef
<1>22. ASSUME NEW h \in Holders, NEW g \in Holders, CloneHeld(h, g) PROVE StageInv'
  BY <1>22, RefFacts DEF CloneHeld, HolderGoto
<1>23. CASE PollJoin
  BY <1>23, TryJoinFacts DEF PollJoin
<1>24. CASE StoreJoinWaker
  BY <1>24 DEF StoreJoinWaker
<1>25. CASE JoinWakerRegistered
  BY <1>25, JoinWakerFacts DEF JoinWakerRegistered, JoinGoto
<1>26. CASE TakeOutput
  BY <1>26 DEF TakeOutput, JoinGoto
<1>27. CASE CancelByHandle
  BY <1>27, CancelFacts DEF CancelByHandle
<1>28. CASE AbandonJoin
  BY <1>28 DEF AbandonJoin
<1>28a. CASE JoinerEndPoll
  BY <1>28a DEF JoinerEndPoll, JoinGoto
<1>29. CASE ReleaseJoinHandle
  BY <1>29, JoinWakerFacts DEF ReleaseJoinHandle, JoinGoto
<1>30. CASE JoinDrop
  BY <1>30, RefFacts DEF JoinDrop, JoinGoto, DropTaskRef, drop_ref_was_last
<1>31. CASE UNCHANGED vars
  BY <1>31 DEF vars
<1>32. QED
  BY <1>1, <1>2, <1>3, <1>4, <1>5, <1>6, <1>7, <1>8, <1>9, <1>10, <1>11, <1>12,
     <1>13, <1>14, <1>15, <1>16, <1>17, <1>18, <1>19, <1>20, <1>21, <1>22,
     <1>23, <1>24, <1>25, <1>26, <1>27, <1>28, <1>28a, <1>29, <1>30,
     <1>31 DEF Next,
     WorkerStep, HolderStep, JoinStep

\* JoinInvStep, action EndPollReady.
LEMMA JoinInvStepEndPollReady ==
  ASSUME TypeOK, RunInv, WakeInv, StageInv, JoinInv, NEW w \in Workers, EndPollReady(w)
  PROVE  JoinInv'
<1>1. /\ state'.complete /\ wpc[w] = "end"
      /\ state'.join_waker = IF state.join_waker = "Waiting" THEN "Empty"
                             ELSE state.join_waker
      /\ wpc' = [wpc EXCEPT ![w] = IF state.join_waker = "Registering" THEN "wait"
                                   ELSE IF state.join_waker = "Waiting" THEN "wake"
                                   ELSE "drop"]
      /\ UNCHANGED <<slot, runq, hpc, jpc>>
  BY EndPollReadyFacts DEF EndPollReady, should_wait, has_join_waker, TypeOK
<1>2. /\ \A v \in Workers : v # w => v \notin RunningWorkers
      /\ EnqueuingHolders = {} /\ runq = 0 /\ jpc # "spawn"
  BY <1>1 DEF TypeOK, RunInv, SingleRunner, RunningWorkers
<1>3. ~Queued'
  BY <1>1, <1>2 DEF TypeOK, Queued, RunningWorkers, EnqueuingHolders
<1>4. \A v \in Workers : wpc[v] \notin {"wait", "wake"}
  BY <1>1 DEF JoinInv, Queued, RunningWorkers
<1>5. QED
  BY <1>1, <1>3, <1>4 DEF TypeOK, JoinInv

\* JoinInvStep, action PollJoin.
LEMMA JoinInvStepPollJoin ==
  ASSUME TypeOK, RunInv, WakeInv, StageInv, JoinInv, PollJoin
  PROVE  JoinInv'
<1>1. /\ jpc \in {"idle", "pending"} /\ state.join_waker # "Registering"
      /\ state'.complete = state.complete /\ state'.cancelled = state.cancelled
      /\ UNCHANGED <<slot, runq, wpc, hpc>>
  BY TryJoinFacts DEF PollJoin, TypeOK, JoinInv
<1>2. CASE try_join_action(state) \in {"Register", "Reregister"}
  <2>1. /\ ~state.cancelled /\ ~state.complete
        /\ state'.join_waker = "Registering"
        /\ state.join_waker = "Empty" <=> try_join_action(state) = "Register"
    BY <1>1, <1>2, TryJoinFacts DEF PollJoin, TypeOK, StageInv
  <2>2. jpc' = IF state.join_waker = "Empty" THEN "register" ELSE "reregister"
    <3>1. CASE try_join_action(state) = "Register"
      BY <2>1, <3>1 DEF PollJoin
    <3>2. CASE try_join_action(state) = "Reregister"
      BY <2>1, <3>2 DEF PollJoin
    <3>3. QED
      BY <1>2, <3>1, <3>2
  <2>3. state.join_waker \in {"Empty", "Waiting"}
    BY <1>1, <2>1 DEF TypeOK, Snapshot, JoinWakerState, JoinInv
  <2>4. \A w \in Workers : wpc[w] \notin {"wait", "wake"}
    BY <2>1 DEF JoinInv
  <2>5. QED
    BY <1>1, <2>1, <2>2, <2>3, <2>4 DEF JoinInv
<1>3. CASE try_join_action(state) \in {"TakeOutput", "Canceled"}
  <2>1. jpc' \in {"take", "release"} /\ state'.join_waker = state.join_waker
    BY <1>3, TryJoinFacts DEF PollJoin, TypeOK
  <2>2. Queued' <=> Queued
    BY <1>1, <2>1 DEF Queued, RunningWorkers, EnqueuingHolders
  <2>3. QED
    BY <1>1, <2>1, <2>2 DEF JoinInv
<1>4. QED
  BY <1>2, <1>3, TryJoinFacts DEF TypeOK

\* A step that leaves the JoinHandle, the slot and JOIN_WAKER alone, and lets no
\* worker begin to wait, preserves JoinInv.
LEMMA JoinInvFrame ==
  ASSUME JoinInv, jpc' = jpc, slot' = slot, state'.join_waker = state.join_waker,
         state.complete => state'.complete, state.cancelled => state'.cancelled,
         \A w \in Workers : wpc'[w] \in {"wait", "wake"} => wpc'[w] = wpc[w],
         (\E w \in Workers : wpc[w] \in {"wait", "wake"}) /\ ~Queued => ~Queued'
  PROVE  JoinInv'
BY Zenon DEF JoinInv

\* What makes the task queued is in four variables.
LEMMA QueuedFrame ==
  ASSUME UNCHANGED <<jpc, runq, wpc, hpc>>
  PROVE  Queued' <=> Queued
BY DEF Queued, RunningWorkers, EnqueuingHolders

\* JoinInvStep, the actions that do not concern the joiner.
LEMMA JoinInvStepOther ==
  ASSUME TypeOK, RunInv, WakeInv, JoinInv
  PROVE  /\ \A w \in Workers : EndPollPending(w) \/ WorkerDrop(w) \/ WakeSelf(w) => JoinInv'
         /\ \A h \in Holders : WakeByVal(h) \/ WakeByRef(h) \/ CancelByRef(h) => JoinInv'
         /\ CancelByHandle => JoinInv'
<1>0. state \in Snapshot
  BY DEF TypeOK
<1>1. ASSUME NEW w \in Workers, EndPollPending(w) PROVE JoinInv'
  <2>1. /\ wpc[w] = "poll" /\ wpc \in [Workers -> WorkerPC]
        /\ \E to \in {"requeue", "drop"} : wpc' = [wpc EXCEPT ![w] = to]
        /\ jpc' = jpc /\ slot' = slot /\ state' = end_poll(state, FALSE)
    BY <1>1 DEF EndPollPending, TypeOK
  <2>2. w \in RunningWorkers
    BY <2>1 DEF RunningWorkers
  <2>3. Queued /\ ~state.complete
    BY <2>2 DEF Queued, RunInv
  <2>4. /\ state'.join_waker = state.join_waker
        /\ state.cancelled => state'.cancelled
    BY <1>0, <2>1, EndPollPendingFacts
  <2>5. \A v \in Workers : wpc'[v] \in {"wait", "wake"} => wpc'[v] = wpc[v]
    BY <2>1
  <2>6. QED
    BY <2>1, <2>3, <2>4, <2>5, JoinInvFrame
<1>2. ASSUME NEW w \in Workers, WorkerDrop(w) PROVE JoinInv'
  <2>1. /\ wpc[w] = "drop" /\ wpc \in [Workers -> WorkerPC]
        /\ wpc' = [wpc EXCEPT ![w] = "idle"] /\ state' = drop_ref(state)
        /\ jpc' = jpc /\ slot' = slot /\ runq' = runq /\ hpc' = hpc
    BY <1>2 DEF WorkerDrop, WorkerGoto, DropTaskRef, TypeOK
  <2>2. RunningWorkers' = RunningWorkers /\ EnqueuingHolders' = EnqueuingHolders
    BY <2>1 DEF RunningWorkers, EnqueuingHolders
  <2>3. Queued' <=> Queued
    BY <2>1, <2>2 DEF Queued
  <2>4. /\ state'.join_waker = state.join_waker
        /\ state.complete => state'.complete
        /\ state.cancelled => state'.cancelled
    BY <1>0, <2>1, RefFacts
  <2>5. \A v \in Workers : wpc'[v] \in {"wait", "wake"} => wpc'[v] = wpc[v]
    BY <2>1
  <2>6. QED
    BY <2>1, <2>3, <2>4, <2>5, JoinInvFrame
<1>3. ASSUME NEW w \in Workers, WakeSelf(w) PROVE JoinInv'
  <2>1. UNCHANGED <<jpc, slot, runq, wpc, hpc>> /\ state' = wake_by_ref(state)
    BY <1>3 DEF WakeSelf
  <2>2. /\ state'.join_waker = state.join_waker
        /\ state.complete => state'.complete
        /\ state.cancelled => state'.cancelled
    BY <1>0, <2>1, WakeByRefFacts
  <2>3. QED
    BY <2>1, <2>2, QueuedFrame, JoinInvFrame
<1>4. ASSUME NEW h \in Holders, CancelByRef(h) PROVE JoinInv'
  <2>1. UNCHANGED <<jpc, slot, runq, wpc, hpc>> /\ state' = cancel(state)
    BY <1>4 DEF CancelByRef
  <2>2. /\ state'.join_waker = state.join_waker
        /\ state.complete => state'.complete
        /\ state.cancelled => state'.cancelled
    BY <1>0, <2>1, CancelFacts
  <2>3. QED
    BY <2>1, <2>2, QueuedFrame, JoinInvFrame
<1>5. ASSUME CancelByHandle PROVE JoinInv'
  <2>1. UNCHANGED <<jpc, slot, runq, wpc, hpc>> /\ state' = cancel(state)
    BY <1>5 DEF CancelByHandle
  <2>2. /\ state'.join_waker = state.join_waker
        /\ state.complete => state'.complete
        /\ state.cancelled => state'.cancelled
    BY <1>0, <2>1, CancelFacts
  <2>3. QED
    BY <2>1, <2>2, QueuedFrame, JoinInvFrame
<1>6. ASSUME NEW h \in Holders, WakeByVal(h) PROVE JoinInv'
  <2>1. /\ hpc \in [Holders -> HolderPC] /\ hpc[h] = "held"
        /\ hpc' = [hpc EXCEPT ![h] = IF wake_by_val_action(state) = "Enqueue" THEN "enqueue"
                                     ELSE "drop"]
        /\ UNCHANGED <<jpc, slot, runq, wpc>> /\ state' = wake_by_val(state)
    BY <1>6 DEF WakeByVal, HolderGoto, TypeOK
  <2>2. /\ state'.join_waker = state.join_waker
        /\ state.complete => state'.complete
        /\ state.cancelled => state'.cancelled
    BY <1>0, <2>1, WakeByValFacts
  <2>3. ASSUME NEW w \in Workers, wpc[w] \in {"wait", "wake"}, ~Queued PROVE ~Queued'
    <3>1. state.complete \/ state.woken
      BY <2>3 DEF JoinInv, WakeInv
    <3>2. wake_by_val_action(state) # "Enqueue"
      BY <1>0, <3>1, WakeByValFacts
    <3>3. EnqueuingHolders' = EnqueuingHolders /\ RunningWorkers' = RunningWorkers
      BY <2>1, <3>2 DEF EnqueuingHolders, RunningWorkers
    <3>4. QED
      BY <2>1, <2>3, <3>3 DEF Queued
  <2>4. QED
    BY <2>1, <2>2, <2>3, JoinInvFrame
<1>7. ASSUME NEW h \in Holders, WakeByRef(h) PROVE JoinInv'
  <2>1. /\ hpc \in [Holders -> HolderPC] /\ hpc[h] = "held"
        /\ hpc' = [hpc EXCEPT ![h] = IF wake_by_ref_action(state) = "Enqueue" THEN "ref_clone"
                                     ELSE "held"]
        /\ UNCHANGED <<jpc, slot, runq, wpc>> /\ state' = wake_by_ref(state)
    BY <1>7 DEF WakeByRef, HolderGoto, TypeOK
  <2>2. /\ state'.join_waker = state.join_waker
        /\ state.complete => state'.complete
        /\ state.cancelled => state'.cancelled
    BY <1>0, <2>1, WakeByRefFacts
  <2>3. ASSUME NEW w \in Workers, wpc[w] \in {"wait", "wake"}, ~Queued PROVE ~Queued'
    <3>1. state.complete \/ state.woken
      BY <2>3 DEF JoinInv, WakeInv
    <3>2. wake_by_ref_action(state) # "Enqueue"
      BY <1>0, <3>1, WakeByRefFacts
    <3>3. EnqueuingHolders' = EnqueuingHolders /\ RunningWorkers' = RunningWorkers
      BY <2>1, <3>2 DEF EnqueuingHolders, RunningWorkers
    <3>4. QED
      BY <2>1, <2>3, <3>3 DEF Queued
  <2>4. QED
    BY <2>1, <2>2, <2>3, JoinInvFrame
<1>8. QED
  BY <1>1, <1>2, <1>3, <1>4, <1>5, <1>6, <1>7

\* JoinInvStep, action WaitForJoinWaker.
LEMMA JoinInvStepWait ==
  ASSUME TypeOK, JoinInv, NEW w \in Workers, WaitForJoinWaker(w)
  PROVE  JoinInv'
<1>1. /\ wpc[w] = "wait" /\ wpc \in [Workers -> WorkerPC]
      /\ wpc' = [wpc EXCEPT ![w] = "wake"]
      /\ UNCHANGED <<jpc, slot, runq, hpc>>
      /\ state.join_waker = "Waiting" /\ state' = wait_for_join_waker(state)
      /\ state \in Snapshot
  BY DEF WaitForJoinWaker, WorkerGoto, can_take_join_waker, TypeOK
<1>2. /\ state'.join_waker = "Woken"
      /\ state'.complete = state.complete /\ state'.cancelled = state.cancelled
  BY <1>1, JoinWakerFacts DEF wait_for_join_waker, Snapshot
<1>3. RunningWorkers' = RunningWorkers /\ EnqueuingHolders' = EnqueuingHolders
  BY <1>1 DEF RunningWorkers, EnqueuingHolders
<1>4. Queued' <=> Queued
  BY <1>1, <1>3 DEF Queued
<1>5. /\ jpc \notin {"register", "reregister", "registered"}
      /\ ~Queued /\ (state.complete \/ state.cancelled)
      /\ \A v \in Workers : wpc[v] \in {"wait", "wake"} => v = w
  BY <1>1 DEF JoinInv
<1>6. \A v \in Workers : wpc'[v] \in {"wait", "wake"} => v = w
  BY <1>1, <1>5
<1>7. wpc'[w] = "wake"
  BY <1>1
<1>8. QED
  BY <1>1, <1>2, <1>4, <1>5, <1>6, <1>7 DEF JoinInv

\* JoinInvStep, action WakeJoinWaker.
LEMMA JoinInvStepWake ==
  ASSUME TypeOK, JoinInv, NEW w \in Workers, WakeJoinWaker(w)
  PROVE  JoinInv'
<1>1. /\ wpc[w] = "wake" /\ wpc \in [Workers -> WorkerPC]
      /\ wpc' = [wpc EXCEPT ![w] = "drop"]
      /\ UNCHANGED <<state, jpc, runq, hpc>>
  BY Zenon DEF WakeJoinWaker, WorkerGoto, TypeOK
<1>2. wpc'[w] = "drop" /\ \A v \in Workers \ {w} : wpc'[v] = wpc[v]
  BY <1>1, Zenon
<1>3. RunningWorkers' = RunningWorkers /\ EnqueuingHolders' = EnqueuingHolders
  BY <1>1, <1>2 DEF RunningWorkers, EnqueuingHolders
<1>4. Queued' <=> Queued
  BY <1>1, <1>3 DEF Queued
<1>5. state.join_waker \in {"Empty", "Woken"}
  BY <1>1 DEF JoinInv
<1>6. jpc \notin {"register", "reregister", "registered"} /\ state.join_waker # "Waiting"
  BY <1>5 DEF JoinInv
<1>7. \A v \in Workers : wpc'[v] \in {"wait", "wake"} => wpc'[v] = wpc[v]
  BY <1>2
<1>8. QED
  BY <1>1, <1>4, <1>5, <1>6, <1>7 DEF JoinInv

\* The handshake between the JoinHandle and the worker that ends the task.
LEMMA JoinInvStep ==
  ASSUME TypeOK, RunInv, WakeInv, StageInv, JoinInv, [Next]_vars
  PROVE  JoinInv'
<1> USE DEF TypeOK, RunInv, SingleRunner, Queued, WakeInv, StageInv, JoinInv,
            RunningWorkers, EnqueuingHolders
<1>1. CASE SpawnScheduled
  BY <1>1 DEF SpawnScheduled, JoinGoto
<1>2. CASE SpawnClosed
  BY <1>2, RefFacts DEF SpawnClosed, JoinGoto, DropTaskRef, drop_ref_was_last
<1>3. ASSUME NEW w \in Workers, Dequeue(w) PROVE JoinInv'
  BY <1>3 DEF Dequeue, WorkerGoto
<1>4. ASSUME NEW w \in Workers, StartPoll(w) PROVE JoinInv'
  BY <1>4, StartPollFacts DEF StartPoll, should_wait, has_join_waker
<1>5. ASSUME NEW w \in Workers, EndPollPending(w) PROVE JoinInv'
  BY <1>5, JoinInvStepOther
<1>6. ASSUME NEW w \in Workers, StoreOutput(w) PROVE JoinInv'
  BY <1>6 DEF StoreOutput, WorkerGoto
<1>7. ASSUME NEW w \in Workers, EndPollReady(w) PROVE JoinInv'
  BY <1>7, JoinInvStepEndPollReady
<1>8. ASSUME NEW w \in Workers, WaitForJoinWaker(w) PROVE JoinInv'
  BY <1>8, JoinInvStepWait
<1>9. ASSUME NEW w \in Workers, WakeJoinWaker(w) PROVE JoinInv'
  BY <1>9, JoinInvStepWake
<1>10. ASSUME NEW w \in Workers, Requeue(w) PROVE JoinInv'
  BY <1>10 DEF Requeue, WorkerGoto
<1>11. ASSUME NEW w \in Workers, WorkerDrop(w) PROVE JoinInv'
  BY <1>11, JoinInvStepOther
<1>12. ASSUME NEW w \in Workers, WakeSelf(w) PROVE JoinInv'
  BY <1>12, JoinInvStepOther
<1>13. ASSUME NEW w \in Workers, NEW h \in Holders, CloneWaker(w, h) PROVE JoinInv'
  BY <1>13, RefFacts DEF CloneWaker, HolderGoto
<1>14. ASSUME NEW h \in Holders, WakeByVal(h) PROVE JoinInv'
  BY <1>14, JoinInvStepOther
<1>15. ASSUME NEW h \in Holders, EnqueueVal(h) PROVE JoinInv'
  BY <1>15 DEF EnqueueVal, HolderGoto
<1>16. ASSUME NEW h \in Holders, WakeByRef(h) PROVE JoinInv'
  BY <1>16, JoinInvStepOther
<1>17. ASSUME NEW h \in Holders, CloneForQueue(h) PROVE JoinInv'
  BY <1>17, RefFacts DEF CloneForQueue, HolderGoto
<1>18. ASSUME NEW h \in Holders, EnqueueRef(h) PROVE JoinInv'
  BY <1>18 DEF EnqueueRef, HolderGoto
<1>19. ASSUME NEW h \in Holders, StartDrop(h) PROVE JoinInv'
  BY <1>19 DEF StartDrop, HolderGoto
<1>20. ASSUME NEW h \in Holders, HolderDrop(h) PROVE JoinInv'
  BY <1>20, RefFacts DEF HolderDrop, HolderGoto, DropTaskRef, drop_ref_was_last
<1>21. ASSUME NEW h \in Holders, CancelByRef(h) PROVE JoinInv'
  BY <1>21, JoinInvStepOther
<1>22. ASSUME NEW h \in Holders, NEW g \in Holders, CloneHeld(h, g) PROVE JoinInv'
  BY <1>22, RefFacts DEF CloneHeld, HolderGoto
<1>23. CASE PollJoin
  BY <1>23, JoinInvStepPollJoin
<1>24. CASE StoreJoinWaker
  BY <1>24 DEF StoreJoinWaker
<1>25. CASE JoinWakerRegistered
  BY ZenonT(60), <1>25, JoinWakerFacts DEF JoinWakerRegistered, JoinGoto
<1>26. CASE TakeOutput
  BY <1>26 DEF TakeOutput, JoinGoto
<1>27. CASE CancelByHandle
  BY <1>27, JoinInvStepOther
<1>28. CASE AbandonJoin
  BY <1>28 DEF AbandonJoin
<1>28a. CASE JoinerEndPoll
  BY <1>28a DEF JoinerEndPoll, JoinGoto
<1>29. CASE ReleaseJoinHandle
  BY ZenonT(60), <1>29, JoinWakerFacts DEF ReleaseJoinHandle, JoinGoto
<1>30. CASE JoinDrop
  BY <1>30, RefFacts DEF JoinDrop, JoinGoto, DropTaskRef, drop_ref_was_last
<1>31. CASE UNCHANGED vars
  BY <1>31 DEF vars
<1>32. QED
  BY <1>1, <1>2, <1>3, <1>4, <1>5, <1>6, <1>7, <1>8, <1>9, <1>10, <1>11, <1>12,
     <1>13, <1>14, <1>15, <1>16, <1>17, <1>18, <1>19, <1>20, <1>21, <1>22,
     <1>23, <1>24, <1>25, <1>26, <1>27, <1>28, <1>28a, <1>29, <1>30,
     <1>31 DEF Next,
     WorkerStep, HolderStep, JoinStep

-----------------------------------------------------------------------------
(* The invariant, and what follows from it. *)

\* The freshly built task satisfies the invariant.
LEMMA InitIInv == Init => IInv
<1>1. SUFFICES ASSUME Init PROVE IInv
  OBVIOUS
<1>2. TypeOK
  BY <1>1, NewFacts DEF Init, TypeOK, WorkerPC, HolderPC, JoinPC
<1>3. RefsCountHolders
  <2>1. Busy = {} /\ Held = {} /\ Cloned = {} /\ JoinRefs = 2
    BY <1>1 DEF Init, Busy, Held, Cloned, JoinRefs
  <2>2. QED
    BY <1>1, <2>1, NewFacts, FS_EmptySet, RefsRestated DEF Init
<1>4. RunInv /\ WakeInv /\ StageInv /\ JoinInv
  <2>1. RunningWorkers = {} /\ EnqueuingHolders = {}
    BY <1>1 DEF Init, RunningWorkers, EnqueuingHolders
  <2>2. \A w \in Workers : wpc[w] = "idle"
    BY <1>1 DEF Init
  <2>3. RunInv
    BY <1>1, <2>1, <2>2, NewFacts DEF Init, RunInv, SingleRunner, Queued, InPoll
  <2>4. WakeInv
    BY <1>1, <2>1, <2>2, NewFacts DEF Init, WakeInv
  <2>5. StageInv
    BY <1>1, <2>1, <2>2, NewFacts DEF Init, StageInv
  <2>6. JoinInv
    BY <1>1, <2>1, <2>2, NewFacts DEF Init, JoinInv
  <2> QED
    BY <2>3, <2>4, <2>5, <2>6
<1>5. QED
  BY <1>2, <1>3, <1>4 DEF IInv

\* The invariant is inductive.
LEMMA NextIInv == IInv /\ [Next]_vars => IInv'
BY TypeStep, RefsStep, RunStep, WakeStep, StageStep, JoinInvStep DEF IInv

\* The inductive invariant holds in every reachable state, whatever the numbers
\* of workers and of waker holders.
THEOREM Invariance == Spec => []IInv
BY InitIInv, NextIInv, PTL DEF Spec

\* Every variable keeps its type; in particular REFS never drops below zero, which
\* needs the reference count (State::drop_ref subtracts without a check).
THEOREM TypeCorrect == Spec => []TypeOK
<1>1. IInv => TypeOK
  BY DEF IInv
<1>2. QED
  BY <1>1, Invariance, PTL

\* REFS counts exactly the live TaskRefs and Wakers and the task is freed exactly
\* when it reaches zero: no use after free and no leak, for any number of holders.
THEOREM RefCounting == Spec => []RefsCountHolders
<1>1. IInv => RefsCountHolders
  BY DEF IInv
<1>2. QED
  BY <1>1, Invariance, PTL

\* The task is never linked into a run queue twice, nor linked while it runs.
THEOREM OneRunner == Spec => []SingleRunner
<1>1. IInv => SingleRunner
  BY DEF IInv, RunInv
<1>2. QED
  BY <1>1, Invariance, PTL

\* A worker that dequeued the task is never told not to poll it.
THEOREM DequeuedIsPollable == Spec => []NeverDontPoll
<1>1. IInv => NeverDontPoll
  <2>1. SUFFICES ASSUME IInv, NEW w \in Workers, wpc[w] = "start"
                 PROVE  start_poll_action(state) # "DontPoll"
    BY DEF NeverDontPoll
  <2>2. ~state.complete
    BY <2>1 DEF IInv, RunInv, Queued, RunningWorkers
  <2>3. ~state.polling
    BY <2>1 DEF IInv, RunInv, SingleRunner, InPoll, RunningWorkers
  <2>4. QED
    BY <2>2, <2>3 DEF start_poll_action
<1>2. QED
  BY <1>1, Invariance, PTL

\* The future and its output are accessed by one thread at a time and in the stage
\* that Stage::poll and take_output expect.
THEOREM StageSafe == Spec => []StageProtocol
<1>1. IInv => StageProtocol
  BY SMTT(30) DEF IInv, TypeOK, RunInv, StageInv, SingleRunner, InPoll, RunningWorkers, Queued,
     StageProtocol
<1>2. QED
  BY <1>1, Invariance, PTL

\* The joiner's waker is never read while it is written, nor read by two workers.
THEOREM JoinWakerSafe == Spec => []JoinWakerExclusive
<1>1. IInv => JoinWakerExclusive
  BY DEF IInv, JoinInv, JoinWakerExclusive
<1>2. QED
  BY <1>1, Invariance, PTL

\* The unwrap of the stored waker in Task::poll_join never fails.
THEOREM ReregisterSafe == Spec => []ReregisterFindsWaker
<1>1. IInv => ReregisterFindsWaker
  BY DEF IInv, JoinInv, ReregisterFindsWaker
<1>2. QED
  BY <1>1, Invariance, PTL

\* A wake_by_ref is never lost.
THEOREM WakeByRefSafe == Spec => []WakeByRefNotLost
<1>1. IInv => WakeByRefNotLost
  BY DEF IInv, WakeInv, WakeByRefNotLost
<1>2. QED
  BY <1>1, Invariance, PTL

-----------------------------------------------------------------------------
(* Module Task implements its abstract specification TaskLifecycle. *)

\* A step of the abstract task, or a stutter.
LifeNext == [Lifecycle!Next]_<<phase, output>>

\* LifecycleStep, actions JoinWakerRegistered and ReleaseJoinHandle.
LEMMA LifecycleStepJoinWaker ==
  ASSUME TypeOK, JoinWakerRegistered \/ ReleaseJoinHandle
  PROVE  LifeNext
<1>1. /\ state \in Snapshot /\ state' \in {join_waker_registered(state), drop_join_handle(state)}
      /\ jpc # "spawn" /\ jpc' # "spawn" /\ UNCHANGED <<stage, runq, wpc, hpc>>
  BY DEF JoinWakerRegistered, ReleaseJoinHandle, JoinGoto, TypeOK
<1>2. state'.complete = state.complete /\ state'.polling = state.polling
  BY <1>1, JoinWakerFacts
<1>3. RunningWorkers' = RunningWorkers /\ EnqueuingHolders' = EnqueuingHolders
  BY <1>1 DEF RunningWorkers, EnqueuingHolders
<1>4. phase' = phase /\ output' = output
  BY <1>1, <1>2, <1>3 DEF phase, output
<1>5. QED
  BY <1>4 DEF LifeNext

\* Each step of the task is a step of the life cycle or leaves it alone.
LEMMA LifecycleStep ==
  ASSUME TypeOK, RunInv, StageInv, [Next]_vars
  PROVE  LifeNext
<1> USE DEF TypeOK, RunInv, SingleRunner, Queued, InPoll, StageInv,
            RunningWorkers, EnqueuingHolders, phase, output, LifeNext,
            Lifecycle!Next, Lifecycle!Move, Lifecycle!Start, Lifecycle!Yield,
            Lifecycle!Park, Lifecycle!Wake, Lifecycle!Discard,
            Lifecycle!Complete, Lifecycle!Take
<1>1. CASE SpawnScheduled
  BY <1>1 DEF SpawnScheduled, JoinGoto
<1>2. CASE SpawnClosed
  BY <1>2, RefFacts DEF SpawnClosed, JoinGoto, DropTaskRef, drop_ref_was_last
<1>3. ASSUME NEW w \in Workers, Dequeue(w) PROVE LifeNext
  BY <1>3 DEF Dequeue, WorkerGoto
<1>4. ASSUME NEW w \in Workers, StartPoll(w) PROVE LifeNext
  BY <1>4, StartPollFacts DEF StartPoll, should_wait, has_join_waker
<1>5. ASSUME NEW w \in Workers, EndPollPending(w) PROVE LifeNext
  BY <1>5, EndPollPendingFacts DEF EndPollPending
<1>6. ASSUME NEW w \in Workers, StoreOutput(w) PROVE LifeNext
  BY <1>6 DEF StoreOutput, WorkerGoto
<1>7. ASSUME NEW w \in Workers, EndPollReady(w) PROVE LifeNext
  BY <1>7, EndPollReadyFacts DEF EndPollReady, should_wait, has_join_waker
<1>8. ASSUME NEW w \in Workers, WaitForJoinWaker(w) PROVE LifeNext
  BY <1>8, JoinWakerFacts DEF WaitForJoinWaker, WorkerGoto, can_take_join_waker
<1>9. ASSUME NEW w \in Workers, WakeJoinWaker(w) PROVE LifeNext
  BY <1>9 DEF WakeJoinWaker, WorkerGoto
<1>10. ASSUME NEW w \in Workers, Requeue(w) PROVE LifeNext
  BY <1>10 DEF Requeue, WorkerGoto
<1>11. ASSUME NEW w \in Workers, WorkerDrop(w) PROVE LifeNext
  BY <1>11, RefFacts DEF WorkerDrop, WorkerGoto, DropTaskRef, drop_ref_was_last
<1>12. ASSUME NEW w \in Workers, WakeSelf(w) PROVE LifeNext
  BY <1>12, WakeByRefFacts DEF WakeSelf
<1>13. ASSUME NEW w \in Workers, NEW h \in Holders, CloneWaker(w, h) PROVE LifeNext
  BY <1>13, RefFacts DEF CloneWaker, HolderGoto
<1>14. ASSUME NEW h \in Holders, WakeByVal(h) PROVE LifeNext
  BY <1>14, WakeByValFacts DEF WakeByVal, HolderGoto
<1>15. ASSUME NEW h \in Holders, EnqueueVal(h) PROVE LifeNext
  BY <1>15 DEF EnqueueVal, HolderGoto
<1>16. ASSUME NEW h \in Holders, WakeByRef(h) PROVE LifeNext
  BY <1>16, WakeByRefFacts DEF WakeByRef, HolderGoto
<1>17. ASSUME NEW h \in Holders, CloneForQueue(h) PROVE LifeNext
  BY <1>17, RefFacts DEF CloneForQueue, HolderGoto
<1>18. ASSUME NEW h \in Holders, EnqueueRef(h) PROVE LifeNext
  BY <1>18 DEF EnqueueRef, HolderGoto
<1>19. ASSUME NEW h \in Holders, StartDrop(h) PROVE LifeNext
  BY <1>19 DEF StartDrop, HolderGoto
<1>20. ASSUME NEW h \in Holders, HolderDrop(h) PROVE LifeNext
  BY <1>20, RefFacts DEF HolderDrop, HolderGoto, DropTaskRef, drop_ref_was_last
<1>21. ASSUME NEW h \in Holders, CancelByRef(h) PROVE LifeNext
  BY <1>21, CancelFacts DEF CancelByRef
<1>22. ASSUME NEW h \in Holders, NEW g \in Holders, CloneHeld(h, g) PROVE LifeNext
  BY <1>22, RefFacts DEF CloneHeld, HolderGoto
<1>23. CASE PollJoin
  BY <1>23, TryJoinFacts DEF PollJoin
<1>24. CASE StoreJoinWaker
  BY <1>24 DEF StoreJoinWaker
<1>25. CASE JoinWakerRegistered
  BY <1>25, LifecycleStepJoinWaker
<1>26. CASE TakeOutput
  BY <1>26 DEF TakeOutput, JoinGoto
<1>27. CASE CancelByHandle
  BY <1>27, CancelFacts DEF CancelByHandle
<1>28. CASE AbandonJoin
  BY <1>28 DEF AbandonJoin
<1>28a. CASE JoinerEndPoll
  BY <1>28a DEF JoinerEndPoll, JoinGoto
<1>29. CASE ReleaseJoinHandle
  BY <1>29, LifecycleStepJoinWaker
<1>30. CASE JoinDrop
  BY <1>30, RefFacts DEF JoinDrop, JoinGoto, DropTaskRef, drop_ref_was_last
<1>31. CASE UNCHANGED vars
  BY <1>31 DEF vars
<1>32. QED
  BY <1>1, <1>2, <1>3, <1>4, <1>5, <1>6, <1>7, <1>8, <1>9, <1>10, <1>11, <1>12,
     <1>13, <1>14, <1>15, <1>16, <1>17, <1>18, <1>19, <1>20, <1>21, <1>22,
     <1>23, <1>24, <1>25, <1>26, <1>27, <1>28, <1>28a, <1>29, <1>30,
     <1>31 DEF Next,
     WorkerStep, HolderStep, JoinStep

\* The new task is queued and has no output.
LEMMA LifecycleInit == Init => Lifecycle!Init
BY NewFacts DEF Init, Lifecycle!Init, phase, output

\* Every behaviour of the task, with its threads, flags and references, is one of
\* the abstract life cycle: it is polled only after it was queued and never again
\* after it completed, and its output is taken at most once.
THEOREM Refinement == Spec => ImplementsLifecycle
<1>1. Init => Lifecycle!Init
  BY LifecycleInit
<1>2. IInv /\ [Next]_vars => [Lifecycle!Next]_<<phase, output>>
  BY LifecycleStep DEF IInv, LifeNext
<1>3. QED
  BY <1>1, <1>2, Invariance, PTL DEF Spec, ImplementsLifecycle, Lifecycle!Spec
=============================================================================
