--------------------------- MODULE PriorityMutex ---------------------------
(***************************************************************************)
(* The mutexes of the kernel (chibios/os/kernel/src/chmtx.c) on its ready  *)
(* list (chschd.c): stacks of owned mutexes, waiting queues ordered by     *)
(* priority, priority inheritance along chains of waiting owners, and the  *)
(* hand-over of a mutex to its first waiter.                               *)
(*                                                                         *)
(* A call runs with the kernel locked from its start to the switch of      *)
(* threads, so a call is one action of the running thread.  Between two    *)
(* calls a thread may sleep, and an interrupt may end a sleep or find the  *)
(* time slice used up.                                                     *)
(***************************************************************************)
EXTENDS Integers, SequencesExt

CONSTANTS
  Threads,    (* the threads, without the idle thread                      *)
  Idle,       (* the idle thread: never calls, never sleeps                *)
  Mutexes,    (* numbers: callers nest mutexes in ascending order          *)
  RealPrio,   (* p_realprio of each thread, the idle thread's included     *)
  None        (* the null pointer                                          *)

All == Threads \cup {Idle}

ASSUME MutexAssumption ==
  /\ Idle \notin Threads
  /\ Mutexes \subseteq Nat
  /\ None \notin All /\ None \notin Mutexes
  /\ RealPrio \in [All -> Nat]
  /\ \A t \in Threads : RealPrio[t] > RealPrio[Idle]

VARIABLES
  owner,      (* m_owner                                                   *)
  queue,      (* m_queue, from its head                                    *)
  held,       (* p_mtxlist, the mutex locked last first                    *)
  wtobjp,     (* p_u.wtobjp of a thread in THD_STATE_WTMTX, else None      *)
  prio,       (* p_prio                                                    *)
  state,      (* p_state                                                   *)
  ready,      (* rlist.r_queue, from its head                              *)
  currp,      (* rlist.r_current                                           *)
  unlocking   (* the kernel is locked by the loop of chMtxUnlockAll        *)

vars == <<owner, queue, held, wtobjp, prio, state, ready, currp, unlocking>>

States == {"CURRENT", "READY", "WTMTX", "SLEEPING"}

TypeOK ==
  /\ owner \in [Mutexes -> Threads \cup {None}]
  /\ queue \in [Mutexes -> Seq(Threads)]
  /\ held \in [Threads -> Seq(Mutexes)]
  /\ wtobjp \in [Threads -> Mutexes \cup {None}]
  /\ prio \in [All -> Nat]
  /\ state \in [All -> States]
  /\ ready \in Seq(All)
  /\ currp \in All
  /\ unlocking \in BOOLEAN

(* All threads sleep; the idle thread runs.                                *)
Init ==
  /\ owner = [m \in Mutexes |-> None]
  /\ queue = [m \in Mutexes |-> <<>>]
  /\ held = [t \in Threads |-> <<>>]
  /\ wtobjp = [t \in Threads |-> None]
  /\ prio = RealPrio
  /\ state = [t \in All |-> IF t = Idle THEN "CURRENT" ELSE "SLEEPING"]
  /\ ready = <<>>
  /\ currp = Idle
  /\ unlocking = FALSE
-----------------------------------------------------------------------------
(* Lists ordered by descending priority; p is the priorities.              *)

(* The place in q behind everybody of at least this priority.              *)
Place(q, p, least) ==
  CHOOSE i \in 1 .. Len(q) + 1 :
    /\ \A j \in 1 .. i - 1 : p[q[j]] >= least
    /\ i <= Len(q) => p[q[i]] < least

(* Mutant: a thread enqueued last, whatever its priority.                  *)
BehindAll(q, t, p) == Append(q, t)

(* prio_insert, chSchReadyI: behind the threads of the same priority.      *)
Behind(q, t, p) == InsertAt(q, Place(q, p, p[t]), t)

(* chSchDoRescheduleAhead: ahead of the threads of the same priority.      *)
Ahead(q, t, p) == InsertAt(q, Place(q, p, p[t] + 1), t)

-----------------------------------------------------------------------------
(* The owner of m, if it is below priority p.                              *)
OwnerBelow(m, p) == {t \in Threads : owner[m] = t /\ prio[t] < p}

(* Mutant: inheritance stops at the first owner.                           *)
BoostedOne(m, p) == OwnerBelow(m, p)

(* The threads chMtxLockS boosts to priority p for a caller that waits for *)
(* m: the owner of m if it is below p, and so on along the mutexes the     *)
(* boosted ones wait for, until a thread is not below p or does not wait.  *)
Boosted(m, p) ==
  LET Closed(S) ==
        /\ OwnerBelow(m, p) \subseteq S
        /\ \A t \in S : wtobjp[t] # None => OwnerBelow(wtobjp[t], p) \subseteq S
  IN  {t \in Threads : \A S \in SUBSET Threads : Closed(S) => t \in S}

(* Mutant: a boosted thread keeps its place.                               *)
ReorderedNot(q, S, p) == q

(* q with the boosted thread in it, if there is one, put at its new place. *)
Reordered(q, S, p) ==
  IF \E i \in DOMAIN q : q[i] \in S
  THEN LET i == CHOOSE j \in DOMAIN q : q[j] \in S
       IN  Behind(RemoveAt(q, i), q[i], p)
  ELSE q

(* chSchGoSleepS with the ready list q: its head runs.                     *)
GoSleep(newstate, q) ==
  /\ currp' = Head(q)
  /\ ready' = Tail(q)
  /\ state' = [state EXCEPT ![currp] = newstate, ![Head(q)] = "CURRENT"]

(* Mutant: the thread that lost the processor is not put on the ready list.*)
WakeupLost(t, p) ==
  IF p[t] <= p[currp]
  THEN /\ ready' = Behind(ready, t, p)
       /\ state' = [state EXCEPT ![t] = "READY"]
       /\ currp' = currp
  ELSE /\ ready' = ready
       /\ state' = [state EXCEPT ![t] = "CURRENT", ![currp] = "READY"]
       /\ currp' = t

(* chSchWakeupS of a thread that is in no list: the caller keeps the       *)
(* processor unless the other has a higher priority.                       *)
Wakeup(t, p) ==
  IF p[t] <= p[currp]
  THEN /\ ready' = Behind(ready, t, p)
       /\ state' = [state EXCEPT ![t] = "READY"]
       /\ currp' = currp
  ELSE /\ ready' = Behind(ready, currp, p)
       /\ state' = [state EXCEPT ![t] = "CURRENT", ![currp] = "READY"]
       /\ currp' = t

(* chSchDoRescheduleAhead and -Behind: the head of the ready list q takes  *)
(* over, and rest is the list with the thread that ran put back; st is the *)
(* states before.                                                          *)
Switch(q, rest, st) ==
  /\ currp' = Head(q)
  /\ ready' = rest
  /\ state' = [st EXCEPT ![currp] = "READY", ![Head(q)] = "CURRENT"]

Stay(q, st) == currp' = currp /\ ready' = q /\ state' = st
-----------------------------------------------------------------------------
(* Callers nest mutexes in ascending order, so waits form no cycle.        *)
MayLock(t, m) == \A i \in DOMAIN held[t] : held[t][i] < m

(* chMtxLockS and chMtxTryLockS of a free mutex.                           *)
LockFree(t, m) ==
  /\ t = currp /\ MayLock(t, m)
  /\ owner[m] = None
  /\ owner' = [owner EXCEPT ![m] = t]
  /\ held' = [held EXCEPT ![t] = <<m>> \o @]
  /\ UNCHANGED <<queue, wtobjp, prio, state, ready, currp, unlocking>>

(* chMtxLockS of a taken mutex: inheritance, then sleep on its queue.  Of  *)
(* the boosted threads, those that wait change place in their queue and    *)
(* the last, if it is ready, in the ready list.                            *)
LockTaken(t, m) ==
  /\ t = currp /\ MayLock(t, m)
  /\ owner[m] # None
  /\ LET B == Boosted(m, prio[t])
         p == [u \in All |-> IF u \in B THEN prio[t] ELSE prio[u]]
     IN  /\ prio' = p
         /\ queue' = [x \in Mutexes |->
                        IF x = m THEN Behind(Reordered(queue[x], B, p), t, p)
                        ELSE Reordered(queue[x], B, p)]
         /\ GoSleep("WTMTX", Reordered(ready, B, p))
  /\ wtobjp' = [wtobjp EXCEPT ![t] = m]
  /\ UNCHANGED <<owner, held, unlocking>>

(* What a thread has to inherit through the mutexes of the stack s.        *)
Inherited(s, base) ==
  Max({base} \cup {prio[Head(queue[m])] : m \in {x \in ToSet(s) : queue[x] # <<>>}})

(* chMtxUnlock of a mutex nobody waits for.                                *)
UnlockFree(t) ==
  /\ t = currp /\ held[t] # <<>>
  /\ queue[Head(held[t])] = <<>>
  /\ owner' = [owner EXCEPT ![Head(held[t])] = None]
  /\ held' = [held EXCEPT ![t] = Tail(@)]
  /\ UNCHANGED <<queue, wtobjp, prio, state, ready, currp, unlocking>>

(* chMtxUnlock with waiters: the first gets the mutex, and the caller      *)
(* keeps the priority it inherits through the mutexes it still owns.       *)
UnlockHandOver(t) ==
  /\ t = currp /\ held[t] # <<>>
  /\ LET m == Head(held[t])
         heir == Head(queue[m])
         p == [prio EXCEPT ![t] = Inherited(Tail(held[t]), RealPrio[t])]
     IN  /\ queue[m] # <<>>
         /\ prio' = p
         /\ queue' = [queue EXCEPT ![m] = Tail(@)]
         /\ owner' = [owner EXCEPT ![m] = heir]
         /\ held' = [held EXCEPT ![t] = Tail(@), ![heir] = <<m>> \o @]
         /\ wtobjp' = [wtobjp EXCEPT ![heir] = None]
         /\ Wakeup(heir, p)
  /\ unlocking' = unlocking

(* chMtxUnlockAll is a loop with the kernel locked: no other action is     *)
(* possible while unlocking is TRUE.                                       *)
UnlockAllBegins(t) ==
  /\ t = currp /\ held[t] # <<>>
  /\ unlocking' = TRUE
  /\ UNCHANGED <<owner, queue, held, wtobjp, prio, state, ready, currp>>

(* One turn: the mutex on top is freed or handed to its first waiter, who  *)
(* becomes ready.                                                          *)
UnlockAllNext(t) ==
  /\ t = currp /\ held[t] # <<>>
  /\ LET m == Head(held[t])
         heir == Head(queue[m])
     IN  IF queue[m] = <<>>
         THEN /\ owner' = [owner EXCEPT ![m] = None]
              /\ held' = [held EXCEPT ![t] = Tail(@)]
              /\ UNCHANGED <<queue, wtobjp, state, ready>>
         ELSE /\ owner' = [owner EXCEPT ![m] = heir]
              /\ held' = [held EXCEPT ![t] = Tail(@), ![heir] = <<m>> \o @]
              /\ queue' = [queue EXCEPT ![m] = Tail(@)]
              /\ wtobjp' = [wtobjp EXCEPT ![heir] = None]
              /\ ready' = Behind(ready, heir, prio)
              /\ state' = [state EXCEPT ![heir] = "READY"]
  /\ UNCHANGED <<prio, currp, unlocking>>

(* Its end: the caller drops to its own priority, and chSchRescheduleS.    *)
UnlockAllEnds(t) ==
  /\ t = currp /\ held[t] = <<>>
  /\ prio' = [prio EXCEPT ![t] = RealPrio[t]]
  /\ IF ready # <<>> /\ prio[Head(ready)] > RealPrio[t]
     THEN Switch(ready, Ahead(Tail(ready), t, prio'), state) ELSE Stay(ready, state)
  /\ unlocking' = FALSE
  /\ UNCHANGED <<owner, queue, held, wtobjp>>
-----------------------------------------------------------------------------
(* chThdSleep.                                                             *)
Sleep(t) ==
  /\ t = currp
  /\ GoSleep("SLEEPING", ready)
  /\ UNCHANGED <<owner, queue, held, wtobjp, prio, unlocking>>

(* The end of an interrupt: chSchIsPreemptionRequired and chSchDoReschedule*)
(* on the ready list q.  Whether the time slice is spent is left open.     *)
Epilogue(q, st) ==
  \E spent \in BOOLEAN :
    IF q # <<>> /\ prio[Head(q)] >= prio[currp] + (IF spent THEN 0 ELSE 1)
    THEN Switch(q, IF spent THEN Behind(Tail(q), currp, prio) ELSE Ahead(Tail(q), currp, prio), st)
    ELSE Stay(q, st)

(* A timer ends the sleep of t.                                            *)
WakeUp(t) ==
  /\ state[t] = "SLEEPING"
  /\ Epilogue(Behind(ready, t, prio), [state EXCEPT ![t] = "READY"])
  /\ UNCHANGED <<owner, queue, held, wtobjp, prio, unlocking>>

(* A tick that ends no sleep.                                              *)
SysTick ==
  /\ Epilogue(ready, state)
  /\ UNCHANGED <<owner, queue, held, wtobjp, prio, unlocking>>

Next ==
  \/ /\ ~unlocking
     /\ \/ \E t \in Threads :
             \/ \E m \in Mutexes : LockFree(t, m) \/ LockTaken(t, m)
             \/ UnlockFree(t) \/ UnlockHandOver(t) \/ UnlockAllBegins(t)
             \/ Sleep(t) \/ WakeUp(t)
        \/ SysTick
  \/ /\ unlocking
     /\ \E t \in Threads : UnlockAllNext(t) \/ UnlockAllEnds(t)

Spec == Init /\ [][Next]_vars
-----------------------------------------------------------------------------
Sorted(q) == \A i, j \in DOMAIN q : i < j => prio[q[j]] <= prio[q[i]]

(* A thread is in one place only: it runs, or it is in the ready list, or  *)
(* in the queue of the mutex it waits for, or it sleeps; and the stack of  *)
(* a thread holds the mutexes it owns.  A call that moves two threads or   *)
(* re-enqueues a third must not lose or double one.                        *)
OnePlaceEach ==
  /\ TypeOK
  /\ \A t \in All : state[t] = "CURRENT" <=> currp = t
  /\ ToSet(ready) = {t \in All : state[t] = "READY"} /\ IsInjective(ready)
  /\ \A m \in Mutexes :
       /\ ToSet(queue[m]) = {t \in Threads : state[t] = "WTMTX" /\ wtobjp[t] = m}
       /\ IsInjective(queue[m])
  /\ \A t \in Threads :
       /\ ToSet(held[t]) = {m \in Mutexes : owner[m] = t}
       /\ IsInjective(held[t])

(* The threads that wait for a mutex t owns.                               *)
Blocked(t) == {u \in Threads : wtobjp[u] # None /\ owner[wtobjp[u]] = t}

(* Inheritance is exact and transitive: at every moment a thread has the   *)
(* highest of its own priority and those of all it blocks, which have      *)
(* theirs by the same rule.  Too little is an inversion, too much is a     *)
(* boost that is never given back.  Only the caller of chMtxUnlockAll      *)
(* keeps, until its loop is over, what it had.                             *)
PriorityIsExact ==
  \A t \in Threads :
    LET due == {RealPrio[t]} \cup {prio[u] : u \in Blocked(t)}
    IN  IF unlocking /\ t = currp THEN Max(due) <= prio[t] ELSE prio[t] = Max(due)

(* No ready thread has a higher priority than the one that runs, though    *)
(* chSchWakeupS compares with one thread only and chMtxUnlock lowers the   *)
(* caller just before.                                                     *)
HighestRuns ==
  /\ Sorted(ready)
  /\ \A i \in DOMAIN ready : prio[ready[i]] <= prio[currp]

(* Whatever the queues, stacks and priorities do, the mutexes are those of *)
(* Lock: a thread that waits is given the mutex by its owner, the highest  *)
(* priority first, and is asleep until then.                               *)
L == INSTANCE Lock WITH wanted <- wtobjp
ImplementsLock == L!Spec
=============================================================================
