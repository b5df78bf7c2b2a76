-------------------------------- MODULE Lock --------------------------------
(***************************************************************************)
(* What a set of mutexes promises to its threads: an owner at a time, a    *)
(* free mutex is had at once, a taken one is waited for, and what is given *)
(* up goes straight to a waiter of the highest priority.  PriorityMutex    *)
(* (chmtx.c) implements it.                                                *)
(***************************************************************************)
EXTENDS Naturals

CONSTANTS
  Threads,  (* the threads that use the mutexes                            *)
  Mutexes,  (* the mutexes                                                 *)
  None      (* no thread, and no mutex                                     *)

VARIABLES
  owner,    (* owner[m]: the thread that has m, or None                    *)
  wanted,   (* wanted[t]: the mutex t sleeps for, or None                  *)
  prio      (* prio[t]: the priority of t, which Lock reads and others set *)

Waiters(m) == {t \in Threads : wanted[t] = m}

Init ==
  /\ owner = [m \in Mutexes |-> None]
  /\ wanted = [t \in Threads |-> None]

Get(t, m) ==
  /\ wanted[t] = None
  /\ owner[m] = None
  /\ owner' = [owner EXCEPT ![m] = t]
  /\ wanted' = wanted

Wait(t, m) ==
  /\ wanted[t] = None
  /\ owner[m] \notin {None, t}
  /\ wanted' = [wanted EXCEPT ![t] = m]
  /\ owner' = owner

(* Who may have m next.                                                    *)
Heirs(m) ==
  IF Waiters(m) = {} THEN {None}
  ELSE {t \in Waiters(m) : \A other \in Waiters(m) : prio[other] <= prio[t]}

(* t gives up the mutexes S.                                               *)
Release(t, S) ==
  /\ wanted[t] = None
  /\ \A m \in S : owner[m] = t
  /\ \A m \in Mutexes : IF m \in S THEN owner'[m] \in Heirs(m)
                                   ELSE owner'[m] = owner[m]
  /\ owner' \in [Mutexes -> Threads \cup {None}]
  /\ wanted' = [w \in Threads |->
                  IF \E m \in S : owner'[m] = w THEN None ELSE wanted[w]]

Next ==
  \E t \in Threads :
    \/ \E m \in Mutexes : Get(t, m) \/ Wait(t, m)
    \/ \E S \in SUBSET Mutexes : Release(t, S)

Spec == Init /\ [][Next]_<<owner, wanted>>
=============================================================================
