---------------------------- MODULE FlightProofs ----------------------------
(***************************************************************************)
(* Machine-checked facts about Flight, for any set of attitude fields and  *)
(* any size of the output queue.                                           *)
(***************************************************************************)
EXTENDS Flight, TLAPS

(* The thread in a transaction is the owner of its bus and the other way   *)
(* round.                                                                  *)
OwnerInv ==
  \A b \in Buses, t \in Threads :
    owner[b] = t <=> InTransaction(t) /\ BusOf(at[t]) = b

(* A thread outside the bus sequences has none in progress.                *)
PhaseInv == \A t \in Threads : at[t] \notin BusPoints => phase[t] = "want"

(* A mutex somebody waits for is owned.                                    *)
WaitInv == \A t \in Threads : InBus(t, "waiting") => owner[BusOf(at[t])] \in Threads

(* The lock, without the data it protects.                                 *)
LockInv == TypeOK /\ OwnerInv /\ PhaseInv /\ WaitInv /\ PriorityIsInherited

(* The fields the estimator has touched carry the new publication.         *)
AttitudeInv ==
  IF at["dcm"] = "publish"
  THEN \A f \in Fields :
         attitude[f] = IF f \in left["dcm"] THEN latest ELSE NextVersion
  ELSE left["dcm"] = Fields /\ \A f \in Fields : attitude[f] = latest

(* What the history variable stands for.                                   *)
OverlapInv ==
  /\ left["dcm"] # Fields /\ left["main"] # Fields => overlap
  /\ ~overlap => \A f \in Fields \ left["main"] : seen[f] = latest
  /\ at["main"] \in {"printMotors", "servos"} /\ ~overlap
       => \A f, g \in Fields : seen[f] = seen[g]

IInv == LockInv /\ AttitudeInv /\ OverlapInv
-----------------------------------------------------------------------------
(* Every point leads to points.                                            *)
LEMMA FollowingPoints ==
  ASSUME NEW t \in Threads, NEW p \in Points
  PROVE  Following(t, p) \subseteq Points
BY DEF Following, Points, BusPoints, ImuPoints, MagPoints, BaroPoints, Naps,
       Prints, CommandStarts

(* Every point of a bus sequence is on one of the two buses.               *)
LEMMA BusOfType == \A p : BusOf(p) \in Buses
BY DEF BusOf, Buses

(* Two thread names and two priorities.                                    *)
LEMMA Constants ==
  /\ "dcm" \in Threads /\ "main" \in Threads /\ NoThread \notin Threads
  /\ NORMALPRIO \in Int /\ HIGHPRIO \in Int /\ NORMALPRIO < HIGHPRIO
BY FlightAssumption DEF Threads, NORMALPRIO, HIGHPRIO

(* A thread that owns no mutex is not boosted.                             *)
LEMMA WantsNotBoosted ==
  ASSUME LockInv, NEW t \in Threads, ~InTransaction(t)
  PROVE  ~Boosted(t)
BY Constants DEF LockInv, OwnerInv, Boosted

(* No thread but the owner of the bus it waits for runs at HIGHPRIO with   *)
(* the estimator, so nobody else runs while it publishes.                  *)
LEMMA PublishingAlone ==
  ASSUME LockInv, NEW t \in Threads \ {"dcm"}, Running(t)
  PROVE  at["dcm"] # "publish"
<1> SUFFICES ASSUME at["dcm"] = "publish" PROVE FALSE
  OBVIOUS
<1>1. at["dcm"] \notin BusPoints /\ at["dcm"] \notin Naps \cup {"prompt"} \cup Prints
  BY DEF BusPoints, ImuPoints, MagPoints, BaroPoints, Naps, Prints
<1>2. Ready("dcm")
  BY <1>1, Constants DEF LockInv, PhaseInv, Ready
<1>3. prio["dcm"] = HIGHPRIO /\ prio["dcm"] <= prio[t]
  BY <1>2, Constants DEF Running, LockInv, PriorityIsInherited
<1>4. prio[t] = HIGHPRIO
  BY <1>3, Constants DEF LockInv, TypeOK
<1>5. Boosted(t)
  BY <1>4, Constants DEF LockInv, PriorityIsInherited
<1> QED BY <1>1, <1>5 DEF Boosted, Waiters, InBus
-----------------------------------------------------------------------------
(* The invariant holds when the threads start.                             *)
LEMMA InitInv == Init => IInv
<1> SUFFICES ASSUME Init PROVE IInv
  OBVIOUS
<1>1. at \in [Threads -> Points] /\ at["dcm"] = "imu" /\ at["main"] = "readAttitude"
  BY DEF Init, Threads, Points, BusPoints, ImuPoints
<1>2. TypeOK
  <2>1. phase \in [Threads -> Phases]
    BY DEF Init, Phases
  <2>2. prio \in [Threads -> {NORMALPRIO, HIGHPRIO}]
    BY DEF Init, RealPrio
  <2>3. owner \in [Buses -> Threads \cup {NoThread}]
    BY DEF Init
  <2>4. output \in 0 .. OutputSize
    BY FlightAssumption DEF Init
  <2>5. latest \in Versions /\ attitude \in [Fields -> Versions]
        /\ seen \in [Fields -> Versions]
    BY DEF Init, Versions
  <2>6. left \in [Threads -> SUBSET Fields] /\ overlap \in BOOLEAN
    BY DEF Init
  <2> QED BY <1>1, <2>1, <2>2, <2>3, <2>4, <2>5, <2>6 DEF TypeOK
<1>3. \A t \in Threads : phase[t] = "want"
  BY DEF Init
<1>4. \A t \in Threads : ~InTransaction(t) /\ ~InBus(t, "waiting")
  BY <1>3 DEF InTransaction, InBus
<1>5. \A b \in Buses : owner[b] = NoThread
  BY DEF Init
<1>6. OwnerInv /\ PhaseInv /\ WaitInv
  BY <1>3, <1>4, <1>5, Constants DEF OwnerInv, PhaseInv, WaitInv
<1>7. PriorityIsInherited
  <2>1. \A t \in Threads : ~Boosted(t)
    BY <1>5, Constants DEF Boosted
  <2> QED BY <2>1, Constants DEF Init, PriorityIsInherited, RealPrio
<1>8. AttitudeInv /\ OverlapInv
  BY <1>1, Constants DEF Init, AttitudeInv, OverlapInv
<1> QED BY <1>2, <1>6, <1>7, <1>8 DEF IInv, LockInv
(* A thread that goes on to another point is at a point, its loop is reset *)
(* and the other threads stay where they are.                              *)
LEMMA AdvanceType ==
  ASSUME TypeOK, NEW t \in Threads, Advance(t)
  PROVE  /\ at' \in [Threads -> Points]
         /\ left' \in [Threads -> SUBSET Fields]
         /\ left' = [left EXCEPT ![t] = Fields]
         /\ \A u \in Threads \ {t} : at'[u] = at[u]
         /\ at'[t] \in Following(t, at[t])
<1>1. at[t] \in Points
  BY DEF TypeOK
<1>2. PICK point \in Following(t, at[t]) : at' = [at EXCEPT ![t] = point]
  BY DEF Advance
<1>3. point \in Points
  BY <1>1, <1>2, FollowingPoints
<1>4. at' \in [Threads -> Points] /\ at'[t] = point
      /\ \A u \in Threads \ {t} : at'[u] = at[u]
  BY <1>2, <1>3 DEF TypeOK
<1>5. left' = [left EXCEPT ![t] = Fields] /\ left' \in [Threads -> SUBSET Fields]
  BY DEF Advance, TypeOK
<1> QED BY <1>2, <1>4, <1>5

(* Every step keeps the variables in their types.                          *)
LEMMA TypeStep == TypeOK /\ [Next]_vars => TypeOK'
<1> SUFFICES ASSUME TypeOK, [Next]_vars PROVE TypeOK'
  OBVIOUS
<1>0. /\ "dcm" \in Threads /\ "main" \in Threads /\ "shell" \in Threads
      /\ \A ph \in {"want", "waiting", "held", "busy", "done"} : ph \in Phases
  BY DEF Threads, Phases
<1>1. ASSUME NEW t \in Threads, Acquire(t)
      PROVE  TypeOK'
  <2>1. phase' \in [Threads -> Phases]
    BY <1>1, <1>0 DEF Acquire, TypeOK
  <2>2. owner' \in [Buses -> Threads \cup {NoThread}]
    BY <1>1, BusOfType DEF Acquire, TypeOK
  <2>3. prio' \in [Threads -> {NORMALPRIO, HIGHPRIO}]
    <3>1. owner[BusOf(at[t])] \in Threads \cup {NoThread}
      BY BusOfType DEF TypeOK
    <3>2. prio[t] \in {NORMALPRIO, HIGHPRIO}
      BY DEF TypeOK
    <3> QED BY <1>1, <3>1, <3>2 DEF Acquire, TypeOK
  <2> QED BY <1>1, <2>1, <2>2, <2>3 DEF Acquire, TypeOK
<1>2. ASSUME NEW t \in Threads, Transmit(t) \/ TransferEnds(t)
      PROVE  TypeOK'
  BY <1>2, <1>0 DEF Transmit, TransferEnds, TypeOK
<1>3. ASSUME NEW t \in Threads, Release(t)
      PROVE  TypeOK'
  <2>1. phase' \in [Threads -> Phases]
    BY <1>3, <1>0 DEF Release, TypeOK, Waiters
  <2>2. owner' \in [Buses -> Threads \cup {NoThread}]
    BY <1>3, BusOfType DEF Release, TypeOK, Waiters
  <2>3. prio' \in [Threads -> {NORMALPRIO, HIGHPRIO}]
    BY <1>3 DEF Release, TypeOK, RealPrio
  <2>4. at' \in [Threads -> Points] /\ left' \in [Threads -> SUBSET Fields]
    BY <1>3, AdvanceType DEF Release
  <2> QED BY <1>3, <2>1, <2>2, <2>3, <2>4 DEF Release, TypeOK
<1>4. ASSUME NEW t \in Threads, Wake(t)
      PROVE  TypeOK'
  BY <1>4, AdvanceType DEF Wake, TypeOK
<1>5. CASE Command
  BY <1>5, <1>0, AdvanceType DEF Command, TypeOK
<1>6. ASSUME NEW t \in Threads, Chprintf(t)
      PROVE  TypeOK'
  <2>1. output < OutputSize
    BY <1>6 DEF Chprintf, Running, Ready
  <2>2. output' \in 0 .. OutputSize
    BY <1>6, <2>1, FlightAssumption DEF Chprintf, TypeOK
  <2> QED BY <1>6, <2>2, AdvanceType DEF Chprintf, TypeOK
<1>7. CASE Drain
  BY <1>7, FlightAssumption DEF Drain, TypeOK
<1>8. ASSUME NEW f \in Fields, PublishField(f)
      PROVE  TypeOK'
  <2>1. NextVersion \in Versions
    BY DEF TypeOK, NextVersion, Versions
  <2>2. attitude' \in [Fields -> Versions]
    BY <1>8, <2>1 DEF PublishField, TypeOK
  <2>3. left' \in [Threads -> SUBSET Fields]
    BY <1>8, <1>0 DEF PublishField, TypeOK
  <2>4. overlap' \in BOOLEAN
    BY <1>8 DEF PublishField
  <2> QED BY <1>8, <2>2, <2>3, <2>4 DEF PublishField, TypeOK
<1>9. CASE PublishDone
  <2>1. NextVersion \in Versions
    BY DEF TypeOK, NextVersion, Versions
  <2> QED BY <1>9, <1>0, <2>1, AdvanceType DEF PublishDone, TypeOK
<1>10. ASSUME NEW f \in Fields, ReadField(f)
       PROVE  TypeOK'
  <2>1. seen' \in [Fields -> Versions]
    BY <1>10 DEF ReadField, TypeOK
  <2>2. left' \in [Threads -> SUBSET Fields]
    BY <1>10, <1>0 DEF ReadField, TypeOK
  <2>3. overlap' \in BOOLEAN
    BY <1>10 DEF ReadField
  <2> QED BY <1>10, <2>1, <2>2, <2>3 DEF ReadField, TypeOK
<1>11. CASE ReadDone
  BY <1>11, <1>0, AdvanceType DEF ReadDone, TypeOK
<1>12. CASE Servos
  BY <1>12, <1>0, AdvanceType DEF Servos, TypeOK
<1>13. CASE UNCHANGED vars
  BY <1>13 DEF vars, TypeOK
<1> QED BY <1>1, <1>2, <1>3, <1>4, <1>5, <1>6, <1>7, <1>8, <1>9, <1>10,
           <1>11, <1>12, <1>13 DEF Next, Step, Estimate, Control
-----------------------------------------------------------------------------
(* The parts of LockInv other than the types.                              *)
LockRelations == OwnerInv /\ PhaseInv /\ WaitInv /\ PriorityIsInherited

(* A thread outside the bus sequences may go to any point.                 *)
LEMMA MoveLock ==
  ASSUME LockInv, NEW t \in Threads, at[t] \notin BusPoints,
         \A u \in Threads \ {t} : at'[u] = at[u],
         UNCHANGED <<phase, prio, owner>>
  PROVE  LockRelations'
<1>1. phase[t] = "want"
  BY DEF LockInv, PhaseInv
<1>2. ~InTransaction(t) /\ ~InTransaction(t)'
  BY <1>1 DEF InTransaction
<1>3. ~InBus(t, "waiting") /\ ~InBus(t, "waiting")'
  BY <1>1 DEF InBus
<1>4. \A u \in Threads \ {t} :
        /\ at'[u] = at[u] /\ phase'[u] = phase[u]
        /\ InTransaction(u)' <=> InTransaction(u)
        /\ InBus(u, "waiting")' <=> InBus(u, "waiting")
        /\ BusOf(at[u])' = BusOf(at[u])
  BY DEF InTransaction, InBus, BusOf
<1>5. OwnerInv'
  BY <1>2, <1>4 DEF LockInv, OwnerInv
<1>6. PhaseInv'
  BY <1>1, <1>4 DEF LockInv, PhaseInv
<1>7. WaitInv'
  BY <1>3, <1>4 DEF LockInv, WaitInv
<1>8. PriorityIsInherited'
  <2>1. \A b \in Buses : Waiters(b)' = Waiters(b)
    BY <1>3, <1>4 DEF Waiters
  <2>2. \A u \in Threads : Boosted(u)' <=> Boosted(u)
    BY <2>1 DEF Boosted
  <2> QED BY <2>2 DEF LockInv, PriorityIsInherited
<1> QED BY <1>5, <1>6, <1>7, <1>8 DEF LockRelations

(* Steps inside a transaction keep the thread in it.                       *)
LEMMA TransferLock ==
  ASSUME LockInv, NEW t \in Threads, Transmit(t) \/ TransferEnds(t)
  PROVE  LockRelations'
<1>1. /\ at[t] \in BusPoints /\ phase[t] \in {"held", "busy"}
      /\ phase'[t] \in {"busy", "done"}
      /\ \A u \in Threads \ {t} : phase'[u] = phase[u]
      /\ UNCHANGED <<at, prio, owner>>
  BY DEF Transmit, TransferEnds, InBus, LockInv, TypeOK
<1>2. \A u \in Threads : InTransaction(u)' <=> InTransaction(u)
  BY <1>1 DEF InTransaction
<1>3. \A u \in Threads : InBus(u, "waiting")' <=> InBus(u, "waiting")
  BY <1>1 DEF InBus
<1>4. OwnerInv'
  BY <1>1, <1>2 DEF LockInv, OwnerInv
<1>5. PhaseInv'
  BY <1>1 DEF LockInv, PhaseInv
<1>6. WaitInv'
  BY <1>1, <1>3 DEF LockInv, WaitInv
<1>7. PriorityIsInherited'
  <2>1. \A b \in Buses : Waiters(b)' = Waiters(b)
    BY <1>1, <1>3 DEF Waiters
  <2>2. \A u \in Threads : Boosted(u)' <=> Boosted(u)
    BY <1>1, <2>1 DEF Boosted
  <2> QED BY <1>1, <2>2 DEF LockInv, PriorityIsInherited
<1> QED BY <1>4, <1>5, <1>6, <1>7 DEF LockRelations

(* Taking a free mutex, or lending the priority to its owner.              *)
LEMMA AcquireLock ==
  ASSUME LockInv, NEW t \in Threads, Acquire(t)
  PROVE  LockRelations'
<1>0. PICK bus \in Buses : bus = BusOf(at[t])
  BY BusOfType
<1>own. PICK own : own = owner[bus]
  OBVIOUS
<1> USE <1>0, <1>own
<1>1. at[t] \in BusPoints /\ phase[t] = "want" /\ at' = at
  BY DEF Acquire, InBus
<1>2. ~InTransaction(t) /\ ~InBus(t, "waiting")
  BY <1>1 DEF InTransaction, InBus
<1>3. \A b \in Buses : owner[b] # t
  BY <1>2 DEF LockInv, OwnerInv
<1>4. ~Boosted(t)
  BY <1>3 DEF Boosted
<1>5. CASE own = NoThread
  <2>1. /\ owner' = [owner EXCEPT ![bus] = t] /\ prio' = prio
        /\ phase'[t] = "held" /\ \A u \in Threads \ {t} : phase'[u] = phase[u]
    BY <1>5 DEF Acquire, LockInv, TypeOK
  <2>2. owner'[bus] = t /\ \A b \in Buses \ {bus} : owner'[b] = owner[b]
    BY <1>1, <2>1 DEF LockInv, TypeOK
  <2>3. InTransaction(t)' /\ ~InBus(t, "waiting")'
    BY <1>1, <2>1 DEF InTransaction, InBus
  <2>4. \A u \in Threads \ {t} :
          /\ InTransaction(u)' <=> InTransaction(u)
          /\ InBus(u, "waiting")' <=> InBus(u, "waiting")
    BY <1>1, <2>1 DEF InTransaction, InBus
  <2>5. \A u \in Threads : ~(InTransaction(u) /\ BusOf(at[u]) = bus)
    <3> SUFFICES ASSUME NEW u \in Threads, InTransaction(u), BusOf(at[u]) = bus
                 PROVE  FALSE
      OBVIOUS
    <3>1. owner[bus] = u
      BY Zenon DEF LockInv, OwnerInv
    <3> QED BY <3>1, <1>5, Constants
  <2>6. OwnerInv'
    <3> SUFFICES ASSUME NEW b \in Buses, NEW u \in Threads
                 PROVE  owner'[b] = u <=> InTransaction(u)' /\ BusOf(at[u])' = b
      BY DEF OwnerInv
    <3>1. BusOf(at[u])' = BusOf(at[u])
      BY <1>1
    <3>2. CASE b = bus
      BY <3>1, <3>2, <2>2, <2>3, <2>4, <2>5
    <3>3. CASE b # bus
      <4>1. owner'[b] = owner[b]
        BY <3>3, <2>2
      <4>2. owner[b] = u <=> InTransaction(u) /\ BusOf(at[u]) = b
        BY DEF LockInv, OwnerInv
      <4>3. CASE u = t
        BY <4>1, <4>3, <3>1, <3>3, <1>3
      <4>4. CASE u # t
        BY <4>1, <4>2, <4>4, <3>1, <2>4
      <4> QED BY <4>3, <4>4
    <3> QED BY <3>2, <3>3
  <2>7. PhaseInv'
    BY <1>1, <2>1 DEF LockInv, PhaseInv
  <2>8. WaitInv'
    BY <1>1, <2>2, <2>3, <2>4, BusOfType DEF LockInv, WaitInv
  <2>9. \A b \in Buses : Waiters(b)' = Waiters(b)
    BY <1>1, <1>2, <2>3, <2>4 DEF Waiters
  <2>10. Waiters(bus) = {}
    BY <1>5, <1>1, Constants DEF LockInv, WaitInv, Waiters
  <2>11. \A u \in Threads : Boosted(u)' <=> Boosted(u)
    <3> SUFFICES ASSUME NEW u \in Threads, NEW b \in Buses
                 PROVE  owner'[b] = u /\ "dcm" \in Waiters(b)'
                        <=> owner[b] = u /\ "dcm" \in Waiters(b)
      BY DEF Boosted
    <3> QED BY <2>2, <2>9, <2>10
  <2>12. PriorityIsInherited'
    BY <2>1, <2>11 DEF LockInv, PriorityIsInherited
  <2> QED BY <2>6, <2>7, <2>8, <2>12 DEF LockRelations
<1>6. CASE own # NoThread
  <2>0. own \in Threads /\ own # t
    BY <1>1, <1>3, <1>6 DEF LockInv, TypeOK
  <2>1. /\ owner' = owner /\ phase'[t] = "waiting"
        /\ \A u \in Threads \ {t} : phase'[u] = phase[u]
        /\ prio' = IF prio[own] < prio[t] THEN [prio EXCEPT ![own] = prio[t]] ELSE prio
    BY <1>6 DEF Acquire, LockInv, TypeOK
  <2>2. ~InTransaction(t)' /\ InBus(t, "waiting")'
    BY <1>1, <2>1 DEF InTransaction, InBus
  <2>3. \A u \in Threads \ {t} :
          /\ InTransaction(u)' <=> InTransaction(u)
          /\ InBus(u, "waiting")' <=> InBus(u, "waiting")
    BY <1>1, <2>1 DEF InTransaction, InBus
  <2>4. OwnerInv'
    BY <1>1, <1>2, <2>1, <2>2, <2>3 DEF LockInv, OwnerInv
  <2>5. PhaseInv'
    BY <1>1, <2>1 DEF LockInv, PhaseInv
  <2>6. WaitInv'
    BY <1>1, <2>0, <2>1, <2>3 DEF LockInv, WaitInv
  <2>7. Waiters(bus)' = Waiters(bus) \cup {t}
        /\ \A b \in Buses \ {bus} : Waiters(b)' = Waiters(b)
    BY <1>1, <1>2, <2>2, <2>3 DEF Waiters
  <2>8. CASE t = "dcm"
    <3>1. prio[t] = HIGHPRIO
      BY <2>8 DEF LockInv, PriorityIsInherited
    <3>2. prio'[own] = HIGHPRIO /\ \A u \in Threads \ {own} : prio'[u] = prio[u]
      BY <2>0, <2>1, <3>1, Constants DEF LockInv, TypeOK
    <3>3. Boosted(own)'
      BY <1>1, <2>1, <2>7, <2>8 DEF Boosted
    <3>4. \A u \in Threads \ {own} : Boosted(u)' <=> Boosted(u)
      <4> SUFFICES ASSUME NEW u \in Threads \ {own}, NEW b \in Buses
                   PROVE  owner'[b] = u /\ "dcm" \in Waiters(b)'
                          <=> owner[b] = u /\ "dcm" \in Waiters(b)
        BY DEF Boosted
      <4>1. CASE b = bus
        BY <4>1, <2>1
      <4>2. CASE b # bus
        BY <4>2, <2>1, <2>7
      <4> QED BY <4>1, <4>2
    <3> QED
      <4>1. PriorityIsInherited'
        BY <3>2, <3>3, <3>4 DEF LockInv, PriorityIsInherited
      <4> QED BY <4>1, <2>4, <2>5, <2>6 DEF LockRelations
  <2>9. CASE t # "dcm"
    <3>1. prio[t] = NORMALPRIO /\ prio[own] \in {NORMALPRIO, HIGHPRIO}
      BY <1>4, <2>0, <2>9 DEF LockInv, TypeOK, PriorityIsInherited
    <3>2. prio' = prio
      BY <2>1, <3>1, Constants
    <3>3. \A b \in Buses : "dcm" \in Waiters(b)' <=> "dcm" \in Waiters(b)
      BY <2>7, <2>9
    <3>4. \A u \in Threads : Boosted(u)' <=> Boosted(u)
      BY <2>1, <3>3 DEF Boosted
    <3>5. PriorityIsInherited'
      BY <3>2, <3>4 DEF LockInv, PriorityIsInherited
    <3> QED BY <3>5, <2>4, <2>5, <2>6 DEF LockRelations
  <2> QED BY <2>8, <2>9
<1> QED BY <1>5, <1>6
(* Giving a bus back, or handing it to the first waiter.                   *)
LEMMA ReleaseLock ==
  ASSUME LockInv, NEW t \in Threads, Release(t)
  PROVE  LockRelations'
<1>0. PICK bus \in Buses : bus = BusOf(at[t])
  BY BusOfType
<1> USE <1>0
<1>1. /\ at[t] \in BusPoints /\ phase[t] = "done"
      /\ \A u \in Threads \ {t} : at'[u] = at[u]
  BY AdvanceType DEF Release, InBus, LockInv
<1>2. InTransaction(t) /\ ~InBus(t, "waiting")
  BY <1>1 DEF InTransaction, InBus
<1>3. owner[bus] = t
  BY <1>2, Zenon DEF LockInv, OwnerInv
<1>4. \A b \in Buses \ {bus} : owner[b] # t
  BY <1>2 DEF LockInv, OwnerInv
<1>5. \A u \in Threads \ {t} : ~(InTransaction(u) /\ BusOf(at[u]) = bus)
  <2> SUFFICES ASSUME NEW u \in Threads \ {t}, InTransaction(u), BusOf(at[u]) = bus
               PROVE  FALSE
    OBVIOUS
  <2>1. owner[bus] = u
    BY Zenon DEF LockInv, OwnerInv
  <2> QED BY <2>1, <1>3
<1>6. \A u \in Threads \ {t} : BusOf(at[u])' = BusOf(at[u])
  BY <1>1
<1>7. CASE /\ Waiters(bus) = {}
           /\ owner' = [owner EXCEPT ![bus] = NoThread]
           /\ phase' = [phase EXCEPT ![t] = "want"]
           /\ UNCHANGED prio
  <2>1. /\ phase'[t] = "want" /\ prio' = prio
        /\ \A u \in Threads \ {t} : phase'[u] = phase[u]
        /\ owner'[bus] = NoThread /\ \A b \in Buses \ {bus} : owner'[b] = owner[b]
    BY <1>7 DEF LockInv, TypeOK
  <2>2. ~InTransaction(t)' /\ ~InBus(t, "waiting")'
    BY <2>1 DEF InTransaction, InBus
  <2>3. \A u \in Threads \ {t} :
          /\ InTransaction(u)' <=> InTransaction(u)
          /\ InBus(u, "waiting")' <=> InBus(u, "waiting")
    BY <1>1, <2>1 DEF InTransaction, InBus
  <2>4. OwnerInv'
    <3> SUFFICES ASSUME NEW b \in Buses, NEW u \in Threads
                 PROVE  owner'[b] = u <=> InTransaction(u)' /\ BusOf(at[u])' = b
      BY DEF OwnerInv
    <3>1. CASE u = t
      BY <3>1, <2>1, <2>2, <1>4, Constants
    <3>2. CASE u # t /\ b = bus
      BY <3>2, <2>1, <2>3, <1>5, <1>6, Constants
    <3>3. CASE u # t /\ b # bus
      <4>1. owner[b] = u <=> InTransaction(u) /\ BusOf(at[u]) = b
        BY DEF LockInv, OwnerInv
      <4> QED BY <3>3, <4>1, <2>1, <2>3, <1>6
    <3> QED BY <3>1, <3>2, <3>3
  <2>5. PhaseInv'
    BY <1>1, <2>1 DEF LockInv, PhaseInv
  <2>6. \A b \in Buses : Waiters(b)' = Waiters(b)
    BY <1>2, <1>6, <2>2, <2>3 DEF Waiters
  <2>7. WaitInv'
    <3> SUFFICES ASSUME NEW u \in Threads, InBus(u, "waiting")'
                 PROVE  owner'[BusOf(at'[u])] \in Threads
      BY DEF WaitInv
    <3>1. u # t /\ InBus(u, "waiting") /\ BusOf(at'[u]) = BusOf(at[u])
      BY <1>6, <2>2, <2>3
    <3>2. BusOf(at[u]) # bus
      BY <3>1, <1>7 DEF Waiters
    <3> QED BY <3>1, <3>2, <2>1, BusOfType DEF LockInv, WaitInv
  <2>8. \A u \in Threads : Boosted(u)' <=> Boosted(u)
    <3> SUFFICES ASSUME NEW u \in Threads, NEW b \in Buses
                 PROVE  owner'[b] = u /\ "dcm" \in Waiters(b)'
                        <=> owner[b] = u /\ "dcm" \in Waiters(b)
      BY DEF Boosted
    <3> QED BY <2>1, <2>6, <1>7
  <2>9. PriorityIsInherited'
    BY <2>1, <2>8 DEF LockInv, PriorityIsInherited
  <2> QED BY <2>4, <2>5, <2>7, <2>9 DEF LockRelations
<1>8. ASSUME NEW w \in Waiters(bus),
             \A u \in Waiters(bus) : prio[u] <= prio[w],
             owner' = [owner EXCEPT ![bus] = w],
             phase' = [phase EXCEPT ![t] = "want", ![w] = "held"],
             prio' = [prio EXCEPT ![t] = RealPrio(t)]
      PROVE  LockRelations'
  <2>0. w \in Threads /\ InBus(w, "waiting") /\ BusOf(at[w]) = bus /\ w # t
    BY <1>2 DEF Waiters
  <2>1. /\ phase'[t] = "want" /\ phase'[w] = "held"
        /\ \A u \in Threads \ {t, w} : phase'[u] = phase[u]
        /\ owner'[bus] = w /\ \A b \in Buses \ {bus} : owner'[b] = owner[b]
        /\ prio'[t] = RealPrio(t) /\ \A u \in Threads \ {t} : prio'[u] = prio[u]
    BY <1>8, <2>0 DEF LockInv, TypeOK
  <2>2. ~InTransaction(t)' /\ ~InBus(t, "waiting")'
    BY <2>1 DEF InTransaction, InBus
  <2>3. InTransaction(w)' /\ ~InBus(w, "waiting")' /\ ~InTransaction(w)
    BY <1>1, <2>0, <2>1 DEF InTransaction, InBus
  <2>4. \A u \in Threads \ {t, w} :
          /\ InTransaction(u)' <=> InTransaction(u)
          /\ InBus(u, "waiting")' <=> InBus(u, "waiting")
    BY <1>1, <2>1 DEF InTransaction, InBus
  <2>5. \A b \in Buses : owner[b] # w
    BY <2>0, <2>3 DEF LockInv, OwnerInv
  <2>6. OwnerInv'
    <3> SUFFICES ASSUME NEW b \in Buses, NEW u \in Threads
                 PROVE  owner'[b] = u <=> InTransaction(u)' /\ BusOf(at[u])' = b
      BY DEF OwnerInv
    <3>1. CASE u = t
      BY <3>1, <2>0, <2>1, <2>2, <1>4
    <3>2. CASE u = w
      BY <3>2, <2>0, <2>1, <2>3, <2>5, <1>6
    <3>3. CASE u \notin {t, w} /\ b = bus
      BY <3>3, <2>1, <2>4, <1>5, <1>6
    <3>4. CASE u \notin {t, w} /\ b # bus
      <4>1. owner[b] = u <=> InTransaction(u) /\ BusOf(at[u]) = b
        BY DEF LockInv, OwnerInv
      <4> QED BY <3>4, <4>1, <2>1, <2>4, <1>6
    <3> QED BY <3>1, <3>2, <3>3, <3>4
  <2>7. PhaseInv'
    BY <1>1, <2>0, <2>1 DEF LockInv, PhaseInv, InBus
  <2>8. Waiters(bus)' = Waiters(bus) \ {w}
        /\ \A b \in Buses \ {bus} : Waiters(b)' = Waiters(b)
    BY <1>2, <1>6, <2>0, <2>2, <2>3, <2>4 DEF Waiters
  <2>9. WaitInv'
    <3> SUFFICES ASSUME NEW u \in Threads, InBus(u, "waiting")'
                 PROVE  owner'[BusOf(at'[u])] \in Threads
      BY DEF WaitInv
    <3>1. u \notin {t, w} /\ InBus(u, "waiting") /\ BusOf(at'[u]) = BusOf(at[u])
      BY <1>6, <2>2, <2>3, <2>4
    <3> QED BY <3>1, <2>0, <2>1, BusOfType DEF LockInv, WaitInv
  <2>10. "dcm" \in Waiters(bus) => w = "dcm"
    <3> SUFFICES ASSUME "dcm" \in Waiters(bus), w # "dcm" PROVE FALSE
      OBVIOUS
    <3>1. prio["dcm"] = HIGHPRIO /\ prio["dcm"] <= prio[w]
      BY <1>8, Constants DEF LockInv, PriorityIsInherited
    <3>2. prio[w] = HIGHPRIO
      BY <3>1, <2>0, Constants DEF LockInv, TypeOK
    <3>3. ~Boosted(w)
      BY <2>5 DEF Boosted
    <3> QED BY <3>2, <3>3, <2>0 DEF LockInv, PriorityIsInherited
  <2>11. "dcm" \notin Waiters(bus)'
    BY <2>8, <2>10
  <2>12. \A u \in Threads \ {t} : Boosted(u)' <=> Boosted(u)
    <3> SUFFICES ASSUME NEW u \in Threads \ {t}, NEW b \in Buses
                 PROVE  owner'[b] = u /\ "dcm" \in Waiters(b)'
                        <=> owner[b] = u /\ "dcm" \in Waiters(b)
      BY DEF Boosted
    <3>1. CASE b = bus
      BY <3>1, <2>11, <1>3
    <3>2. CASE b # bus
      BY <3>2, <2>1, <2>8
    <3> QED BY <3>1, <3>2
  <2>13. ~Boosted(t)'
    BY <2>0, <2>1, <1>4 DEF Boosted
  <2>14. PriorityIsInherited'
    BY <2>1, <2>12, <2>13, Constants DEF LockInv, PriorityIsInherited, RealPrio
  <2> QED BY <2>6, <2>7, <2>9, <2>14 DEF LockRelations
<1> QED BY <1>7, <1>8 DEF Release
-----------------------------------------------------------------------------
(* Every step keeps the lock part of the invariant.                        *)
LEMMA LockStep == LockInv /\ [Next]_vars => LockInv'
<1> SUFFICES ASSUME LockInv, [Next]_vars PROVE LockInv'
  OBVIOUS
<1> SUFFICES LockRelations'
  BY TypeStep DEF LockInv, LockRelations
<1>0. "dcm" \in Threads /\ "main" \in Threads /\ "shell" \in Threads
  BY DEF Threads
<1>1. TypeOK
  BY DEF LockInv
<1>2. ASSUME NEW t \in Threads, Acquire(t) PROVE LockRelations'
  BY <1>2, AcquireLock
<1>3. ASSUME NEW t \in Threads, Transmit(t) \/ TransferEnds(t) PROVE LockRelations'
  BY <1>3, TransferLock
<1>4. ASSUME NEW t \in Threads, Release(t) PROVE LockRelations'
  BY <1>4, ReleaseLock
<1>5. ASSUME NEW t \in Threads, Wake(t) \/ Chprintf(t)
      PROVE  LockRelations'
  <2>1. at[t] \notin BusPoints
    BY <1>5 DEF Wake, Chprintf, Naps, Prints, BusPoints, ImuPoints, MagPoints, BaroPoints
  <2>2. Advance(t) /\ UNCHANGED <<phase, prio, owner>>
    BY <1>5 DEF Wake, Chprintf
  <2> QED BY <2>1, <2>2, <1>1, AdvanceType, MoveLock
<1>6. CASE Command
  <2>1. at["shell"] \notin BusPoints
    BY <1>6 DEF Command, BusPoints, ImuPoints, MagPoints, BaroPoints
  <2>2. Advance("shell") /\ UNCHANGED <<phase, prio, owner>>
    BY <1>6 DEF Command
  <2> QED BY <2>1, <2>2, <1>0, <1>1, AdvanceType, MoveLock
<1>7. CASE PublishDone
  <2>1. at["dcm"] \notin BusPoints
    BY <1>7 DEF PublishDone, BusPoints, ImuPoints, MagPoints, BaroPoints
  <2>2. Advance("dcm") /\ UNCHANGED <<phase, prio, owner>>
    BY <1>7 DEF PublishDone
  <2> QED BY <2>1, <2>2, <1>0, <1>1, AdvanceType, MoveLock
<1>8. CASE ReadDone \/ Servos
  <2>1. at["main"] \notin BusPoints
    BY <1>8 DEF ReadDone, Servos, BusPoints, ImuPoints, MagPoints, BaroPoints
  <2>2. UNCHANGED <<phase, prio, owner>>
    BY <1>8 DEF ReadDone, Servos
  <2>3. \A u \in Threads \ {"main"} : at'[u] = at[u]
    BY <1>8, <1>0, <1>1, AdvanceType DEF ReadDone, Servos, TypeOK
  <2> QED BY <2>1, <2>2, <2>3, <1>0, MoveLock
<1>9. CASE UNCHANGED <<at, phase, prio, owner>>
  <2>1. OwnerInv' /\ PhaseInv' /\ WaitInv'
    BY <1>9 DEF LockInv, OwnerInv, PhaseInv, WaitInv, InTransaction, InBus, BusOf
  <2>2. \A b \in Buses : Waiters(b)' = Waiters(b)
    BY <1>9 DEF Waiters, InBus, BusOf
  <2>3. \A t \in Threads : Boosted(t)' <=> Boosted(t)
    BY <1>9, <2>2 DEF Boosted
  <2>4. PriorityIsInherited'
    BY <1>9, <2>3 DEF LockInv, PriorityIsInherited
  <2> QED BY <2>1, <2>4 DEF LockRelations
<1>10. ASSUME NEW f \in Fields, PublishField(f) \/ ReadField(f)
       PROVE  LockRelations'
  BY <1>9, <1>10 DEF PublishField, ReadField
<1>11. CASE Drain \/ UNCHANGED vars
  BY <1>9, <1>11 DEF Drain, vars
<1> QED BY <1>2, <1>3, <1>4, <1>5, <1>6, <1>7, <1>8, <1>10, <1>11
        DEF Next, Step, Estimate, Control

(* A step that touches nothing of the attitude, and of whose two loops at  *)
(* most resets the one of main, which does not come from reading.          *)
LEMMA QuietStep ==
  ASSUME IInv, UNCHANGED <<attitude, latest, seen, overlap>>,
         (at'["dcm"] = "publish") <=> (at["dcm"] = "publish"),
         left'["dcm"] = left["dcm"],
         \/ at'["main"] = at["main"] /\ left'["main"] = left["main"]
         \/ /\ left'["main"] = Fields
            /\ at'["main"] \in {"printMotors", "servos"}
                 => at["main"] \in {"printMotors", "servos"}
  PROVE  AttitudeInv' /\ OverlapInv'
<1>1. AttitudeInv'
  BY DEF IInv, AttitudeInv, NextVersion
<1>2. OverlapInv'
  BY DEF IInv, OverlapInv
<1> QED BY <1>1, <1>2

(* Every thread but the estimator going on to its next point, and the      *)
(* estimator going on from and to anything but the publication.            *)
LEMMA QuietAdvance ==
  ASSUME IInv, NEW t \in Threads, Advance(t),
         at[t] # "publish", at[t] # "readAttitude",
         UNCHANGED <<attitude, latest, seen, overlap>>
  PROVE  AttitudeInv' /\ OverlapInv'
<1>1. /\ left' = [left EXCEPT ![t] = Fields]
      /\ \A u \in Threads \ {t} : at'[u] = at[u]
      /\ at'[t] \in Following(t, at[t])
  BY AdvanceType DEF IInv, LockInv
<1>2. left \in [Threads -> SUBSET Fields]
  BY DEF IInv, LockInv, TypeOK
<1>3. \A u \in Threads \ {t} : left'[u] = left[u]
  BY <1>1, <1>2
<1>4. left'[t] = Fields
  BY <1>1, <1>2
<1>5. CASE t = "dcm"
  <2>1. at'["main"] = at["main"] /\ left'["main"] = left["main"]
    BY <1>1, <1>3, <1>5, Constants DEF Threads
  <2>2. left["dcm"] = Fields /\ \A f \in Fields : attitude[f] = latest
    BY <1>5 DEF IInv, AttitudeInv
  <2>3. left'["dcm"] = Fields
    BY <1>4, <1>5
  <2>4. AttitudeInv'
    BY <2>2, <2>3 DEF AttitudeInv
  <2>5. OverlapInv'
    BY <2>1, <2>3 DEF IInv, OverlapInv
  <2> QED BY <2>4, <2>5
<1>6. CASE t = "main"
  <2>1. at'["main"] \in {"printMotors", "servos"}
          => at["main"] \in {"printMotors", "servos"}
    BY <1>1, <1>6 DEF Following, MainFlow
  <2>2. at'["dcm"] = at["dcm"] /\ left'["dcm"] = left["dcm"]
    BY <1>1, <1>3, <1>6, Constants
  <2> QED BY <1>4, <1>6, <2>1, <2>2, QuietStep
<1>7. CASE t \notin {"dcm", "main"}
  <2>1. \A u \in {"dcm", "main"} : at'[u] = at[u] /\ left'[u] = left[u]
    BY <1>1, <1>3, <1>7, Constants
  <2> QED BY <2>1, QuietStep
<1> QED BY <1>5, <1>6, <1>7

(* Every step keeps the attitude part of the invariant.                    *)
LEMMA AttitudeStep == IInv /\ [Next]_vars => AttitudeInv' /\ OverlapInv'
<1> SUFFICES ASSUME IInv, [Next]_vars PROVE AttitudeInv' /\ OverlapInv'
  OBVIOUS
<1>0. "dcm" \in Threads /\ "main" \in Threads /\ "shell" \in Threads
      /\ "main" \in Threads \ {"dcm"}
  BY DEF Threads
<1>1. LockInv /\ left \in [Threads -> SUBSET Fields]
  BY DEF IInv, LockInv, TypeOK
<1>2. CASE UNCHANGED <<at, left, attitude, latest, seen, overlap>>
  BY <1>2, QuietStep
<1>3. ASSUME NEW t \in Threads, Acquire(t) \/ Transmit(t) \/ TransferEnds(t)
      PROVE  AttitudeInv' /\ OverlapInv'
  BY <1>2, <1>3 DEF Acquire, Transmit, TransferEnds
<1>4. ASSUME NEW t \in Threads, Release(t) \/ Wake(t) \/ Chprintf(t)
      PROVE  AttitudeInv' /\ OverlapInv'
  <2>1. at[t] # "publish" /\ at[t] # "readAttitude"
    BY <1>4 DEF Release, Wake, Chprintf, InBus, Naps, Prints, BusPoints, ImuPoints,
                MagPoints, BaroPoints
  <2>2. Advance(t) /\ UNCHANGED <<attitude, latest, seen, overlap>>
    BY <1>4 DEF Release, Wake, Chprintf
  <2> QED BY <2>1, <2>2, QuietAdvance
<1>5. CASE Command
  BY <1>5, <1>0, QuietAdvance DEF Command
<1>6. CASE Servos
  BY <1>6, <1>0, QuietAdvance DEF Servos
<1>7. ASSUME NEW f \in Fields, PublishField(f)
      PROVE  AttitudeInv' /\ OverlapInv'
  <2>1. /\ at["dcm"] = "publish" /\ at' = at /\ f \in left["dcm"]
        /\ left'["dcm"] = left["dcm"] \ {f} /\ left'["main"] = left["main"]
        /\ attitude' = [attitude EXCEPT ![f] = NextVersion]
        /\ latest' = latest /\ seen' = seen
        /\ overlap' = (overlap \/ left["main"] # Fields)
    BY <1>7, <1>0, <1>1 DEF PublishField
  <2>2. NextVersion' = NextVersion
    BY <2>1 DEF NextVersion
  <2>3. attitude \in [Fields -> Versions]
    BY <1>1 DEF LockInv, TypeOK
  <2>4. AttitudeInv'
    <3>1. \A g \in Fields :
            attitude'[g] = IF g \in left'["dcm"] THEN latest ELSE NextVersion
      BY <2>1, <2>3 DEF IInv, AttitudeInv
    <3> QED BY <2>1, <2>2, <3>1 DEF AttitudeInv
  <2>5. OverlapInv'
    BY <2>1 DEF IInv, OverlapInv
  <2> QED BY <2>4, <2>5
<1>8. CASE PublishDone
  <2>1. /\ at["dcm"] = "publish" /\ left["dcm"] = {} /\ latest' = NextVersion
        /\ Advance("dcm") /\ UNCHANGED <<attitude, seen, overlap>>
    BY <1>8 DEF PublishDone
  <2>2. /\ left' = [left EXCEPT !["dcm"] = Fields]
        /\ \A u \in Threads \ {"dcm"} : at'[u] = at[u]
        /\ at'["dcm"] \in Following("dcm", "publish")
    BY <2>1, <1>0, <1>1, AdvanceType DEF LockInv
  <2>3. at'["dcm"] # "publish"
    BY <2>2 DEF Following, EstimatorFlow
  <2>4. /\ left'["dcm"] = Fields /\ left'["main"] = left["main"]
        /\ at'["main"] = at["main"]
    BY <2>2, <1>0, <1>1
  <2>5. \A f \in Fields : attitude[f] = NextVersion
    BY <2>1 DEF IInv, AttitudeInv
  <2>6. AttitudeInv'
    BY <2>1, <2>3, <2>4, <2>5 DEF AttitudeInv
  <2>7. Fields # {} /\ left["main"] # Fields => overlap
    BY <2>1 DEF IInv, OverlapInv
  <2>8. OverlapInv'
    BY <2>1, <2>4, <2>7 DEF IInv, OverlapInv
  <2> QED BY <2>6, <2>8
<1>9. ASSUME NEW f \in Fields, ReadField(f)
      PROVE  AttitudeInv' /\ OverlapInv'
  <2>1. /\ Running("main") /\ at["main"] = "readAttitude" /\ at' = at
        /\ left'["main"] = left["main"] \ {f} /\ left'["dcm"] = left["dcm"]
        /\ seen' = [seen EXCEPT ![f] = attitude[f]]
        /\ UNCHANGED <<attitude, latest>>
        /\ overlap' = (overlap /\ left["main"] # Fields)
    BY <1>9, <1>0, <1>1 DEF ReadField
  <2>2. at["dcm"] # "publish"
    BY <2>1, <1>0, <1>1, PublishingAlone
  <2>3. left["dcm"] = Fields /\ \A g \in Fields : attitude[g] = latest
    BY <2>2 DEF IInv, AttitudeInv
  <2>4. AttitudeInv'
    BY <2>1, <2>2, <2>3 DEF AttitudeInv
  <2>5. seen \in [Fields -> Versions]
    BY <1>1 DEF LockInv, TypeOK
  <2>6. ~overlap' => \A g \in Fields \ left'["main"] : seen'[g] = latest
    BY <2>1, <2>3, <2>5 DEF IInv, OverlapInv
  <2>7. OverlapInv'
    BY <2>1, <2>3, <2>6 DEF OverlapInv
  <2> QED BY <2>4, <2>7
<1>10. CASE ReadDone
  <2>1. /\ left["main"] = {} /\ left' = [left EXCEPT !["main"] = Fields]
        /\ UNCHANGED <<attitude, latest, seen, overlap>>
        /\ at'["dcm"] = at["dcm"]
    BY <1>10, <1>0, <1>1, AdvanceType, Constants DEF ReadDone, LockInv
  <2>2. left'["main"] = Fields /\ left'["dcm"] = left["dcm"]
    BY <2>1, <1>0, <1>1
  <2>3. AttitudeInv'
    BY <2>1, <2>2 DEF IInv, AttitudeInv, NextVersion
  <2>4. OverlapInv'
    BY <2>1, <2>2 DEF IInv, OverlapInv
  <2> QED BY <2>3, <2>4
<1>11. CASE Drain \/ UNCHANGED vars
  BY <1>2, <1>11 DEF Drain, vars
<1> QED BY <1>3, <1>4, <1>5, <1>6, <1>7, <1>8, <1>9, <1>10, <1>11
        DEF Next, Step, Estimate, Control

(* The inductive invariant of the three threads.                           *)
THEOREM Invariance == Spec => []IInv
<1>1. IInv /\ [Next]_vars => IInv'
  BY LockStep, AttitudeStep DEF IInv
<1> QED BY InitInv, <1>1, PTL DEF Spec
-----------------------------------------------------------------------------
(* Type correctness of the three threads: in particular chprintf never     *)
(* overfills the output queue.                                             *)
THEOREM TypeCorrect == Spec => []TypeOK
BY Invariance, PTL DEF IInv, LockInv

(* Mutual exclusion on the buses: whatever thread was handed the mutex of  *)
(* a bus, no other one is between i2cAcquireBus and i2cReleaseBus.         *)
THEOREM Exclusion == Spec => []BusIsExclusive
<1>1. IInv => BusIsExclusive
  <2> SUFFICES ASSUME IInv PROVE BusIsExclusive
    OBVIOUS
  <2>0. OwnerInv /\ owner \in [Buses -> Threads \cup {NoThread}]
    BY DEF IInv, LockInv, TypeOK
  <2>1. ASSUME NEW t \in Threads, NEW u \in Threads, InTransaction(t),
               InTransaction(u), BusOf(at[t]) = BusOf(at[u])
        PROVE  t = u
    <3>1. PICK b \in Buses : b = BusOf(at[t])
      BY BusOfType
    <3>2. owner[b] = t
      BY <2>0, <2>1, <3>1 DEF OwnerInv
    <3>3. owner[b] = u
      BY <2>0, <2>1, <3>1 DEF OwnerInv
    <3> QED BY <3>2, <3>3
  <2>2. ASSUME NEW b \in Buses, owner[b] # NoThread
        PROVE  InTransaction(owner[b]) /\ BusOf(at[owner[b]]) = b
    BY <2>0, <2>2 DEF OwnerInv
  <2> QED BY <2>1, <2>2 DEF BusIsExclusive
<1> QED BY Invariance, <1>1, PTL

(* No lost wakeup: a bus a thread waits for is owned by a thread that does *)
(* not wait for it.                                                        *)
THEOREM NoLostWakeup == Spec => []WaitersHaveAnOwner
<1>1. IInv => WaitersHaveAnOwner
  <2> SUFFICES ASSUME IInv, NEW b \in Buses, NEW w \in Waiters(b)
               PROVE  owner[b] \in Threads \ Waiters(b)
    BY DEF WaitersHaveAnOwner
  <2>1. owner[b] \in Threads
    BY DEF IInv, LockInv, WaitInv, Waiters
  <2>2. InTransaction(owner[b])
    BY <2>1 DEF IInv, LockInv, OwnerInv
  <2> QED BY <2>1, <2>2 DEF InTransaction, Waiters, InBus
<1> QED BY Invariance, <1>1, PTL

(* Priority inheritance is exact: it comes with the wait and goes with the *)
(* release.                                                                *)
THEOREM Inheritance == Spec => []PriorityIsInherited
BY Invariance, PTL DEF IInv, LockInv

(* A thread that has nothing to do with the bus the estimator waits for    *)
(* never delays its owner.                                                 *)
THEOREM NoInversion == Spec => []NoPriorityInversion
<1>1. IInv => NoPriorityInversion
  <2> SUFFICES ASSUME IInv, NEW b \in Buses, NEW t \in Threads,
                      "dcm" \in Waiters(b), Ready(owner[b]), Running(t)
               PROVE  t = owner[b]
    BY DEF NoPriorityInversion
  <2>1. owner[b] \in Threads /\ Boosted(owner[b])
    BY Constants DEF IInv, LockInv, WaitInv, Waiters, Boosted
  <2>2. prio[owner[b]] = HIGHPRIO
    BY <2>1 DEF IInv, LockInv, PriorityIsInherited
  <2>3. HIGHPRIO <= prio[t] /\ prio[t] \in {NORMALPRIO, HIGHPRIO}
    BY <2>1, <2>2 DEF Running, IInv, LockInv, TypeOK
  <2>4. prio[t] = HIGHPRIO
    BY <2>3, Constants
  <2>5. t # "dcm"
    BY DEF Running, Ready, Waiters, InBus
  <2>6. Boosted(t)
    BY <2>4, <2>5 DEF IInv, LockInv, PriorityIsInherited
  <2> QED BY <2>6 DEF Boosted, Waiters
<1> QED BY Invariance, <1>1, PTL

(* The shared attitude is never seen half written, with no lock on it.     *)
THEOREM OnePublication == Spec => []ReadersSeeOnePublication
<1>1. IInv => ReadersSeeOnePublication
  <2> SUFFICES ASSUME IInv, NEW t \in Threads \ {"dcm"}, Running(t)
               PROVE  \A f \in Fields : attitude[f] = latest
    BY DEF ReadersSeeOnePublication
  <2>1. at["dcm"] # "publish"
    BY PublishingAlone DEF IInv
  <2> QED BY <2>1 DEF IInv, AttitudeInv
<1> QED BY Invariance, <1>1, PTL

(* A control pass mixes publications only if one came while it was reading.*)
THEOREM Consistency == Spec => []ConsistentUnlessOverlapped
<1>1. IInv => ConsistentUnlessOverlapped
  BY DEF IInv, OverlapInv, ConsistentUnlessOverlapped
<1> QED BY Invariance, <1>1, PTL
=============================================================================
