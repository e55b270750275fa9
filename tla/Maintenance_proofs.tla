------------------------- MODULE Maintenance_proofs -------------------------
(***************************************************************************)
(* Maintenance for any number of requests, loops and sessions: LockInv is  *)
(* preserved by each action (one lemma per action, one step per part of    *)
(* LockInv), and the safety properties follow from it.                     *)
(***************************************************************************)
EXTENDS Maintenance, FiniteSetTheorems, TLAPS

-----------------------------------------------------------------------------
\* The requests that are counted, one more, and one less.
LEMMA CountedIsNat ==
  IsFiniteSet(Counted) /\ Cardinality(Counted) \in 0 .. Cardinality(Requests)
<1>1. Counted \subseteq Requests
  BY DEF Counted
<1>2. IsFiniteSet(Counted) /\ Cardinality(Counted) <= Cardinality(Requests)
  BY <1>1, FS_Subset, MaintenanceAssumption
<1>3. Cardinality(Counted) \in Nat /\ Cardinality(Requests) \in Nat
  BY <1>2, FS_CardinalityType, MaintenanceAssumption
<1>4. QED BY <1>2, <1>3

LEMMA CountedInRange ==
  ASSUME (inFlight = Cardinality(Counted))'
  PROVE  inFlight' \in 0 .. Cardinality(Requests)
<1>1. Counted' \subseteq Requests
  BY DEF Counted
<1>2. IsFiniteSet(Counted') /\ Cardinality(Counted') <= Cardinality(Requests)
  BY <1>1, FS_Subset, MaintenanceAssumption
<1>3. Cardinality(Counted') \in Nat /\ Cardinality(Requests) \in Nat
  BY <1>2, FS_CardinalityType, MaintenanceAssumption
<1>4. Cardinality(Counted)' = Cardinality(Counted')
  OBVIOUS
<1>5. QED BY <1>2, <1>3, <1>4

LEMMA CountedOneMore ==
  ASSUME NEW r \in Requests, request \in [Requests -> {"away", "passed", "inside", "backup"}],
         request[r] \notin {"inside", "backup"}, request' = [request EXCEPT ![r] = "inside"]
  PROVE  Cardinality(Counted)' = Cardinality(Counted) + 1
<1>1. Counted' = Counted \union {r}
  BY DEF Counted
<1>2. r \notin Counted
  BY DEF Counted
<1>3. Cardinality(Counted \union {r}) = Cardinality(Counted) + 1
  BY <1>2, CountedIsNat, FS_AddElement
<1>4. QED BY <1>1, <1>3

LEMMA CountedOneLess ==
  ASSUME NEW r \in Requests, request \in [Requests -> {"away", "passed", "inside", "backup"}],
         request[r] = "inside", request' = [request EXCEPT ![r] = "away"]
  PROVE  Cardinality(Counted)' = Cardinality(Counted) - 1
<1>1. Counted' = Counted \ {r}
  BY DEF Counted
<1>2. r \in Counted
  BY DEF Counted
<1>3. Cardinality(Counted \ {r}) = Cardinality(Counted) - 1
  BY <1>2, CountedIsNat, FS_RemoveElement
<1>4. QED BY <1>1, <1>3

-----------------------------------------------------------------------------
\* A request sees maintenance off.
LEMMA ArriveKeeps ==
  ASSUME LockInv, NEW r \in Requests, Arrive(r)
  PROVE  LockInv'
<1>1. (inFlight = Cardinality(Counted))'
  <2>1. Counted' = Counted
    BY DEF Counted, Arrive, Moves, LockInv, MaintenanceTypeOK
  <2>2. QED BY <2>1 DEF Arrive, LockInv
<1>2. MaintenanceTypeOK'
  BY <1>1, CountedInRange DEF Arrive, Moves, locks, LockInv, MaintenanceTypeOK, Actors
<1>3. RestoreLockOwned'
  BY DEF Arrive, Moves, locks, LockInv, MaintenanceTypeOK, RestoreLockOwned, Locking
<1>4. RunLockOwned'
  BY DEF Arrive, Moves, locks, LockInv, MaintenanceTypeOK, RunLockOwned, Alone
<1>5. GrantOwned'
  BY DEF Arrive, Moves, locks, LockInv, MaintenanceTypeOK, GrantOwned
<1>6. ScheduledOwned'
  BY DEF Arrive, Moves, locks, LockInv, MaintenanceTypeOK, ScheduledOwned, Holding
<1>7. LateOnes'
  BY DEF Arrive, Moves, locks, LockInv, MaintenanceTypeOK, LateOnes, Holding
<1>8. DrainedMeansNone'
  BY DEF Arrive, Moves, locks, LockInv, MaintenanceTypeOK, DrainedMeansNone
<1>9. (on <=> run \in {"drain", "work"})'
  BY DEF Arrive, Moves, locks, LockInv, MaintenanceTypeOK
<1>10. QED BY <1>1, <1>2, <1>3, <1>4, <1>5, <1>6, <1>7, <1>8, <1>9 DEF LockInv

\* It is counted a step later.
LEMMA CountKeeps ==
  ASSUME LockInv, NEW r \in Requests, Count(r)
  PROVE  LockInv'
<1>1. (inFlight = Cardinality(Counted))'
  <2>1. request[r] \notin {"inside", "backup"}
    BY DEF Count, Moves
  <2>2. QED BY <2>1, CountedOneMore DEF Count, Moves, LockInv, MaintenanceTypeOK
<1>2. MaintenanceTypeOK'
  BY <1>1, CountedInRange DEF Count, Moves, locks, LockInv, MaintenanceTypeOK, Actors
<1>3. RestoreLockOwned'
  BY DEF Count, Moves, locks, LockInv, MaintenanceTypeOK, RestoreLockOwned, Locking
<1>4. RunLockOwned'
  BY DEF Count, Moves, locks, LockInv, MaintenanceTypeOK, RunLockOwned, Alone
<1>5. GrantOwned'
  BY DEF Count, Moves, locks, LockInv, MaintenanceTypeOK, GrantOwned
<1>6. ScheduledOwned'
  BY DEF Count, Moves, locks, LockInv, MaintenanceTypeOK, ScheduledOwned, Holding
<1>7. LateOnes'
  BY MaintenanceAssumption
     DEF Count, Moves, locks, LockInv, MaintenanceTypeOK, LateOnes, RestoreLockOwned, RunLockOwned,
         ScheduledOwned, Locking, Alone, Holding
<1>8. DrainedMeansNone'
  BY DEF Count, Moves, locks, LockInv, MaintenanceTypeOK, DrainedMeansNone
<1>9. (on <=> run \in {"drain", "work"})'
  BY DEF Count, Moves, locks, LockInv, MaintenanceTypeOK
<1>10. QED BY <1>1, <1>2, <1>3, <1>4, <1>5, <1>6, <1>7, <1>8, <1>9 DEF LockInv

\* A request enters run_backup.
LEMMA BackUpKeeps ==
  ASSUME LockInv, NEW r \in Requests, BackUp(r)
  PROVE  LockInv'
<1>1. (inFlight = Cardinality(Counted))'
  <2>1. Counted' = Counted
    BY DEF Counted, BackUp, Moves, LockInv, MaintenanceTypeOK
  <2>2. QED BY <2>1 DEF BackUp, LockInv
<1>2. MaintenanceTypeOK'
  BY <1>1, CountedInRange DEF BackUp, Moves, locks, LockInv, MaintenanceTypeOK, Actors
<1>3. RestoreLockOwned'
  BY DEF BackUp, Moves, locks, LockInv, MaintenanceTypeOK, RestoreLockOwned, Locking
<1>4. RunLockOwned'
  BY MaintenanceAssumption
     DEF BackUp, Moves, locks, LockInv, MaintenanceTypeOK, RunLockOwned, RestoreLockOwned,
         ScheduledOwned, Locking, Alone, Holding
<1>5. GrantOwned'
  BY DEF BackUp, Moves, locks, LockInv, MaintenanceTypeOK, GrantOwned
<1>6. ScheduledOwned'
  BY DEF BackUp, Moves, locks, LockInv, MaintenanceTypeOK, ScheduledOwned, Holding
<1>7. LateOnes'
  BY DEF BackUp, Moves, locks, LockInv, MaintenanceTypeOK, LateOnes, Holding
<1>8. DrainedMeansNone'
  BY DEF BackUp, Moves, locks, LockInv, MaintenanceTypeOK, DrainedMeansNone
<1>9. (on <=> run \in {"drain", "work"})'
  BY DEF BackUp, Moves, locks, LockInv, MaintenanceTypeOK
<1>10. QED BY <1>1, <1>2, <1>3, <1>4, <1>5, <1>6, <1>7, <1>8, <1>9 DEF LockInv

\* It leaves run_backup.
LEMMA BackedUpKeeps ==
  ASSUME LockInv, NEW r \in Requests, BackedUp(r)
  PROVE  LockInv'
<1>1. (inFlight = Cardinality(Counted))'
  <2>1. Counted' = Counted
    BY DEF Counted, BackedUp, Moves, LockInv, MaintenanceTypeOK
  <2>2. QED BY <2>1 DEF BackedUp, LockInv
<1>2. MaintenanceTypeOK'
  BY <1>1, CountedInRange DEF BackedUp, Moves, locks, LockInv, MaintenanceTypeOK, Actors
<1>3. RestoreLockOwned'
  BY DEF BackedUp, Moves, locks, LockInv, MaintenanceTypeOK, RestoreLockOwned, Locking
<1>4. RunLockOwned'
  BY MaintenanceAssumption
     DEF BackedUp, Moves, locks, LockInv, MaintenanceTypeOK, RunLockOwned, RestoreLockOwned,
         ScheduledOwned, Locking, Alone, Holding
<1>5. GrantOwned'
  BY DEF BackedUp, Moves, locks, LockInv, MaintenanceTypeOK, GrantOwned
<1>6. ScheduledOwned'
  BY DEF BackedUp, Moves, locks, LockInv, MaintenanceTypeOK, ScheduledOwned, Holding
<1>7. LateOnes'
  BY DEF BackedUp, Moves, locks, LockInv, MaintenanceTypeOK, LateOnes, Holding
<1>8. DrainedMeansNone'
  BY DEF BackedUp, Moves, locks, LockInv, MaintenanceTypeOK, DrainedMeansNone
<1>9. (on <=> run \in {"drain", "work"})'
  BY DEF BackedUp, Moves, locks, LockInv, MaintenanceTypeOK
<1>10. QED BY <1>1, <1>2, <1>3, <1>4, <1>5, <1>6, <1>7, <1>8, <1>9 DEF LockInv

\* It leaves the lock behind.
LEMMA BackUpRaisesKeeps ==
  ASSUME LockInv, NEW r \in Requests, BackUpRaises(r)
  PROVE  LockInv'
<1>1. (inFlight = Cardinality(Counted))'
  BY DEF BackUpRaises, threads, Counted, LockInv
<1>2. MaintenanceTypeOK'
  BY <1>1, CountedInRange DEF BackUpRaises, locks, threads, LockInv, MaintenanceTypeOK, Actors
<1>3. RestoreLockOwned'
  BY DEF BackUpRaises, locks, threads, LockInv, MaintenanceTypeOK, RestoreLockOwned, Locking
<1>4. RunLockOwned'
  BY MaintenanceAssumption
     DEF BackUpRaises, locks, threads, LockInv, MaintenanceTypeOK, RunLockOwned, RestoreLockOwned,
         ScheduledOwned, Locking, Alone, Holding
<1>5. GrantOwned'
  BY DEF BackUpRaises, locks, threads, LockInv, MaintenanceTypeOK, GrantOwned
<1>6. ScheduledOwned'
  BY DEF BackUpRaises, locks, threads, LockInv, MaintenanceTypeOK, ScheduledOwned, Holding
<1>7. LateOnes'
  BY DEF BackUpRaises, locks, threads, LockInv, MaintenanceTypeOK, LateOnes, Holding
<1>8. DrainedMeansNone'
  BY DEF BackUpRaises, locks, threads, LockInv, MaintenanceTypeOK, DrainedMeansNone
<1>9. (on <=> run \in {"drain", "work"})'
  BY DEF BackUpRaises, locks, threads, LockInv, MaintenanceTypeOK
<1>10. QED BY <1>1, <1>2, <1>3, <1>4, <1>5, <1>6, <1>7, <1>8, <1>9 DEF LockInv

\* It is answered, and counted out.
LEMMA AnsweredKeeps ==
  ASSUME LockInv, NEW r \in Requests, Answered(r)
  PROVE  LockInv'
<1>1. (inFlight = Cardinality(Counted))'
  BY CountedOneLess DEF Answered, Moves, LockInv, MaintenanceTypeOK
<1>2. MaintenanceTypeOK'
  BY <1>1, CountedInRange DEF Answered, Moves, locks, LockInv, MaintenanceTypeOK, Actors
<1>3. RestoreLockOwned'
  BY DEF Answered, Moves, locks, LockInv, MaintenanceTypeOK, RestoreLockOwned, Locking
<1>4. RunLockOwned'
  BY DEF Answered, Moves, locks, LockInv, MaintenanceTypeOK, RunLockOwned, Alone
<1>5. GrantOwned'
  BY DEF Answered, Moves, locks, LockInv, MaintenanceTypeOK, GrantOwned
<1>6. ScheduledOwned'
  BY DEF Answered, Moves, locks, LockInv, MaintenanceTypeOK, ScheduledOwned, Holding
<1>7. LateOnes'
  BY DEF Answered, Moves, locks, LockInv, MaintenanceTypeOK, LateOnes, Holding
<1>8. DrainedMeansNone'
  BY DEF Answered, Moves, locks, LockInv, MaintenanceTypeOK, DrainedMeansNone
<1>9. (on <=> run \in {"drain", "work"})'
  BY DEF Answered, Moves, locks, LockInv, MaintenanceTypeOK
<1>10. QED BY <1>1, <1>2, <1>3, <1>4, <1>5, <1>6, <1>7, <1>8, <1>9 DEF LockInv


-----------------------------------------------------------------------------
\* A loop sees maintenance off.
LEMMA LookKeeps ==
  ASSUME LockInv, NEW t \in Ticks, Look(t)
  PROVE  LockInv'
<1>1. (inFlight = Cardinality(Counted))'
  BY DEF Look, Counted, LockInv
<1>2. MaintenanceTypeOK'
  BY <1>1, CountedInRange DEF Look, Moves, locks, LockInv, MaintenanceTypeOK, Actors
<1>3. RestoreLockOwned'
  BY DEF Look, Moves, locks, LockInv, MaintenanceTypeOK, RestoreLockOwned, Locking
<1>4. RunLockOwned'
  BY DEF Look, Moves, locks, LockInv, MaintenanceTypeOK, RunLockOwned, Alone
<1>5. GrantOwned'
  BY DEF Look, Moves, locks, LockInv, MaintenanceTypeOK, GrantOwned
<1>6. ScheduledOwned'
  BY DEF Look, Moves, locks, LockInv, MaintenanceTypeOK, ScheduledOwned, Holding
<1>7. LateOnes'
  BY DEF Look, Moves, locks, LockInv, MaintenanceTypeOK, LateOnes, Holding
<1>8. DrainedMeansNone'
  BY DEF Look, Moves, locks, LockInv, MaintenanceTypeOK, DrainedMeansNone
<1>9. (on <=> run \in {"drain", "work"})'
  BY DEF Look, Moves, locks, LockInv, MaintenanceTypeOK
<1>10. QED BY <1>1, <1>2, <1>3, <1>4, <1>5, <1>6, <1>7, <1>8, <1>9 DEF LockInv

\* It takes the scheduled lock.
LEMMA HoldKeeps ==
  ASSUME LockInv, NEW t \in Ticks, Hold(t)
  PROVE  LockInv'
<1>1. (inFlight = Cardinality(Counted))'
  BY DEF Hold, Counted, LockInv
<1>2. MaintenanceTypeOK'
  BY <1>1, CountedInRange DEF Hold, Moves, locks, LockInv, MaintenanceTypeOK, Actors
<1>3. RestoreLockOwned'
  BY DEF Hold, Moves, locks, LockInv, MaintenanceTypeOK, RestoreLockOwned, Locking
<1>4. RunLockOwned'
  BY DEF Hold, Moves, locks, LockInv, MaintenanceTypeOK, RunLockOwned, Alone
<1>5. GrantOwned'
  BY DEF Hold, Moves, locks, LockInv, MaintenanceTypeOK, GrantOwned
<1>6. ScheduledOwned'
  BY MaintenanceAssumption
     DEF Hold, Moves, locks, LockInv, MaintenanceTypeOK, ScheduledOwned, RestoreLockOwned,
         RunLockOwned, Locking, Alone, Holding
<1>7. LateOnes'
  BY DEF Hold, Moves, locks, LockInv, MaintenanceTypeOK, LateOnes, RestoreLockOwned, Holding, Locking
<1>8. DrainedMeansNone'
  BY DEF Hold, Moves, locks, LockInv, MaintenanceTypeOK, DrainedMeansNone
<1>9. (on <=> run \in {"drain", "work"})'
  BY DEF Hold, Moves, locks, LockInv, MaintenanceTypeOK
<1>10. QED BY <1>1, <1>2, <1>3, <1>4, <1>5, <1>6, <1>7, <1>8, <1>9 DEF LockInv

\* It finds the lock taken.
LEMMA TakenKeeps ==
  ASSUME LockInv, NEW t \in Ticks, Taken(t)
  PROVE  LockInv'
<1>1. (inFlight = Cardinality(Counted))'
  BY DEF Taken, Counted, LockInv
<1>2. MaintenanceTypeOK'
  BY <1>1, CountedInRange DEF Taken, Moves, locks, LockInv, MaintenanceTypeOK, Actors
<1>3. RestoreLockOwned'
  BY DEF Taken, Moves, locks, LockInv, MaintenanceTypeOK, RestoreLockOwned, Locking
<1>4. RunLockOwned'
  BY DEF Taken, Moves, locks, LockInv, MaintenanceTypeOK, RunLockOwned, Alone
<1>5. GrantOwned'
  BY DEF Taken, Moves, locks, LockInv, MaintenanceTypeOK, GrantOwned
<1>6. ScheduledOwned'
  BY DEF Taken, Moves, locks, LockInv, MaintenanceTypeOK, ScheduledOwned, Holding
<1>7. LateOnes'
  BY DEF Taken, Moves, locks, LockInv, MaintenanceTypeOK, LateOnes, Holding
<1>8. DrainedMeansNone'
  BY DEF Taken, Moves, locks, LockInv, MaintenanceTypeOK, DrainedMeansNone
<1>9. (on <=> run \in {"drain", "work"})'
  BY DEF Taken, Moves, locks, LockInv, MaintenanceTypeOK
<1>10. QED BY <1>1, <1>2, <1>3, <1>4, <1>5, <1>6, <1>7, <1>8, <1>9 DEF LockInv

\* Its second look lets it work.
LEMMA WorkKeeps ==
  ASSUME LockInv, NEW t \in Ticks, Work(t)
  PROVE  LockInv'
<1>1. (inFlight = Cardinality(Counted))'
  BY DEF Work, Counted, LockInv
<1>2. MaintenanceTypeOK'
  BY <1>1, CountedInRange DEF Work, Moves, locks, LockInv, MaintenanceTypeOK, Actors
<1>3. RestoreLockOwned'
  BY DEF Work, Moves, locks, LockInv, MaintenanceTypeOK, RestoreLockOwned, Locking
<1>4. RunLockOwned'
  BY DEF Work, Moves, locks, LockInv, MaintenanceTypeOK, RunLockOwned, Alone
<1>5. GrantOwned'
  BY DEF Work, Moves, locks, LockInv, MaintenanceTypeOK, GrantOwned
<1>6. ScheduledOwned'
  BY DEF Work, Moves, locks, LockInv, MaintenanceTypeOK, ScheduledOwned, Holding
<1>7. LateOnes'
  BY DEF Work, Moves, locks, LockInv, MaintenanceTypeOK, LateOnes, Holding
<1>8. DrainedMeansNone'
  BY DEF Work, Moves, locks, LockInv, MaintenanceTypeOK, DrainedMeansNone
<1>9. (on <=> run \in {"drain", "work"})'
  BY DEF Work, Moves, locks, LockInv, MaintenanceTypeOK
<1>10. QED BY <1>1, <1>2, <1>3, <1>4, <1>5, <1>6, <1>7, <1>8, <1>9 DEF LockInv

\* Its second look sends it away.
LEMMA SitOutKeeps ==
  ASSUME LockInv, NEW t \in Ticks, SitOut(t)
  PROVE  LockInv'
<1>1. (inFlight = Cardinality(Counted))'
  BY DEF SitOut, Counted, LockInv
<1>2. MaintenanceTypeOK'
  BY <1>1, CountedInRange DEF SitOut, Moves, locks, LockInv, MaintenanceTypeOK, Actors
<1>3. RestoreLockOwned'
  BY DEF SitOut, Moves, locks, LockInv, MaintenanceTypeOK, RestoreLockOwned, Locking
<1>4. RunLockOwned'
  BY DEF SitOut, Moves, locks, LockInv, MaintenanceTypeOK, RunLockOwned, Alone
<1>5. GrantOwned'
  BY DEF SitOut, Moves, locks, LockInv, MaintenanceTypeOK, GrantOwned
<1>6. ScheduledOwned'
  BY MaintenanceAssumption
     DEF SitOut, Moves, locks, LockInv, MaintenanceTypeOK, ScheduledOwned, RestoreLockOwned,
         RunLockOwned, Locking, Alone, Holding
<1>7. LateOnes'
  BY DEF SitOut, Moves, locks, LockInv, MaintenanceTypeOK, LateOnes, Holding
<1>8. DrainedMeansNone'
  BY MaintenanceAssumption
     DEF SitOut, Moves, locks, LockInv, MaintenanceTypeOK, DrainedMeansNone, RestoreLockOwned,
         RunLockOwned, ScheduledOwned, Locking, Alone, Holding
<1>9. (on <=> run \in {"drain", "work"})'
  BY DEF SitOut, Moves, locks, LockInv, MaintenanceTypeOK
<1>10. QED BY <1>1, <1>2, <1>3, <1>4, <1>5, <1>6, <1>7, <1>8, <1>9 DEF LockInv

\* A loop enters run_backup.
LEMMA TickBackUpKeeps ==
  ASSUME LockInv, NEW t \in Ticks, TickBackUp(t)
  PROVE  LockInv'
<1>1. (inFlight = Cardinality(Counted))'
  BY DEF TickBackUp, Counted, LockInv
<1>2. MaintenanceTypeOK'
  BY <1>1, CountedInRange DEF TickBackUp, Moves, locks, LockInv, MaintenanceTypeOK, Actors
<1>3. RestoreLockOwned'
  BY DEF TickBackUp, Moves, locks, LockInv, MaintenanceTypeOK, RestoreLockOwned, Locking
<1>4. RunLockOwned'
  BY MaintenanceAssumption
     DEF TickBackUp, Moves, locks, LockInv, MaintenanceTypeOK, RunLockOwned, RestoreLockOwned,
         ScheduledOwned, Locking, Alone, Holding
<1>5. GrantOwned'
  BY DEF TickBackUp, Moves, locks, LockInv, MaintenanceTypeOK, GrantOwned
<1>6. ScheduledOwned'
  BY DEF TickBackUp, Moves, locks, LockInv, MaintenanceTypeOK, ScheduledOwned, Holding
<1>7. LateOnes'
  BY DEF TickBackUp, Moves, locks, LockInv, MaintenanceTypeOK, LateOnes, Holding
<1>8. DrainedMeansNone'
  BY DEF TickBackUp, Moves, locks, LockInv, MaintenanceTypeOK, DrainedMeansNone
<1>9. (on <=> run \in {"drain", "work"})'
  BY DEF TickBackUp, Moves, locks, LockInv, MaintenanceTypeOK
<1>10. QED BY <1>1, <1>2, <1>3, <1>4, <1>5, <1>6, <1>7, <1>8, <1>9 DEF LockInv

\* It leaves run_backup.
LEMMA TickBackedUpKeeps ==
  ASSUME LockInv, NEW t \in Ticks, TickBackedUp(t)
  PROVE  LockInv'
<1>1. (inFlight = Cardinality(Counted))'
  BY DEF TickBackedUp, Counted, LockInv
<1>2. MaintenanceTypeOK'
  BY <1>1, CountedInRange DEF TickBackedUp, Moves, locks, LockInv, MaintenanceTypeOK, Actors
<1>3. RestoreLockOwned'
  BY DEF TickBackedUp, Moves, locks, LockInv, MaintenanceTypeOK, RestoreLockOwned, Locking
<1>4. RunLockOwned'
  BY MaintenanceAssumption
     DEF TickBackedUp, Moves, locks, LockInv, MaintenanceTypeOK, RunLockOwned, RestoreLockOwned,
         ScheduledOwned, Locking, Alone, Holding
<1>5. GrantOwned'
  BY DEF TickBackedUp, Moves, locks, LockInv, MaintenanceTypeOK, GrantOwned
<1>6. ScheduledOwned'
  BY DEF TickBackedUp, Moves, locks, LockInv, MaintenanceTypeOK, ScheduledOwned, Holding
<1>7. LateOnes'
  BY DEF TickBackedUp, Moves, locks, LockInv, MaintenanceTypeOK, LateOnes, Holding
<1>8. DrainedMeansNone'
  BY DEF TickBackedUp, Moves, locks, LockInv, MaintenanceTypeOK, DrainedMeansNone
<1>9. (on <=> run \in {"drain", "work"})'
  BY DEF TickBackedUp, Moves, locks, LockInv, MaintenanceTypeOK
<1>10. QED BY <1>1, <1>2, <1>3, <1>4, <1>5, <1>6, <1>7, <1>8, <1>9 DEF LockInv

\* It leaves the lock behind.
LEMMA TickBackUpRaisesKeeps ==
  ASSUME LockInv, NEW t \in Ticks, TickBackUpRaises(t)
  PROVE  LockInv'
<1>1. (inFlight = Cardinality(Counted))'
  BY DEF TickBackUpRaises, threads, Counted, LockInv
<1>2. MaintenanceTypeOK'
  BY <1>1, CountedInRange DEF TickBackUpRaises, locks, threads, LockInv, MaintenanceTypeOK, Actors
<1>3. RestoreLockOwned'
  BY DEF TickBackUpRaises, locks, threads, LockInv, MaintenanceTypeOK, RestoreLockOwned, Locking
<1>4. RunLockOwned'
  BY MaintenanceAssumption
     DEF TickBackUpRaises, locks, threads, LockInv, MaintenanceTypeOK, RunLockOwned,
         RestoreLockOwned, ScheduledOwned, Locking, Alone, Holding
<1>5. GrantOwned'
  BY DEF TickBackUpRaises, locks, threads, LockInv, MaintenanceTypeOK, GrantOwned
<1>6. ScheduledOwned'
  BY DEF TickBackUpRaises, locks, threads, LockInv, MaintenanceTypeOK, ScheduledOwned, Holding
<1>7. LateOnes'
  BY DEF TickBackUpRaises, locks, threads, LockInv, MaintenanceTypeOK, LateOnes, Holding
<1>8. DrainedMeansNone'
  BY DEF TickBackUpRaises, locks, threads, LockInv, MaintenanceTypeOK, DrainedMeansNone
<1>9. (on <=> run \in {"drain", "work"})'
  BY DEF TickBackUpRaises, locks, threads, LockInv, MaintenanceTypeOK
<1>10. QED BY <1>1, <1>2, <1>3, <1>4, <1>5, <1>6, <1>7, <1>8, <1>9 DEF LockInv

\* It gives the scheduled lock back.
LEMMA TickDoneKeeps ==
  ASSUME LockInv, NEW t \in Ticks, TickDone(t)
  PROVE  LockInv'
<1>1. (inFlight = Cardinality(Counted))'
  BY DEF TickDone, Counted, LockInv
<1>2. MaintenanceTypeOK'
  BY <1>1, CountedInRange DEF TickDone, Moves, locks, LockInv, MaintenanceTypeOK, Actors
<1>3. RestoreLockOwned'
  BY DEF TickDone, Moves, locks, LockInv, MaintenanceTypeOK, RestoreLockOwned, Locking
<1>4. RunLockOwned'
  BY DEF TickDone, Moves, locks, LockInv, MaintenanceTypeOK, RunLockOwned, Alone
<1>5. GrantOwned'
  BY DEF TickDone, Moves, locks, LockInv, MaintenanceTypeOK, GrantOwned
<1>6. ScheduledOwned'
  BY MaintenanceAssumption
     DEF TickDone, Moves, locks, LockInv, MaintenanceTypeOK, ScheduledOwned, RestoreLockOwned,
         RunLockOwned, Locking, Alone, Holding
<1>7. LateOnes'
  BY DEF TickDone, Moves, locks, LockInv, MaintenanceTypeOK, LateOnes, Holding
<1>8. DrainedMeansNone'
  BY MaintenanceAssumption
     DEF TickDone, Moves, locks, LockInv, MaintenanceTypeOK, DrainedMeansNone, RestoreLockOwned,
         RunLockOwned, ScheduledOwned, Locking, Alone, Holding
<1>9. (on <=> run \in {"drain", "work"})'
  BY DEF TickDone, Moves, locks, LockInv, MaintenanceTypeOK
<1>10. QED BY <1>1, <1>2, <1>3, <1>4, <1>5, <1>6, <1>7, <1>8, <1>9 DEF LockInv


-----------------------------------------------------------------------------
\* A session asks for a restore.
LEMMA AskKeeps ==
  ASSUME LockInv, NEW s \in Sessions, Ask(s)
  PROVE  LockInv'
<1>1. (inFlight = Cardinality(Counted))'
  BY DEF Ask, Counted, LockInv
<1>2. MaintenanceTypeOK'
  BY <1>1, CountedInRange DEF Ask, Moves, locks, LockInv, MaintenanceTypeOK, Actors
<1>3. RestoreLockOwned'
  BY DEF Ask, Moves, locks, LockInv, MaintenanceTypeOK, RestoreLockOwned, Locking
<1>4. RunLockOwned'
  BY DEF Ask, Moves, locks, LockInv, MaintenanceTypeOK, RunLockOwned, Alone
<1>5. GrantOwned'
  BY DEF Ask, Moves, locks, LockInv, MaintenanceTypeOK, GrantOwned
<1>6. ScheduledOwned'
  BY DEF Ask, Moves, locks, LockInv, MaintenanceTypeOK, ScheduledOwned, Holding
<1>7. LateOnes'
  BY DEF Ask, Moves, locks, LockInv, MaintenanceTypeOK, LateOnes, Holding
<1>8. DrainedMeansNone'
  BY DEF Ask, Moves, locks, LockInv, MaintenanceTypeOK, DrainedMeansNone
<1>9. (on <=> run \in {"drain", "work"})'
  BY DEF Ask, Moves, locks, LockInv, MaintenanceTypeOK
<1>10. QED BY <1>1, <1>2, <1>3, <1>4, <1>5, <1>6, <1>7, <1>8, <1>9 DEF LockInv

\* start takes _lock.
LEMMA LockRestoreKeeps ==
  ASSUME LockInv, NEW s \in Sessions, LockRestore(s)
  PROVE  LockInv'
<1>1. (inFlight = Cardinality(Counted))'
  BY DEF LockRestore, Counted, LockInv
<1>2. MaintenanceTypeOK'
  BY <1>1, CountedInRange DEF LockRestore, Moves, locks, LockInv, MaintenanceTypeOK, Actors
<1>3. RestoreLockOwned'
  BY MaintenanceAssumption
     DEF LockRestore, Moves, locks, LockInv, MaintenanceTypeOK, RestoreLockOwned, RunLockOwned,
         ScheduledOwned, Locking, Alone, Holding
<1>4. RunLockOwned'
  BY DEF LockRestore, Moves, locks, LockInv, MaintenanceTypeOK, RunLockOwned, RestoreLockOwned,
         Alone, Locking
<1>5. GrantOwned'
  BY DEF LockRestore, Moves, locks, LockInv, MaintenanceTypeOK, GrantOwned, RestoreLockOwned, Locking
<1>6. ScheduledOwned'
  BY DEF LockRestore, Moves, locks, LockInv, MaintenanceTypeOK, ScheduledOwned, Holding
<1>7. LateOnes'
  BY DEF LockRestore, Moves, locks, LockInv, MaintenanceTypeOK, LateOnes, Holding
<1>8. DrainedMeansNone'
  BY DEF LockRestore, Moves, locks, LockInv, MaintenanceTypeOK, DrainedMeansNone
<1>9. (on <=> run \in {"drain", "work"})'
  BY DEF LockRestore, Moves, locks, LockInv, MaintenanceTypeOK
<1>10. QED BY <1>1, <1>2, <1>3, <1>4, <1>5, <1>6, <1>7, <1>8, <1>9 DEF LockInv

\* inspect takes _lock.
LEMMA InspectKeeps ==
  ASSUME LockInv, NEW s \in Sessions, Inspect(s)
  PROVE  LockInv'
<1>1. (inFlight = Cardinality(Counted))'
  BY DEF Inspect, Counted, LockInv
<1>2. MaintenanceTypeOK'
  BY <1>1, CountedInRange DEF Inspect, Moves, locks, LockInv, MaintenanceTypeOK, Actors
<1>3. RestoreLockOwned'
  BY MaintenanceAssumption
     DEF Inspect, Moves, locks, LockInv, MaintenanceTypeOK, RestoreLockOwned, RunLockOwned,
         ScheduledOwned, Locking, Alone, Holding
<1>4. RunLockOwned'
  BY DEF Inspect, Moves, locks, LockInv, MaintenanceTypeOK, RunLockOwned, RestoreLockOwned, Alone,
         Locking
<1>5. GrantOwned'
  BY DEF Inspect, Moves, locks, LockInv, MaintenanceTypeOK, GrantOwned, RestoreLockOwned, Locking
<1>6. ScheduledOwned'
  BY DEF Inspect, Moves, locks, LockInv, MaintenanceTypeOK, ScheduledOwned, Holding
<1>7. LateOnes'
  BY DEF Inspect, Moves, locks, LockInv, MaintenanceTypeOK, LateOnes, Holding
<1>8. DrainedMeansNone'
  BY DEF Inspect, Moves, locks, LockInv, MaintenanceTypeOK, DrainedMeansNone
<1>9. (on <=> run \in {"drain", "work"})'
  BY DEF Inspect, Moves, locks, LockInv, MaintenanceTypeOK
<1>10. QED BY <1>1, <1>2, <1>3, <1>4, <1>5, <1>6, <1>7, <1>8, <1>9 DEF LockInv

\* inspect gives it back.
LEMMA InspectedKeeps ==
  ASSUME LockInv, NEW s \in Sessions, Inspected(s)
  PROVE  LockInv'
<1>1. (inFlight = Cardinality(Counted))'
  BY DEF Inspected, Counted, LockInv
<1>2. MaintenanceTypeOK'
  BY <1>1, CountedInRange DEF Inspected, Moves, locks, LockInv, MaintenanceTypeOK, Actors
<1>3. RestoreLockOwned'
  BY DEF Inspected, Moves, locks, LockInv, MaintenanceTypeOK, RestoreLockOwned, Locking
<1>4. RunLockOwned'
  BY DEF Inspected, Moves, locks, LockInv, MaintenanceTypeOK, RunLockOwned, RestoreLockOwned,
         Alone, Locking
<1>5. GrantOwned'
  BY DEF Inspected, Moves, locks, LockInv, MaintenanceTypeOK, GrantOwned, RestoreLockOwned, Locking
<1>6. ScheduledOwned'
  BY DEF Inspected, Moves, locks, LockInv, MaintenanceTypeOK, ScheduledOwned, Holding
<1>7. LateOnes'
  BY DEF Inspected, Moves, locks, LockInv, MaintenanceTypeOK, LateOnes, Holding
<1>8. DrainedMeansNone'
  BY DEF Inspected, Moves, locks, LockInv, MaintenanceTypeOK, DrainedMeansNone
<1>9. (on <=> run \in {"drain", "work"})'
  BY DEF Inspected, Moves, locks, LockInv, MaintenanceTypeOK
<1>10. QED BY <1>1, <1>2, <1>3, <1>4, <1>5, <1>6, <1>7, <1>8, <1>9 DEF LockInv

\* _lock is taken: refused.
LEMMA AlreadyRunningKeeps ==
  ASSUME LockInv, NEW s \in Sessions, AlreadyRunning(s)
  PROVE  LockInv'
<1>1. (inFlight = Cardinality(Counted))'
  BY DEF AlreadyRunning, Counted, LockInv
<1>2. MaintenanceTypeOK'
  BY <1>1, CountedInRange DEF AlreadyRunning, Moves, locks, LockInv, MaintenanceTypeOK, Actors
<1>3. RestoreLockOwned'
  BY DEF AlreadyRunning, Moves, locks, LockInv, MaintenanceTypeOK, RestoreLockOwned, Locking
<1>4. RunLockOwned'
  BY DEF AlreadyRunning, Moves, locks, LockInv, MaintenanceTypeOK, RunLockOwned, Alone
<1>5. GrantOwned'
  BY DEF AlreadyRunning, Moves, locks, LockInv, MaintenanceTypeOK, GrantOwned
<1>6. ScheduledOwned'
  BY DEF AlreadyRunning, Moves, locks, LockInv, MaintenanceTypeOK, ScheduledOwned, Holding
<1>7. LateOnes'
  BY DEF AlreadyRunning, Moves, locks, LockInv, MaintenanceTypeOK, LateOnes, Holding
<1>8. DrainedMeansNone'
  BY DEF AlreadyRunning, Moves, locks, LockInv, MaintenanceTypeOK, DrainedMeansNone
<1>9. (on <=> run \in {"drain", "work"})'
  BY DEF AlreadyRunning, Moves, locks, LockInv, MaintenanceTypeOK
<1>10. QED BY <1>1, <1>2, <1>3, <1>4, <1>5, <1>6, <1>7, <1>8, <1>9 DEF LockInv

\* start takes _run_lock.
LEMMA LockBackupsKeeps ==
  ASSUME LockInv, NEW s \in Sessions, LockBackups(s)
  PROVE  LockInv'
<1>1. (inFlight = Cardinality(Counted))'
  BY DEF LockBackups, Counted, LockInv
<1>2. MaintenanceTypeOK'
  BY <1>1, CountedInRange DEF LockBackups, Moves, locks, LockInv, MaintenanceTypeOK, Actors
<1>3. RestoreLockOwned'
  BY DEF LockBackups, Moves, locks, LockInv, MaintenanceTypeOK, RestoreLockOwned, Locking
<1>4. RunLockOwned'
  BY MaintenanceAssumption
     DEF LockBackups, Moves, locks, LockInv, MaintenanceTypeOK, RunLockOwned, RestoreLockOwned,
         ScheduledOwned, Locking, Alone, Holding
<1>5. GrantOwned'
  BY DEF LockBackups, Moves, locks, LockInv, MaintenanceTypeOK, GrantOwned
<1>6. ScheduledOwned'
  BY DEF LockBackups, Moves, locks, LockInv, MaintenanceTypeOK, ScheduledOwned, Holding
<1>7. LateOnes'
  BY DEF LockBackups, Moves, locks, LockInv, MaintenanceTypeOK, LateOnes, Holding
<1>8. DrainedMeansNone'
  BY DEF LockBackups, Moves, locks, LockInv, MaintenanceTypeOK, DrainedMeansNone
<1>9. (on <=> run \in {"drain", "work"})'
  BY DEF LockBackups, Moves, locks, LockInv, MaintenanceTypeOK
<1>10. QED BY <1>1, <1>2, <1>3, <1>4, <1>5, <1>6, <1>7, <1>8, <1>9 DEF LockInv

\* A backup runs: _lock is given back.
LEMMA BackupRunningKeeps ==
  ASSUME LockInv, NEW s \in Sessions, BackupRunning(s)
  PROVE  LockInv'
<1>1. (inFlight = Cardinality(Counted))'
  BY DEF BackupRunning, Counted, LockInv
<1>2. MaintenanceTypeOK'
  BY <1>1, CountedInRange DEF BackupRunning, Moves, locks, LockInv, MaintenanceTypeOK, Actors
<1>3. RestoreLockOwned'
  BY DEF BackupRunning, Moves, locks, LockInv, MaintenanceTypeOK, RestoreLockOwned, Locking
<1>4. RunLockOwned'
  BY DEF BackupRunning, Moves, locks, LockInv, MaintenanceTypeOK, RunLockOwned, RestoreLockOwned,
         Alone, Locking
<1>5. GrantOwned'
  BY DEF BackupRunning, Moves, locks, LockInv, MaintenanceTypeOK, GrantOwned, RestoreLockOwned, Locking
<1>6. ScheduledOwned'
  BY DEF BackupRunning, Moves, locks, LockInv, MaintenanceTypeOK, ScheduledOwned, Holding
<1>7. LateOnes'
  BY DEF BackupRunning, Moves, locks, LockInv, MaintenanceTypeOK, LateOnes, Holding
<1>8. DrainedMeansNone'
  BY DEF BackupRunning, Moves, locks, LockInv, MaintenanceTypeOK, DrainedMeansNone
<1>9. (on <=> run \in {"drain", "work"})'
  BY DEF BackupRunning, Moves, locks, LockInv, MaintenanceTypeOK
<1>10. QED BY <1>1, <1>2, <1>3, <1>4, <1>5, <1>6, <1>7, <1>8, <1>9 DEF LockInv

\* No loop is at work.
LEMMA NothingScheduledKeeps ==
  ASSUME LockInv, NEW s \in Sessions, NothingScheduled(s)
  PROVE  LockInv'
<1>1. (inFlight = Cardinality(Counted))'
  BY DEF NothingScheduled, Counted, LockInv
<1>2. MaintenanceTypeOK'
  BY <1>1, CountedInRange DEF NothingScheduled, Moves, locks, LockInv, MaintenanceTypeOK, Actors
<1>3. RestoreLockOwned'
  BY DEF NothingScheduled, Moves, locks, LockInv, MaintenanceTypeOK, RestoreLockOwned, Locking
<1>4. RunLockOwned'
  BY DEF NothingScheduled, Moves, locks, LockInv, MaintenanceTypeOK, RunLockOwned, Alone
<1>5. GrantOwned'
  BY DEF NothingScheduled, Moves, locks, LockInv, MaintenanceTypeOK, GrantOwned
<1>6. ScheduledOwned'
  BY DEF NothingScheduled, Moves, locks, LockInv, MaintenanceTypeOK, ScheduledOwned, Holding
<1>7. LateOnes'
  BY MaintenanceAssumption
     DEF NothingScheduled, Moves, locks, LockInv, MaintenanceTypeOK, LateOnes, RestoreLockOwned,
         RunLockOwned, ScheduledOwned, Locking, Alone, Holding
<1>8. DrainedMeansNone'
  BY DEF NothingScheduled, Moves, locks, LockInv, MaintenanceTypeOK, DrainedMeansNone
<1>9. (on <=> run \in {"drain", "work"})'
  BY DEF NothingScheduled, Moves, locks, LockInv, MaintenanceTypeOK
<1>10. QED BY <1>1, <1>2, <1>3, <1>4, <1>5, <1>6, <1>7, <1>8, <1>9 DEF LockInv

\* A loop is at work: both locks are given back.
LEMMA ScheduledBusyKeeps ==
  ASSUME LockInv, NEW s \in Sessions, ScheduledBusy(s)
  PROVE  LockInv'
<1>1. (inFlight = Cardinality(Counted))'
  BY DEF ScheduledBusy, Counted, LockInv
<1>2. MaintenanceTypeOK'
  BY <1>1, CountedInRange DEF ScheduledBusy, Moves, locks, LockInv, MaintenanceTypeOK, Actors
<1>3. RestoreLockOwned'
  BY DEF ScheduledBusy, Moves, locks, LockInv, MaintenanceTypeOK, RestoreLockOwned, Locking
<1>4. RunLockOwned'
  BY MaintenanceAssumption
     DEF ScheduledBusy, Moves, locks, LockInv, MaintenanceTypeOK, RunLockOwned, RestoreLockOwned,
         ScheduledOwned, Locking, Alone, Holding
<1>5. GrantOwned'
  BY DEF ScheduledBusy, Moves, locks, LockInv, MaintenanceTypeOK, GrantOwned, RestoreLockOwned, Locking
<1>6. ScheduledOwned'
  BY DEF ScheduledBusy, Moves, locks, LockInv, MaintenanceTypeOK, ScheduledOwned, Holding
<1>7. LateOnes'
  BY DEF ScheduledBusy, Moves, locks, LockInv, MaintenanceTypeOK, LateOnes, Holding
<1>8. DrainedMeansNone'
  BY DEF ScheduledBusy, Moves, locks, LockInv, MaintenanceTypeOK, DrainedMeansNone
<1>9. (on <=> run \in {"drain", "work"})'
  BY DEF ScheduledBusy, Moves, locks, LockInv, MaintenanceTypeOK
<1>10. QED BY <1>1, <1>2, <1>3, <1>4, <1>5, <1>6, <1>7, <1>8, <1>9 DEF LockInv

\* The grant is issued.
LEMMA IssueKeeps ==
  ASSUME LockInv, NEW s \in Sessions, Issue(s)
  PROVE  LockInv'
<1>1. (inFlight = Cardinality(Counted))'
  BY DEF Issue, Counted, LockInv
<1>2. MaintenanceTypeOK'
  BY <1>1, CountedInRange DEF Issue, Moves, locks, LockInv, MaintenanceTypeOK, Actors
<1>3. RestoreLockOwned'
  BY DEF Issue, Moves, locks, LockInv, MaintenanceTypeOK, RestoreLockOwned, Locking
<1>4. RunLockOwned'
  BY DEF Issue, Moves, locks, LockInv, MaintenanceTypeOK, RunLockOwned, Alone
<1>5. GrantOwned'
  BY DEF Issue, Moves, locks, LockInv, MaintenanceTypeOK, GrantOwned, RestoreLockOwned, Locking
<1>6. ScheduledOwned'
  BY DEF Issue, Moves, locks, LockInv, MaintenanceTypeOK, ScheduledOwned, Holding
<1>7. LateOnes'
  BY DEF Issue, Moves, locks, LockInv, MaintenanceTypeOK, LateOnes, Holding
<1>8. DrainedMeansNone'
  BY DEF Issue, Moves, locks, LockInv, MaintenanceTypeOK, DrainedMeansNone
<1>9. (on <=> run \in {"drain", "work"})'
  BY DEF Issue, Moves, locks, LockInv, MaintenanceTypeOK
<1>10. QED BY <1>1, <1>2, <1>3, <1>4, <1>5, <1>6, <1>7, <1>8, <1>9 DEF LockInv

\* The restore thread starts.
LEMMA SpawnKeeps ==
  ASSUME LockInv, NEW s \in Sessions, Spawn(s)
  PROVE  LockInv'
<1>1. (inFlight = Cardinality(Counted))'
  BY DEF Spawn, Counted, LockInv
<1>2. MaintenanceTypeOK'
  BY <1>1, CountedInRange DEF Spawn, Moves, locks, LockInv, MaintenanceTypeOK, Actors
<1>3. RestoreLockOwned'
  BY MaintenanceAssumption
     DEF Spawn, Moves, locks, LockInv, MaintenanceTypeOK, RestoreLockOwned, RunLockOwned,
         ScheduledOwned, Locking, Alone, Holding
<1>4. RunLockOwned'
  BY DEF Spawn, Moves, locks, LockInv, MaintenanceTypeOK, RunLockOwned, RestoreLockOwned, Alone, Locking
<1>5. GrantOwned'
  BY DEF Spawn, Moves, locks, LockInv, MaintenanceTypeOK, GrantOwned, RestoreLockOwned, Locking
<1>6. ScheduledOwned'
  BY DEF Spawn, Moves, locks, LockInv, MaintenanceTypeOK, ScheduledOwned, Holding
<1>7. LateOnes'
  BY DEF Spawn, Moves, locks, LockInv, MaintenanceTypeOK, LateOnes, Holding
<1>8. DrainedMeansNone'
  BY DEF Spawn, Moves, locks, LockInv, MaintenanceTypeOK, DrainedMeansNone
<1>9. (on <=> run \in {"drain", "work"})'
  BY DEF Spawn, Moves, locks, LockInv, MaintenanceTypeOK, RestoreLockOwned, Locking
<1>10. QED BY <1>1, <1>2, <1>3, <1>4, <1>5, <1>6, <1>7, <1>8, <1>9 DEF LockInv

\* It does not start.
LEMMA SpawnFailsKeeps ==
  ASSUME LockInv, NEW s \in Sessions, SpawnFails(s)
  PROVE  LockInv'
<1>1. (inFlight = Cardinality(Counted))'
  BY DEF SpawnFails, Counted, LockInv
<1>2. MaintenanceTypeOK'
  BY <1>1, CountedInRange DEF SpawnFails, Moves, locks, LockInv, MaintenanceTypeOK, Actors
<1>3. RestoreLockOwned'
  BY DEF SpawnFails, Moves, locks, LockInv, MaintenanceTypeOK, RestoreLockOwned, Locking
<1>4. RunLockOwned'
  BY DEF SpawnFails, Moves, locks, LockInv, MaintenanceTypeOK, RunLockOwned, Alone
<1>5. GrantOwned'
  BY DEF SpawnFails, Moves, locks, LockInv, MaintenanceTypeOK, GrantOwned, RestoreLockOwned, Locking
<1>6. ScheduledOwned'
  BY DEF SpawnFails, Moves, locks, LockInv, MaintenanceTypeOK, ScheduledOwned, Holding
<1>7. LateOnes'
  BY DEF SpawnFails, Moves, locks, LockInv, MaintenanceTypeOK, LateOnes, Holding
<1>8. DrainedMeansNone'
  BY DEF SpawnFails, Moves, locks, LockInv, MaintenanceTypeOK, DrainedMeansNone
<1>9. (on <=> run \in {"drain", "work"})'
  BY DEF SpawnFails, Moves, locks, LockInv, MaintenanceTypeOK
<1>10. QED BY <1>1, <1>2, <1>3, <1>4, <1>5, <1>6, <1>7, <1>8, <1>9 DEF LockInv

\* Both locks are given back.
LEMMA UnlockKeeps ==
  ASSUME LockInv, NEW s \in Sessions, Unlock(s)
  PROVE  LockInv'
<1>1. (inFlight = Cardinality(Counted))'
  BY DEF Unlock, Counted, LockInv
<1>2. MaintenanceTypeOK'
  BY <1>1, CountedInRange DEF Unlock, Moves, locks, LockInv, MaintenanceTypeOK, Actors
<1>3. RestoreLockOwned'
  BY DEF Unlock, Moves, locks, LockInv, MaintenanceTypeOK, RestoreLockOwned, Locking
<1>4. RunLockOwned'
  BY MaintenanceAssumption
     DEF Unlock, Moves, locks, LockInv, MaintenanceTypeOK, RunLockOwned, RestoreLockOwned,
         ScheduledOwned, Locking, Alone, Holding
<1>5. GrantOwned'
  BY DEF Unlock, Moves, locks, LockInv, MaintenanceTypeOK, GrantOwned, RestoreLockOwned, Locking
<1>6. ScheduledOwned'
  BY DEF Unlock, Moves, locks, LockInv, MaintenanceTypeOK, ScheduledOwned, Holding
<1>7. LateOnes'
  BY DEF Unlock, Moves, locks, LockInv, MaintenanceTypeOK, LateOnes, Holding
<1>8. DrainedMeansNone'
  BY DEF Unlock, Moves, locks, LockInv, MaintenanceTypeOK, DrainedMeansNone
<1>9. (on <=> run \in {"drain", "work"})'
  BY DEF Unlock, Moves, locks, LockInv, MaintenanceTypeOK
<1>10. QED BY <1>1, <1>2, <1>3, <1>4, <1>5, <1>6, <1>7, <1>8, <1>9 DEF LockInv


-----------------------------------------------------------------------------
\* The restore enters maintenance.
LEMMA EnterKeeps ==
  ASSUME LockInv, Enter
  PROVE  LockInv'
<1>1. (inFlight = Cardinality(Counted))'
  BY DEF Enter, Counted, LockInv
<1>2. MaintenanceTypeOK'
  BY <1>1, CountedInRange DEF Enter, RunTo, locks, LockInv, MaintenanceTypeOK, Actors
<1>3. RestoreLockOwned'
  BY DEF Enter, RunTo, locks, LockInv, MaintenanceTypeOK, RestoreLockOwned, Locking
<1>4. RunLockOwned'
  BY DEF Enter, RunTo, locks, LockInv, MaintenanceTypeOK, RunLockOwned, Alone
<1>5. GrantOwned'
  BY DEF Enter, RunTo, locks, LockInv, MaintenanceTypeOK, GrantOwned
<1>6. ScheduledOwned'
  BY DEF Enter, RunTo, locks, LockInv, MaintenanceTypeOK, ScheduledOwned, Holding
<1>7. LateOnes'
  BY DEF Enter, RunTo, locks, LockInv, MaintenanceTypeOK, LateOnes, Holding
<1>8. DrainedMeansNone'
  BY DEF Enter, RunTo, locks, LockInv, MaintenanceTypeOK, DrainedMeansNone
<1>9. (on <=> run \in {"drain", "work"})'
  BY DEF Enter, RunTo, locks, LockInv, MaintenanceTypeOK
<1>10. QED BY <1>1, <1>2, <1>3, <1>4, <1>5, <1>6, <1>7, <1>8, <1>9 DEF LockInv

\* It drains, or gives up.
LEMMA DrainKeeps ==
  ASSUME LockInv, Drain
  PROVE  LockInv'
<1>1. (inFlight = Cardinality(Counted))'
  BY DEF Drain, Counted, LockInv
<1>2. MaintenanceTypeOK'
  BY <1>1, CountedInRange DEF Drain, RunTo, locks, LockInv, MaintenanceTypeOK, Actors
<1>3. RestoreLockOwned'
  BY DEF Drain, RunTo, locks, LockInv, MaintenanceTypeOK, RestoreLockOwned, Locking
<1>4. RunLockOwned'
  BY DEF Drain, RunTo, locks, LockInv, MaintenanceTypeOK, RunLockOwned, Alone
<1>5. GrantOwned'
  BY DEF Drain, RunTo, locks, LockInv, MaintenanceTypeOK, GrantOwned
<1>6. ScheduledOwned'
  BY DEF Drain, RunTo, locks, LockInv, MaintenanceTypeOK, ScheduledOwned, Holding
<1>7. LateOnes'
  BY DEF Drain, RunTo, locks, LockInv, MaintenanceTypeOK, LateOnes, Holding
<1>8. DrainedMeansNone'
  <2>1. inFlight = 0 => Counted = {}
    BY CountedIsNat, FS_EmptySet DEF LockInv
  <2>2. QED BY <2>1 DEF Drain, RunTo, locks, LockInv, MaintenanceTypeOK, DrainedMeansNone, Counted
<1>9. (on <=> run \in {"drain", "work"})'
  BY DEF Drain, RunTo, locks, LockInv, MaintenanceTypeOK
<1>10. QED BY <1>1, <1>2, <1>3, <1>4, <1>5, <1>6, <1>7, <1>8, <1>9 DEF LockInv

\* It leaves maintenance.
LEMMA LeaveKeeps ==
  ASSUME LockInv, Leave
  PROVE  LockInv'
<1>1. (inFlight = Cardinality(Counted))'
  BY DEF Leave, Counted, LockInv
<1>2. MaintenanceTypeOK'
  BY <1>1, CountedInRange DEF Leave, RunTo, locks, LockInv, MaintenanceTypeOK, Actors
<1>3. RestoreLockOwned'
  BY DEF Leave, RunTo, locks, LockInv, MaintenanceTypeOK, RestoreLockOwned, Locking
<1>4. RunLockOwned'
  BY DEF Leave, RunTo, locks, LockInv, MaintenanceTypeOK, RunLockOwned, Alone
<1>5. GrantOwned'
  BY DEF Leave, RunTo, locks, LockInv, MaintenanceTypeOK, GrantOwned
<1>6. ScheduledOwned'
  BY DEF Leave, RunTo, locks, LockInv, MaintenanceTypeOK, ScheduledOwned, Holding
<1>7. LateOnes'
  BY DEF Leave, RunTo, locks, LockInv, MaintenanceTypeOK, LateOnes, Holding
<1>8. DrainedMeansNone'
  BY DEF Leave, RunTo, locks, LockInv, MaintenanceTypeOK, DrainedMeansNone
<1>9. (on <=> run \in {"drain", "work"})'
  BY DEF Leave, RunTo, locks, LockInv, MaintenanceTypeOK
<1>10. QED BY <1>1, <1>2, <1>3, <1>4, <1>5, <1>6, <1>7, <1>8, <1>9 DEF LockInv

\* It gives _run_lock back.
LEMMA ReleaseBackupsKeeps ==
  ASSUME LockInv, ReleaseBackups
  PROVE  LockInv'
<1>1. (inFlight = Cardinality(Counted))'
  BY DEF ReleaseBackups, Counted, LockInv
<1>2. MaintenanceTypeOK'
  BY <1>1, CountedInRange DEF ReleaseBackups, RunTo, locks, LockInv, MaintenanceTypeOK, Actors
<1>3. RestoreLockOwned'
  BY DEF ReleaseBackups, RunTo, locks, LockInv, MaintenanceTypeOK, RestoreLockOwned, Locking
<1>4. RunLockOwned'
  BY MaintenanceAssumption
     DEF ReleaseBackups, RunTo, locks, LockInv, MaintenanceTypeOK, RunLockOwned, RestoreLockOwned,
         ScheduledOwned, Locking, Alone, Holding
<1>5. GrantOwned'
  BY DEF ReleaseBackups, RunTo, locks, LockInv, MaintenanceTypeOK, GrantOwned
<1>6. ScheduledOwned'
  BY DEF ReleaseBackups, RunTo, locks, LockInv, MaintenanceTypeOK, ScheduledOwned, Holding
<1>7. LateOnes'
  BY DEF ReleaseBackups, RunTo, locks, LockInv, MaintenanceTypeOK, LateOnes, Holding
<1>8. DrainedMeansNone'
  BY DEF ReleaseBackups, RunTo, locks, LockInv, MaintenanceTypeOK, DrainedMeansNone
<1>9. (on <=> run \in {"drain", "work"})'
  BY DEF ReleaseBackups, RunTo, locks, LockInv, MaintenanceTypeOK
<1>10. QED BY <1>1, <1>2, <1>3, <1>4, <1>5, <1>6, <1>7, <1>8, <1>9 DEF LockInv

\* It gives _lock back.
LEMMA ReleaseRestoreKeeps ==
  ASSUME LockInv, ReleaseRestore
  PROVE  LockInv'
<1>1. (inFlight = Cardinality(Counted))'
  BY DEF ReleaseRestore, Counted, LockInv
<1>2. MaintenanceTypeOK'
  BY <1>1, CountedInRange DEF ReleaseRestore, RunTo, locks, LockInv, MaintenanceTypeOK, Actors
<1>3. RestoreLockOwned'
  BY DEF ReleaseRestore, RunTo, locks, LockInv, MaintenanceTypeOK, RestoreLockOwned, Locking
<1>4. RunLockOwned'
  BY DEF ReleaseRestore, RunTo, locks, LockInv, MaintenanceTypeOK, RunLockOwned, Alone
<1>5. GrantOwned'
  BY DEF ReleaseRestore, RunTo, locks, LockInv, MaintenanceTypeOK, GrantOwned
<1>6. ScheduledOwned'
  BY DEF ReleaseRestore, RunTo, locks, LockInv, MaintenanceTypeOK, ScheduledOwned, Holding
<1>7. LateOnes'
  BY DEF ReleaseRestore, RunTo, locks, LockInv, MaintenanceTypeOK, LateOnes, Holding
<1>8. DrainedMeansNone'
  BY DEF ReleaseRestore, RunTo, locks, LockInv, MaintenanceTypeOK, DrainedMeansNone
<1>9. (on <=> run \in {"drain", "work"})'
  BY DEF ReleaseRestore, RunTo, locks, LockInv, MaintenanceTypeOK
<1>10. QED BY <1>1, <1>2, <1>3, <1>4, <1>5, <1>6, <1>7, <1>8, <1>9 DEF LockInv

-----------------------------------------------------------------------------
\* Every lock is free at the start, and nobody is counted.
LEMMA InitHolds == Init => LockInv
<1>1. SUFFICES ASSUME Init PROVE LockInv
  OBVIOUS
<1>2. inFlight = Cardinality(Counted) /\ MaintenanceTypeOK
  <2>1. Counted = {}
    BY <1>1 DEF Init, Counted
  <2>2. Cardinality(Counted) = 0 /\ Cardinality(Requests) \in Nat
    BY <2>1, FS_EmptySet, FS_CardinalityType, MaintenanceAssumption
  <2>3. inFlight \in 0 .. Cardinality(Requests) /\ inFlight = Cardinality(Counted)
    BY <1>1, <2>2 DEF Init
  <2>4. QED BY <1>1, <2>3 DEF Init, MaintenanceTypeOK, Actors
<1>3. RestoreLockOwned /\ RunLockOwned /\ GrantOwned /\ ScheduledOwned
  BY <1>1, MaintenanceAssumption
     DEF Init, RestoreLockOwned, RunLockOwned, GrantOwned, ScheduledOwned, Locking, Alone, Holding
<1>4. (on <=> run \in {"drain", "work"}) /\ LateOnes /\ DrainedMeansNone
  BY <1>1 DEF Init, LateOnes, DrainedMeansNone, Holding
<1>5. QED BY <1>2, <1>3, <1>4 DEF LockInv

LEMMA StutterKeeps ==
  ASSUME LockInv, UNCHANGED vars
  PROVE  LockInv'
<1>1. (inFlight = Cardinality(Counted))'
  BY DEF vars, Counted, LockInv
<1>2. MaintenanceTypeOK'
  BY DEF vars, locks, LockInv, MaintenanceTypeOK, Actors
<1>3. RestoreLockOwned' /\ RunLockOwned' /\ GrantOwned' /\ ScheduledOwned'
  BY DEF vars, LockInv, RestoreLockOwned, RunLockOwned, GrantOwned, ScheduledOwned
<1>4. (on <=> run \in {"drain", "work"})' /\ LateOnes' /\ DrainedMeansNone'
  BY DEF vars, LockInv, LateOnes, DrainedMeansNone
<1>5. QED BY <1>1, <1>2, <1>3, <1>4 DEF LockInv

LEMMA NextKeeps ==
  ASSUME LockInv, [Next]_vars
  PROVE  LockInv'
<1>1. ASSUME NEW r \in Requests, Arrive(r) \/ BackUp(r) \/ BackUpRaises(r) \/ RequestWork(r)
      PROVE  LockInv'
  BY <1>1, ArriveKeeps, CountKeeps, BackUpKeeps, BackedUpKeeps, BackUpRaisesKeeps, AnsweredKeeps
     DEF RequestWork
<1>2. ASSUME NEW t \in Ticks, Look(t) \/ TickBackUp(t) \/ TickBackUpRaises(t) \/ TickWork(t)
      PROVE  LockInv'
  BY <1>2, LookKeeps, HoldKeeps, TakenKeeps, WorkKeeps, SitOutKeeps, TickBackUpKeeps,
     TickBackedUpKeeps, TickBackUpRaisesKeeps, TickDoneKeeps
     DEF TickWork
<1>3. ASSUME NEW s \in Sessions, Ask(s) \/ Inspect(s) \/ StarterWork(s)
      PROVE  LockInv'
  BY <1>3, AskKeeps, LockRestoreKeeps, InspectKeeps, InspectedKeeps, AlreadyRunningKeeps,
     LockBackupsKeeps, BackupRunningKeeps, NothingScheduledKeeps, ScheduledBusyKeeps, IssueKeeps,
     SpawnKeeps, SpawnFailsKeeps, UnlockKeeps
     DEF StarterWork
<1>4. ASSUME RunWork PROVE LockInv'
  BY <1>4, EnterKeeps, DrainKeeps, LeaveKeeps, ReleaseBackupsKeeps, ReleaseRestoreKeeps
     DEF RunWork
<1>5. QED BY <1>1, <1>2, <1>3, <1>4, StutterKeeps DEF Next

-----------------------------------------------------------------------------
\* The invariant of the locks holds, however many requests, loops and
\* sessions there are (run MCMaintenance).
THEOREM LockInvHolds == Spec => []LockInv
<1>1. LockInv /\ [Next]_vars => LockInv'
  BY NextKeeps
<1>2. QED BY InitHolds, <1>1, PTL DEF Spec

\* Type correctness: _in_flight in particular never leaves its range.
THEOREM TypeHolds == Spec => []MaintenanceTypeOK
<1>1. LockInv => MaintenanceTypeOK
  BY DEF LockInv
<1>2. QED BY <1>1, LockInvHolds, PTL

\* No backup runs from start's lock on to the end of the restore.
THEOREM NoBackupRunsBeside == Spec => []NoBackupBeside
<1>1. LockInv => NoBackupBeside
  <2>1. SUFFICES ASSUME LockInv,
                        run \notin {"none", "ended"}
                          \/ (\E s \in Sessions : starter[s] \in {"alone", "clear", "granted"})
                 PROVE  /\ \A r \in Requests : request[r] # "backup"
                        /\ \A t \in Ticks : tick[t] # "backup"
    BY DEF NoBackupBeside
  <2>2. runLock \in Sessions
    BY <2>1 DEF LockInv, MaintenanceTypeOK, RunLockOwned, RestoreLockOwned, Alone
  <2>3. QED BY <2>1, <2>2, MaintenanceAssumption DEF LockInv, RunLockOwned
<1>2. QED BY <1>1, LockInvHolds, PTL

\* A restore's locks are its session's until it gives them back, and nobody
\* else is past the first lock meanwhile.
THEOREM RunKeepsItsLocks == Spec => []RunHoldsLocks
<1>1. LockInv => RunHoldsLocks
  BY DEF LockInv, MaintenanceTypeOK, RunHoldsLocks, RunLockOwned, RestoreLockOwned, Locking
<1>2. QED BY <1>1, LockInvHolds, PTL

\* The grant is the running session's.
THEOREM GrantIsOfRun == Spec => []GrantOfRun
<1>1. LockInv => GrantOfRun
  BY DEF LockInv, GrantOwned, GrantOfRun
<1>2. QED BY <1>1, LockInvHolds, PTL

\* Nothing is left locked: each lock has a living holder.
THEOREM LocksHaveHolders == Spec => []LocksAreHeld
<1>1. LockInv => LocksAreHeld
  <2>1. SUFFICES ASSUME LockInv PROVE LocksAreHeld
    OBVIOUS
  <2>2. runLock \in Sessions =>
          starter[runLock] \notin {"away", "passed", "inspect", "locked"} \/ run \notin {"none", "ended"}
    BY <2>1 DEF LockInv, RunLockOwned, Alone
  <2>3. restoreLock # "free" => run # "none" \/ starter[restoreLock] \notin {"away", "passed"}
    BY <2>1 DEF LockInv, RestoreLockOwned, Locking
  <2>4. scheduled # "free" => tick[scheduled] \in {"held", "work", "backup"}
    BY <2>1 DEF LockInv, MaintenanceTypeOK, ScheduledOwned, Holding
  <2>5. QED BY <2>1, <2>2, <2>3, <2>4 DEF LockInv, LocksAreHeld
<1>2. QED BY <1>1, LockInvHolds, PTL

\* A loop whose turn began beside a restore does no work beside one.
THEOREM NoTickIsLate == Spec => []NoLateTick
<1>1. LockInv => NoLateTick
  BY DEF LockInv, LateOnes, NoLateTick
<1>2. QED BY <1>1, LockInvHolds, PTL

\* drain() returned True only with none of the earlier requests left.
THEOREM DrainedIsEmpty == Spec => []DrainedMeansNone
<1>1. LockInv => DrainedMeansNone
  BY DEF LockInv
<1>2. QED BY <1>1, LockInvHolds, PTL
=============================================================================
