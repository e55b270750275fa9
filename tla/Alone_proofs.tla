--------------------------- MODULE Alone_proofs ----------------------------
(***************************************************************************)
(* Two components that are modelled each alone, for any constants.         *)
(* Signing in: what is counted against a known device's row covers what    *)
(* was let through with it and never passes MAX_FAILURES (DeviceInv), and  *)
(* the table of failures counts whatever was let through and is not        *)
(* forgotten, so that attempts are paced (PacedInv), however many are      *)
(* under way, and what it drops when it is full failed longest ago         *)
(* (OrderInv).  The backups: what a thread or an archive has of the key    *)
(* file is still in it, and a rotate command writes back all it has read   *)
(* (BackupsInv); what is to be pruned spares the newest of each kind       *)
(* (SparesInv); what has an archive's own name is signed (SignedInv).  One *)
(* lemma per action.                                                       *)
(***************************************************************************)
EXTENDS Throttle, Backups, FiniteSetTheorems, TLAPS

-----------------------------------------------------------------------------
(* Members of a set of places, in their order.                               *)

\* One number less.
LEMMA LessOne ==
  ASSUME NEW C \in Nat, NEW n \in 1 .. C
  PROVE  \E T : T = (1 .. C) \ {n} /\ IsFiniteSet(T) /\ Cardinality(T) = C - 1
<1>1. PICK I : I = 1 .. C
  OBVIOUS
<1>2. IsFiniteSet(I) /\ Cardinality(I) = C /\ n \in I
  BY <1>1, FS_Interval
<1>3. IsFiniteSet(I \ {n}) /\ Cardinality(I \ {n}) = C - 1
  BY <1>2, FS_RemoveElement
<1>4. QED BY <1>1, <1>3

\* The number of a set's members up to one of them is that one's place; no
\* two have the same.
Rank(S) == [i \in S |-> Cardinality({j \in S : j <= i})]
LEMMA PlacesAre ==
  ASSUME NEW L \in Nat, NEW S \in SUBSET (1 .. L)
  PROVE  /\ IsFiniteSet(S) /\ Cardinality(S) \in Nat
         /\ Rank(S) \in [S -> 1 .. Cardinality(S)]
         /\ \A i \in S, k \in S : Rank(S)[i] = Rank(S)[k] => i = k
<1>1. IsFiniteSet(1 .. L)
  BY FS_Interval
<1>2. PICK C \in Nat : C = Cardinality(S) /\ IsFiniteSet(S)
  BY <1>1, FS_Subset, FS_CardinalityType
<1>3. PICK rank : rank = Rank(S)
  OBVIOUS
<1>4. \A i \in S : rank[i] = Cardinality({j \in S : j <= i})
  BY <1>3 DEF Rank
<1>5. ASSUME NEW i \in S PROVE rank[i] \in 1 .. C
  <2>1. PICK T : T = {j \in S : j <= i}
    OBVIOUS
  <2>2. i \in T /\ T \subseteq S
    BY <2>1
  <2>3. Cardinality(T) \in Nat /\ Cardinality(T) <= C /\ Cardinality(T) # 0
    BY <1>2, <2>2, FS_Subset, FS_CardinalityType, FS_EmptySet
  <2>4. QED BY <1>4, <2>1, <2>3
<1>6. ASSUME NEW i \in S, NEW k \in S, i < k
      PROVE  rank[i] # rank[k]
  <2>1. PICK T : T = {j \in S : j <= i}
    OBVIOUS
  <2>2. PICK U : U = {j \in S : j <= k}
    OBVIOUS
  <2>3. k \in U /\ k \notin T
    BY <1>6, <2>1, <2>2
  <2>4. ASSUME NEW j \in T PROVE j \in U
    BY <1>6, <2>1, <2>2
  <2>5. T \subseteq U /\ T # U /\ IsFiniteSet(U)
    <3>1. U \subseteq S
      BY <2>2
    <3>2. QED BY <1>2, <2>3, <2>4, <3>1, FS_Subset
  <2>6. Cardinality(T) # Cardinality(U)
    BY <2>5, FS_Subset
  <2>7. QED BY <1>4, <2>1, <2>2, <2>6
<1>7. ASSUME NEW i \in S, NEW k \in S, rank[i] = rank[k] PROVE i = k
  <2>1. ~(i < k) /\ ~(k < i)
    BY <1>6, <1>7
  <2>2. i \in Int /\ k \in Int
    OBVIOUS
  <2>3. QED BY <2>1, <2>2
<1>8. rank \in [S -> 1 .. C]
  BY <1>5, <1>3 DEF Rank
<1>9. QED BY <1>2, <1>3, <1>7, <1>8

\* Each place up to the number of members is that of one of them.
LEMMA EachPlaceIs ==
  ASSUME NEW L \in Nat, NEW S \in SUBSET (1 .. L), NEW n \in 1 .. Cardinality(S)
  PROVE  \E i \in S : Rank(S)[i] = n
<1>1. PICK C \in Nat : C = Cardinality(S)
  BY PlacesAre
<1>2. PICK rank : rank = Rank(S)
  OBVIOUS
<1>3. IsFiniteSet(S) /\ rank \in [S -> 1 .. C] /\ \A i \in S, k \in S : rank[i] = rank[k] => i = k
  BY <1>1, <1>2, PlacesAre
<1>4. SUFFICES ASSUME \A i \in S : rank[i] # n PROVE FALSE
  BY <1>2
<1>5. PICK T : T = (1 .. C) \ {n} /\ IsFiniteSet(T) /\ Cardinality(T) = C - 1
  BY <1>1, LessOne
<1>6. rank \in [S -> T]
  BY <1>3, <1>4, <1>5
<1>7. C \in Nat /\ Cardinality(S) = C /\ Cardinality(T) = C - 1
  BY <1>1, <1>5
<1>8. rank \in Injection(S, T)
  BY <1>3, <1>6 DEF Injection, IsInjective
<1>9. Cardinality(S) <= Cardinality(T)
  BY <1>5, <1>8, FS_Injection
<1>10. QED BY <1>7, <1>9

-----------------------------------------------------------------------------
(* The tries of a known device (Throttle).                                 *)

\* Every row there is counts what was let through with it; a row that is gone
\* has nothing let through.
DeviceInv ==
  /\ DOMAIN device \subseteq Rows
  /\ \A d \in DOMAIN device : device[d] \in 0 .. MaxFailures
  /\ used \in [Rows -> Int]
  /\ \A d \in Rows : used[d] <= IF d \in DOMAIN device THEN device[d] ELSE 0

LEMMA InitDevices == ThrottleInit => DeviceInv
  BY ThrottleAssumption DEF ThrottleInit, DeviceInv

\* An attempt is counted against the row in the step that lets it through.
LEMMA ReserveKeeps ==
  ASSUME DeviceInv, NEW h \in Attempters, NEW n \in Names, NEW a \in Addresses, NEW d \in Rows, Reserve(h, n, a, d)
  PROVE  DeviceInv'
<1>1. d \in DOMAIN device /\ device[d] < MaxFailures /\ device[d] \in 0 .. MaxFailures
  BY DEF Reserve, DeviceInv
<1>2. device' = [device EXCEPT ![d] = device[d] + 1] /\ used' = [used EXCEPT ![d] = used[d] + 1]
  BY DEF Reserve
<1>3. DOMAIN device' = DOMAIN device /\ device'[d] = device[d] + 1
      /\ \A e \in DOMAIN device : e # d => device'[e] = device[e]
  BY <1>1, <1>2
<1>4. used' \in [Rows -> Int] /\ used'[d] = used[d] + 1 /\ \A e \in Rows : e # d => used'[e] = used[e]
  BY <1>2 DEF DeviceInv
<1>5. device'[d] \in 0 .. MaxFailures
  BY <1>1, <1>3, ThrottleAssumption
<1>6. used'[d] <= device'[d]
  BY <1>1, <1>3, <1>4 DEF DeviceInv
<1>7. QED BY <1>1, <1>3, <1>4, <1>5, <1>6 DEF DeviceInv

\* Rows that go take their counts with them.
LEMMA ForgetsKeeps ==
  ASSUME DeviceInv, NEW D, Forgets(D)
  PROVE  DeviceInv'
<1>1. /\ DOMAIN device' = DOMAIN device \ D
      /\ \A d \in DOMAIN device \ D : device'[d] = device[d]
  BY DEF Forgets
<1>2. used' \in [Rows -> Int] /\ \A d \in Rows : used'[d] = IF d \in D THEN 0 ELSE used[d]
  BY DEF Forgets, DeviceInv
<1>3. QED BY <1>1, <1>2, ThrottleAssumption DEF DeviceInv

\* A sign-in replaces the row by one with nothing counted.
LEMMA SignedInKeeps ==
  ASSUME DeviceInv, NEW h \in Attempters, Right(h, "signIn")
  PROVE  DeviceInv'
<1>1. PICK d \in Spare(h) \union (IF ask[h].row \subseteq DOMAIN device THEN ask[h].row ELSE {}) :
        /\ device' = [e \in (DOMAIN device \ ask[h].row) \union {d} |-> IF e = d THEN 0 ELSE device[e]]
        /\ used' = [e \in Rows |-> IF e = d \/ e \in ask[h].row THEN 0 ELSE used[e]]
  BY DEF Right
<1>2. d \in Rows
  BY <1>1 DEF Spare, DeviceInv
<1>3. /\ DOMAIN device' = (DOMAIN device \ ask[h].row) \union {d}
      /\ \A e \in DOMAIN device' : device'[e] = IF e = d THEN 0 ELSE device[e]
  BY <1>1
<1>4. used' \in [Rows -> Int] /\ \A e \in Rows : used'[e] = IF e = d \/ e \in ask[h].row THEN 0 ELSE used[e]
  BY <1>1 DEF DeviceInv
<1>5. QED BY <1>2, <1>3, <1>4, ThrottleAssumption DEF DeviceInv

\* A right password gives the attempt back, to the count and to what was let
\* through.
LEMMA ConfirmedKeeps ==
  ASSUME DeviceInv, NEW h \in Attempters, Right(h, "confirm")
  PROVE  DeviceInv'
<1>1. /\ device' = [d \in DOMAIN device |-> IF d \in ask[h].row /\ device[d] > 0
                                            THEN device[d] - 1 ELSE device[d]]
      /\ used' = [d \in Rows |-> IF d \in ask[h].row \intersect DOMAIN device THEN used[d] - 1 ELSE used[d]]
  BY DEF Right
<1>2. used' \in [Rows -> Int]
  BY <1>1 DEF DeviceInv
<1>3. QED BY <1>1, <1>2, ThrottleAssumption DEF DeviceInv

LEMMA SameDevices ==
  ASSUME DeviceInv, UNCHANGED <<device, used>>
  PROVE  DeviceInv'
  BY DEF DeviceInv

LEMMA DeviceStep ==
  ASSUME DeviceInv, [ThrottleNext]_throttle
  PROVE  DeviceInv'
<1>1. ASSUME NEW h \in Attempters, NEW n \in Names, NEW a \in Addresses, Attempt(h, n, a) PROVE DeviceInv'
  BY <1>1, SameDevices DEF Attempt
<1>2. ASSUME NEW h \in Attempters, Wrong(h) PROVE DeviceInv'
  BY <1>2, ForgetsKeeps DEF Wrong
<1>3. ASSUME NEW h \in Attempters, TooBusy(h) PROVE DeviceInv'
  BY <1>3, SameDevices DEF TooBusy
<1>4. ASSUME NEW a \in Addresses, SetupWrong(a) PROVE DeviceInv'
  BY <1>4, SameDevices DEF SetupWrong
<1>5. CASE RequestReset
  BY <1>5, ForgetsKeeps DEF RequestReset
<1>6. CASE Restart \/ TimePasses
  BY <1>6, SameDevices DEF Restart, TimePasses
<1>7. CASE UNCHANGED throttle
  BY <1>7, SameDevices DEF throttle
<1>8. QED BY <1>1, <1>2, <1>3, <1>4, <1>5, <1>6, <1>7, ReserveKeeps, SignedInKeeps, ConfirmedKeeps DEF ThrottleNext

\* In every reachable state each row's count covers what it let through
\* (auth/devices.py).
THEOREM DeviceInvHolds == ThrottleSpec => []DeviceInv
  BY InitDevices, DeviceStep, PTL DEF ThrottleSpec

\* However many sign-ins carry one device's cookie at once, those let through
\* and not given back never pass MAX_FAILURES (devices.reserve).
THEOREM DeviceTriesHold == ThrottleSpec => []DeviceTries
<1>1. DeviceInv => DeviceTries
  BY ThrottleAssumption DEF DeviceInv, DeviceTries
<1>2. QED BY <1>1, DeviceInvHolds, PTL

\* Of two members, the later has the higher place.
LEMMA RankGrows ==
  ASSUME NEW L \in Nat, NEW S \in SUBSET (1 .. L), NEW i \in S, NEW k \in S
  PROVE  i < k <=> Rank(S)[i] < Rank(S)[k]
<1>1. ASSUME NEW a \in S, NEW b \in S, a < b PROVE Rank(S)[a] < Rank(S)[b]
  <2>1. PICK T : T = {j \in S : j <= a}
    OBVIOUS
  <2>2. PICK U : U = {j \in S : j <= b}
    OBVIOUS
  <2>3. T \subseteq U /\ U \subseteq S
    <3>1. ASSUME NEW j \in T PROVE j \in U
      <4>1. j \in S /\ j <= a /\ j \in 1 .. L
        BY <2>1
      <4>2. QED BY <1>1, <2>2, <4>1
    <3>2. QED BY <2>2, <3>1
  <2>4. IsFiniteSet(U) /\ IsFiniteSet(T)
    BY <2>3, PlacesAre, FS_Subset
  <2>5. Cardinality(T) <= Cardinality(U) /\ Cardinality(T) \in Nat /\ Cardinality(U) \in Nat
    BY <2>3, <2>4, FS_Subset, FS_CardinalityType
  <2>6. Rank(S)[a] = Cardinality(T) /\ Rank(S)[b] = Cardinality(U)
    BY <2>1, <2>2 DEF Rank
  <2>7. Rank(S)[a] # Rank(S)[b]
    <3>1. a # b
      BY <1>1
    <3>2. QED BY <3>1, PlacesAre
  <2>8. QED BY <2>5, <2>6, <2>7
<1>2. i \in 1 .. L /\ k \in 1 .. L /\ Rank(S)[i] \in Int /\ Rank(S)[k] \in Int
  <2>1. PICK rank : rank = Rank(S)
    OBVIOUS
  <2>2. PICK C \in Nat : C = Cardinality(S)
    BY PlacesAre
  <2>3. rank \in [S -> 1 .. C]
    BY <2>1, <2>2, PlacesAre
  <2>4. rank[i] \in 1 .. C /\ rank[k] \in 1 .. C
    BY <2>3
  <2>5. QED BY <2>1, <2>4
<1>3. QED BY <1>1, <1>2

-----------------------------------------------------------------------------
(* The delay after each try (Throttle).                                    *)

Entries == [key : Keys, n : Nat, age : Nat]
Asked == {{<<"user", n>>, <<"addr", a>>} : n \in Names, a \in Addresses}
Counts == [n : Nat, age : Nat]
Checking == [at : {"verify"}, keys : Asked, row : SUBSET Rows]

\* What was let through is counted in the table, no longer ago.
Covered(t, through) ==
  \A k \in Keys : through[k].n > 0 =>
    /\ through[k].age < Window /\ k \in Held(t)
    /\ \A i \in Of(t, k) : through[k].n <= t[i].n /\ t[i].age <= through[k].age

\* The table counts all that was let through and is not forgotten.
PacedInv ==
  /\ entries \in Seq(Entries) /\ tried \in [Keys -> Counts]
  /\ ask \in [Attempters -> Checking \union {NoRequest}]
  /\ Covered(entries, tried)

\* A power of two is the number of a set's subsets.
LEMMA PowersGrow ==
  ASSUME NEW m \in Nat, NEW n \in Nat, m <= n
  PROVE  2 ^ m \in Nat /\ 2 ^ n \in Nat /\ 2 ^ m <= 2 ^ n
<1>1. PICK S : S = 1 .. m
  OBVIOUS
<1>2. PICK T : T = 1 .. n
  OBVIOUS
<1>3. IsFiniteSet(S) /\ Cardinality(S) = m /\ IsFiniteSet(T) /\ Cardinality(T) = n
  BY <1>1, <1>2, FS_Interval
<1>4. PICK P : P = SUBSET S
  OBVIOUS
<1>5. PICK Q : Q = SUBSET T
  OBVIOUS
<1>6. IsFiniteSet(P) /\ Cardinality(P) = 2 ^ m /\ IsFiniteSet(Q) /\ Cardinality(Q) = 2 ^ n
  BY <1>3, <1>4, <1>5, FS_SUBSET
<1>7. P \subseteq Q
  BY <1>1, <1>2, <1>4, <1>5
<1>8. Cardinality(P) <= Cardinality(Q) /\ Cardinality(P) \in Nat /\ Cardinality(Q) \in Nat
  BY <1>6, <1>7, FS_Subset, FS_CardinalityType
<1>9. QED BY <1>6, <1>8

LEMMA KindIs ==
  ASSUME NEW k \in Keys
  PROVE  k[1] \in {"user", "addr", "setup"} /\ FreeTries[k[1]] \in Nat \ {0}
  BY ThrottleAssumption DEF Keys

\* More failures never wait less.
LEMMA DelayGrows ==
  ASSUME NEW k \in Keys, NEW m \in Nat, NEW n \in Nat, m <= n
  PROVE  Delay(k, m) \in Nat /\ Delay(k, n) \in Nat /\ Delay(k, m) <= Delay(k, n)
<1>1. PICK f \in Nat : f = FreeTries[k[1]]
  BY KindIs
<1>2. Window \in Nat /\ Cap \in Nat
  BY ThrottleAssumption
<1>3. CASE n < f
  BY <1>1, <1>3 DEF Delay
<1>4. CASE k[1] = "setup"
  BY <1>1, <1>2, <1>4 DEF Delay
<1>5. CASE n >= f /\ k[1] # "setup"
  <2>1. PICK y \in Nat : y = n - f
    BY <1>5
  <2>2. 2 ^ y \in Nat
    BY <2>1, PowersGrow
  <2>3. Delay(k, n) = MinOf(Cap, 2 ^ y) /\ MinOf(Cap, 2 ^ y) \in Nat
    BY <1>1, <1>2, <1>5, <2>1, <2>2 DEF Delay, MinOf
  <2>4. CASE m < f
    BY <1>1, <2>3, <2>4 DEF Delay
  <2>5. CASE m >= f
    <3>1. PICK x \in Nat : x = m - f
      BY <2>5
    <3>2. 2 ^ x \in Nat /\ 2 ^ x <= 2 ^ y
      BY <2>1, <3>1, PowersGrow
    <3>3. Delay(k, m) = MinOf(Cap, 2 ^ x)
      BY <1>1, <1>5, <2>5, <3>1 DEF Delay
    <3>4. QED BY <1>2, <2>2, <2>3, <3>2, <3>3 DEF MinOf
  <2>6. QED BY <1>1, <2>4, <2>5
<1>6. QED BY <1>1, <1>3, <1>4, <1>5

\* One more failure keeps the order of two counts.
LEMMA MoreGrows ==
  ASSUME NEW k \in Keys, NEW m \in Nat, NEW n \in Nat, m <= n
  PROVE  More(m, k) \in Nat /\ More(n, k) \in Nat /\ n <= More(n, k) /\ More(m, k) <= More(n, k)
<1>1. CASE m = n
  BY <1>1 DEF More
<1>2. CASE m < n
  BY <1>2 DEF More
<1>3. QED BY <1>1, <1>2

\* Some of the entries, in their order.
LEMMA SelectedAre ==
  ASSUME NEW t \in Seq(Entries), NEW S \in SUBSET (DOMAIN t)
  PROVE  /\ Selected(t, S) \in Seq(Entries) /\ Len(Selected(t, S)) = Cardinality(S)
         /\ \A n \in 1 .. Len(Selected(t, S)) : \E i \in S : Selected(t, S)[n] = t[i]
         /\ \A i \in S : Rank(S)[i] \in 1 .. Len(Selected(t, S)) /\ Selected(t, S)[Rank(S)[i]] = t[i]
<1>1. PICK L \in Nat : L = Len(t) /\ DOMAIN t = 1 .. L /\ \A i \in 1 .. L : t[i] \in Entries
  OBVIOUS
<1>2. IsFiniteSet(S) /\ S \in SUBSET (1 .. L)
  <2>1. IsFiniteSet(1 .. L)
    BY FS_Interval
  <2>2. S \subseteq 1 .. L
    BY <1>1
  <2>3. QED BY <2>1, <2>2, FS_Subset
<1>3. PICK C \in Nat : C = Cardinality(S)
  BY <1>2, FS_CardinalityType
<1>4. PICK f : /\ f = Selected(t, S)
               /\ f = [n \in 1 .. C |-> t[CHOOSE i \in S : Cardinality({j \in S : j <= i}) = n]]
  BY <1>3 DEF Selected
<1>5. PICK rank : rank = Rank(S)
  OBVIOUS
<1>6. \A n \in 1 .. C : f[n] = t[CHOOSE i \in S : rank[i] = n]
  <2>1. ASSUME NEW n \in 1 .. C PROVE f[n] = t[CHOOSE i \in S : rank[i] = n]
    <3>1. f[n] = t[CHOOSE i \in S : Cardinality({j \in S : j <= i}) = n]
      BY <1>4
    <3>2. \A i \in S : (Cardinality({j \in S : j <= i}) = n) <=> (rank[i] = n)
      BY <1>5 DEF Rank
    <3>3. (CHOOSE i \in S : Cardinality({j \in S : j <= i}) = n) = (CHOOSE i \in S : rank[i] = n)
      BY <3>2
    <3>4. QED BY <3>1, <3>3
  <2>2. QED BY <2>1
<1>7. /\ rank \in [S -> 1 .. C]
      /\ \A i \in S, k \in S : rank[i] = rank[k] => i = k
  BY <1>2, <1>3, <1>5, PlacesAre
<1>8. ASSUME NEW n \in 1 .. C PROVE \E i \in S : rank[i] = n
  BY <1>2, <1>3, <1>5, EachPlaceIs
<1>9. \A i \in S : f[rank[i]] = t[i]
  BY <1>6, <1>7
<1>10. \A n \in 1 .. C : \E i \in S : f[n] = t[i]
  BY <1>8, <1>9
<1>11. f \in Seq(Entries) /\ Len(f) = C
  <2>1. f \in [1 .. C -> Entries]
    <3>1. \A n \in 1 .. C : f[n] \in Entries
      BY <1>1, <1>2, <1>10
    <3>2. QED BY <1>4, <3>1
  <2>2. QED BY <1>3, <2>1
<1>12. \A i \in S : rank[i] \in 1 .. Len(f) /\ f[rank[i]] = t[i]
  BY <1>7, <1>9, <1>11
<1>13. f = Selected(t, S)
  BY <1>4
<1>14. f \in Seq(Entries) /\ Len(f) = Cardinality(S)
  BY <1>3, <1>11
<1>15. \A n \in 1 .. Len(f) : \E i \in S : f[n] = t[i]
  BY <1>10, <1>11
<1>16. \A i \in S : Rank(S)[i] \in 1 .. Len(f) /\ f[Rank(S)[i]] = t[i]
  BY <1>5, <1>12
<1>17. QED BY <1>13, <1>14, <1>15, <1>16

\* The last of them stays the last.
LEMMA LastSelected ==
  ASSUME NEW t \in Seq(Entries), NEW S \in SUBSET (DOMAIN t), NEW m \in S, \A j \in S : j <= m
  PROVE  /\ Len(Selected(t, S)) \in Nat \ {0}
         /\ Selected(t, S)[Len(Selected(t, S))] = t[m]
<1>1. PICK L \in Nat : L = Len(t) /\ DOMAIN t = 1 .. L
  OBVIOUS
<1>2. S \in SUBSET (1 .. L)
  BY <1>1
<1>3. PICK T : T = {j \in S : j <= m}
  OBVIOUS
<1>4. T = S
  BY <1>3
<1>5. Rank(S)[m] = Cardinality(S)
  <2>1. Rank(S)[m] = Cardinality(T)
    BY <1>3 DEF Rank
  <2>2. QED BY <1>4, <2>1
<1>6. Rank(S)[m] \in 1 .. Cardinality(S) /\ Cardinality(S) \in Nat
  <2>1. Rank(S) \in [S -> 1 .. Cardinality(S)] /\ Cardinality(S) \in Nat
    BY <1>2, PlacesAre
  <2>2. QED BY <2>1
<1>7. PICK f : f = Selected(t, S)
  OBVIOUS
<1>8. Len(f) = Cardinality(S) /\ f[Rank(S)[m]] = t[m]
  BY <1>7, SelectedAre
<1>9. QED BY <1>5, <1>6, <1>7, <1>8

\* Some entries of a table, and what is left of it with them.
Within(u, t) == \A i \in DOMAIN u : \E j \in DOMAIN t : u[i] = t[j]
Left(u, g, h) == \A k \in Keys : h[k].n = 0 \/ (h[k] = g[k] /\ k \in Held(u))

\* A table covers what is left when others are forgotten with their entries.
LEMMA PartCovers ==
  ASSUME NEW t, NEW u, Within(u, t),
         NEW g \in [Keys -> Counts], NEW h \in [Keys -> Counts], Covered(t, g), Left(u, g, h)
  PROVE  Covered(u, h)
<1>1. SUFFICES ASSUME NEW k \in Keys, h[k].n > 0
               PROVE  /\ h[k].age < Window /\ k \in Held(u)
                      /\ \A i \in Of(u, k) : h[k].n <= u[i].n /\ u[i].age <= h[k].age
  BY DEF Covered
<1>2. h[k] = g[k] /\ k \in Held(u)
  BY <1>1 DEF Left
<1>3. /\ g[k].age < Window
      /\ \A i \in Of(t, k) : g[k].n <= t[i].n /\ t[i].age <= g[k].age
  BY <1>1, <1>2 DEF Covered
<1>4. ASSUME NEW i \in Of(u, k) PROVE g[k].n <= u[i].n /\ u[i].age <= g[k].age
  <2>1. PICK j \in DOMAIN t : u[i] = t[j]
    BY DEF Of, Within
  <2>2. j \in Of(t, k)
    BY <2>1 DEF Of
  <2>3. QED BY <1>3, <2>1, <2>2
<1>5. QED BY <1>2, <1>3, <1>4

\* Looking drops only what counts for nothing.
LEMMA LookedCovers ==
  ASSUME NEW t \in Seq(Entries), NEW K, NEW g \in [Keys -> Counts], Covered(t, g)
  PROVE  Looked(t, K) \in Seq(Entries) /\ Covered(Looked(t, K), g)
<1>1. PICK S : S = {i \in DOMAIN t : t[i].key \notin K \/ t[i].age < Window}
  OBVIOUS
<1>2. PICK u : u = Selected(t, S)
  OBVIOUS
<1>3. /\ u \in Seq(Entries) /\ \A n \in 1 .. Len(u) : \E i \in S : u[n] = t[i]
      /\ \A i \in S : Rank(S)[i] \in 1 .. Len(u) /\ u[Rank(S)[i]] = t[i]
  <2>1. S \in SUBSET (DOMAIN t)
    BY <1>1
  <2>2. QED BY <1>2, <2>1, SelectedAre
<1>4. ASSUME NEW k \in Keys, g[k].n # 0 PROVE k \in Held(u)
  <2>1. g[k].n > 0
    BY <1>4 DEF Counts
  <2>2. g[k].age < Window /\ k \in Held(t) /\ \A i \in Of(t, k) : t[i].age <= g[k].age
    BY <2>1 DEF Covered
  <2>3. PICK i \in DOMAIN t : t[i].key = k
    BY <2>2 DEF Held
  <2>4. t[i].age <= g[k].age
    BY <2>2, <2>3 DEF Of
  <2>5. t[i].age \in Nat /\ g[k].age \in Nat
    <3>1. t[i] \in Entries /\ g[k] \in Counts
      OBVIOUS
    <3>2. QED BY <3>1 DEF Entries, Counts
  <2>6. i \in S
    BY <1>1, <2>2, <2>4, <2>5, ThrottleAssumption
  <2>7. PICK n \in 1 .. Len(u) : u[n] = t[i]
    BY <1>3, <2>6
  <2>8. n \in DOMAIN u
    BY <1>3
  <2>9. QED BY <2>3, <2>7, <2>8 DEF Held
<1>5. Within(u, t)
  BY <1>1, <1>3 DEF Within
<1>6. Covered(u, g)
  <2>1. Left(u, g, g)
    BY <1>4 DEF Left
  <2>2. QED BY <1>5, <2>1, PartCovers
<1>7. Looked(t, K) = u
  BY <1>1, <1>2 DEF Looked
<1>8. QED BY <1>3, <1>6, <1>7

\* What a bucket counts is at least what was let through.
LEMMA FailuresCover ==
  ASSUME NEW t \in Seq(Entries), NEW k \in Keys
  PROVE  /\ Failures(t, k) \in Nat
         /\ \A g \in [Keys -> Counts] : Covered(t, g) => g[k].n <= Failures(t, k)
<1>1. PICK S : S = Of(t, k)
  OBVIOUS
<1>2. PICK c : c = CHOOSE i \in S : TRUE
  OBVIOUS
<1>3. S # {} => c \in S
  BY <1>2
<1>4. \A i \in S : i \in DOMAIN t /\ t[i] \in Entries
  BY <1>1 DEF Of
<1>5. Failures(t, k) = IF \E i \in S : t[i].age < Window THEN t[c].n ELSE 0
  BY <1>1, <1>2 DEF Failures
<1>6. Failures(t, k) \in Nat
  BY <1>3, <1>4, <1>5 DEF Entries
<1>7. ASSUME NEW g \in [Keys -> Counts], Covered(t, g) PROVE g[k].n <= Failures(t, k)
  <2>1. CASE g[k].n = 0
    BY <1>6, <2>1
  <2>2. CASE g[k].n > 0
    <3>1. /\ g[k].age < Window /\ k \in Held(t)
          /\ \A i \in S : g[k].n <= t[i].n /\ t[i].age <= g[k].age
      BY <1>1, <1>7, <2>2 DEF Covered
    <3>2. PICK i \in S : TRUE
      BY <1>1, <3>1 DEF Held, Of
    <3>3. t[i].age < Window
      <4>1. t[i].age \in Nat /\ g[k].age \in Nat /\ t[i].age <= g[k].age
        BY <1>4, <3>1, <3>2 DEF Entries, Counts
      <4>2. QED BY <3>1, <4>1, ThrottleAssumption
    <3>4. g[k].n <= t[c].n
      BY <1>3, <3>1, <3>2
    <3>5. QED BY <1>5, <3>2, <3>3, <3>4
  <2>3. QED BY <2>1, <2>2 DEF Counts
<1>8. QED BY <1>6, <1>7

\* One more failure is the newest entry; the others stay.
Newest(t, k, u) ==
  /\ u \in Seq(Entries) /\ Len(u) \in Nat \ {0}
  /\ u[Len(u)] = [key |-> k, n |-> More(Failures(t, k), k), age |-> 0]
  /\ \A i \in 1 .. Len(u) - 1 : u[i].key # k /\ \E j \in DOMAIN t : u[i] = t[j]
  /\ \A j \in DOMAIN t : t[j].key # k => \E i \in 1 .. Len(u) - 1 : u[i] = t[j]
  /\ Len(t) # 0 /\ t[Len(t)].key # k => Len(u) >= 2 /\ u[Len(u) - 1] = t[Len(t)]

LEMMA CountedIs ==
  ASSUME NEW t \in Seq(Entries), NEW k \in Keys, NEW u, u = Counted(t, k)
  PROVE  Newest(t, k, u)
<1>1. PICK S : S = DOMAIN t \ Of(t, k)
  OBVIOUS
<1>2. S = {i \in DOMAIN t : t[i].key # k}
  BY <1>1 DEF Of
<1>3. PICK v : v = Selected(t, S)
  OBVIOUS
<1>4. /\ v \in Seq(Entries) /\ Len(v) \in Nat
      /\ \A n \in 1 .. Len(v) : \E i \in S : v[n] = t[i]
      /\ \A i \in S : Rank(S)[i] \in 1 .. Len(v) /\ v[Rank(S)[i]] = t[i]
  <2>1. S \in SUBSET (DOMAIN t)
    BY <1>1
  <2>2. v \in Seq(Entries) => Len(v) \in Nat
    OBVIOUS
  <2>3. QED BY <1>3, <2>1, <2>2, SelectedAre
<1>5. PICK e : e = [key |-> k, n |-> More(Failures(t, k), k), age |-> 0]
  OBVIOUS
<1>6. e \in Entries
  <2>1. Failures(t, k) \in Nat
    BY FailuresCover
  <2>2. More(Failures(t, k), k) \in Nat
    BY <2>1, MoreGrows
  <2>3. QED BY <1>5, <2>2 DEF Entries
<1>7. u = Append(v, e)
  BY <1>1, <1>3, <1>5 DEF Counted, Others
<1>8. /\ u \in Seq(Entries) /\ Len(u) = Len(v) + 1 /\ u[Len(u)] = e
      /\ \A i \in 1 .. Len(v) : u[i] = v[i]
  BY <1>4, <1>6, <1>7
<1>9. \A i \in 1 .. Len(u) - 1 : u[i].key # k /\ \E j \in DOMAIN t : u[i] = t[j]
  <2>1. ASSUME NEW i \in 1 .. Len(v) PROVE u[i].key # k /\ \E j \in DOMAIN t : u[i] = t[j]
    <3>1. PICK j \in S : v[i] = t[j]
      BY <1>4
    <3>2. QED BY <1>2, <1>8, <3>1
  <2>2. Len(u) - 1 = Len(v)
    BY <1>4, <1>8
  <2>3. QED BY <2>1, <2>2
<1>10. ASSUME NEW j \in DOMAIN t, t[j].key # k PROVE \E i \in 1 .. Len(u) - 1 : u[i] = t[j]
  <2>1. j \in S
    BY <1>2, <1>10
  <2>2. PICK i \in 1 .. Len(v) : v[i] = t[j]
    BY <1>4, <2>1
  <2>3. i \in 1 .. Len(u) - 1 /\ u[i] = t[j]
    BY <1>4, <1>8, <2>2
  <2>4. QED BY <2>3
<1>11. ASSUME Len(t) # 0, t[Len(t)].key # k PROVE Len(u) >= 2 /\ u[Len(u) - 1] = t[Len(t)]
  <2>1. PICK m : m = Len(t) /\ m \in DOMAIN t /\ \A j \in DOMAIN t : j <= m
    BY <1>11
  <2>2. m \in S /\ \A j \in S : j <= m
    BY <1>2, <1>11, <2>1
  <2>3. Len(v) \in Nat \ {0} /\ v[Len(v)] = t[m]
    BY <1>1, <1>3, <2>2, LastSelected
  <2>4. QED BY <1>8, <2>1, <2>3
<1>12. QED BY <1>4, <1>5, <1>8, <1>9, <1>10, <1>11 DEF Newest

\* Counting a bucket keeps what the table covers, one more try of it with it.
LEMMA CountedCovers ==
  ASSUME NEW t \in Seq(Entries), NEW k \in Keys, NEW g \in [Keys -> Counts], Covered(t, g),
         NEW h \in [Keys -> Counts], \A j \in Keys : j # k => h[j] = g[j],
         h[k] = g[k] \/ h[k] = [n |-> More(g[k].n, k), age |-> 0]
  PROVE  Counted(t, k) \in Seq(Entries) /\ Covered(Counted(t, k), h)
<1>1. PICK u : u = Counted(t, k)
  OBVIOUS
<1>2. PICK F \in Nat : F = Failures(t, k) /\ g[k].n <= F
  BY FailuresCover
<1>3. PICK e : e = [key |-> k, n |-> More(F, k), age |-> 0]
  OBVIOUS
<1>4. /\ u \in Seq(Entries) /\ Len(u) \in Nat \ {0} /\ u[Len(u)] = e
      /\ \A i \in 1 .. Len(u) - 1 : u[i].key # k /\ \E j \in DOMAIN t : u[i] = t[j]
      /\ \A j \in DOMAIN t : t[j].key # k => \E i \in 1 .. Len(u) - 1 : u[i] = t[j]
  <2>1. Newest(t, k, u)
    BY <1>1, CountedIs
  <2>2. e = [key |-> k, n |-> More(Failures(t, k), k), age |-> 0]
    BY <1>2, <1>3
  <2>3. QED BY <2>1, <2>2 DEF Newest
<1>5. DOMAIN u = 1 .. Len(u) /\ \A i \in DOMAIN u : i = Len(u) \/ i \in 1 .. Len(u) - 1
  BY <1>4
<1>6. g[k] \in Counts /\ g[k].n \in Nat /\ g[k].age \in Nat
  BY DEF Counts
<1>7. h[k].n <= More(F, k)
  <2>1. g[k].n <= More(F, k) /\ More(g[k].n, k) <= More(F, k)
    <3>1. More(F, k) \in Nat /\ F <= More(F, k) /\ More(g[k].n, k) <= More(F, k)
      BY <1>2, <1>6, MoreGrows
    <3>2. QED BY <1>2, <1>6, <3>1
  <2>2. QED BY <2>1
<1>8. ASSUME h[k].n > 0 PROVE h[k].age < Window /\ h[k].age \in Nat
  <2>1. CASE h[k] = g[k]
    BY <1>6, <1>8, <2>1 DEF Covered
  <2>2. CASE h[k] = [n |-> More(g[k].n, k), age |-> 0]
    BY <2>2, ThrottleAssumption
  <2>3. QED BY <2>1, <2>2
<1>9. ASSUME h[k].n > 0
      PROVE  k \in Held(u) /\ \A i \in Of(u, k) : h[k].n <= u[i].n /\ u[i].age <= h[k].age
  <2>1. Len(u) \in DOMAIN u /\ u[Len(u)].key = k
    BY <1>3, <1>4, <1>5
  <2>2. \A i \in Of(u, k) : u[i] = e
    BY <1>4, <1>5 DEF Of
  <2>3. h[k].n <= e.n /\ e.age <= h[k].age
    BY <1>3, <1>7, <1>8, <1>9
  <2>4. QED BY <2>1, <2>2, <2>3 DEF Held
<1>10. ASSUME NEW j \in Keys, j # k, h[j].n > 0
       PROVE  /\ h[j].age < Window /\ j \in Held(u)
              /\ \A i \in Of(u, j) : h[j].n <= u[i].n /\ u[i].age <= h[j].age
  <2>1. /\ h[j] = g[j] /\ h[j].age < Window /\ j \in Held(t)
        /\ \A i \in Of(t, j) : h[j].n <= t[i].n /\ t[i].age <= h[j].age
    BY <1>10 DEF Covered
  <2>2. PICK m \in DOMAIN t : t[m].key = j
    BY <2>1 DEF Held
  <2>3. PICK p \in 1 .. Len(u) - 1 : u[p] = t[m]
    BY <1>4, <1>10, <2>2
  <2>4. j \in Held(u)
    BY <1>4, <2>2, <2>3 DEF Held
  <2>5. ASSUME NEW i \in Of(u, j) PROVE h[j].n <= u[i].n /\ u[i].age <= h[j].age
    <3>1. i \in DOMAIN u /\ u[i].key = j
      BY DEF Of
    <3>2. i \in 1 .. Len(u) - 1
      BY <1>3, <1>4, <1>5, <1>10, <3>1
    <3>3. PICK q \in DOMAIN t : u[i] = t[q]
      BY <1>4, <3>2
    <3>4. q \in Of(t, j)
      BY <3>1, <3>3 DEF Of
    <3>5. QED BY <2>1, <3>3, <3>4
  <2>6. QED BY <2>1, <2>4, <2>5
<1>11. Covered(u, h)
  BY <1>8, <1>9, <1>10 DEF Covered
<1>12. QED BY <1>1, <1>4, <1>11

\* A table too long loses its oldest; the two newest stay.
LEMMA FittedIs ==
  ASSUME NEW t \in Seq(Entries), NEW u, u = Fitted(t)
  PROVE  /\ u \in Seq(Entries) /\ Within(u, t)
         /\ Len(t) >= 2 => /\ Len(u) >= 2 /\ u[Len(u)] = t[Len(t)]
                           /\ u[Len(u) - 1] = t[Len(t) - 1]
<1>1. MaxKeys \in Nat /\ MaxKeys >= 2 /\ Len(t) \in Nat
  BY ThrottleAssumption
<1>2. CASE Len(t) <= MaxKeys
  <2>1. u = t
    BY <1>1, <1>2 DEF Fitted
  <2>2. QED BY <2>1 DEF Within
<1>3. CASE Len(t) > MaxKeys
  <2>1. PICK m \in 1 .. Len(t) : m = Len(t) - MaxKeys + 1
    BY <1>1, <1>3
  <2>2. u = SubSeq(t, m, Len(t))
    BY <1>3, <2>1 DEF Fitted
  <2>3. u \in Seq(Entries) /\ Len(u) = MaxKeys /\ \A i \in 1 .. MaxKeys : u[i] = t[m + i - 1]
    BY <1>1, <2>1, <2>2
  <2>4. DOMAIN u = 1 .. MaxKeys /\ DOMAIN t = 1 .. Len(t)
    BY <2>3
  <2>5. ASSUME NEW i \in DOMAIN u PROVE \E j \in DOMAIN t : u[i] = t[j]
    <3>1. m + i - 1 \in DOMAIN t /\ u[i] = t[m + i - 1]
      BY <1>1, <2>1, <2>3, <2>4
    <3>2. QED BY <3>1
  <2>6. u[MaxKeys] = t[Len(t)] /\ u[MaxKeys - 1] = t[Len(t) - 1]
    <3>1. MaxKeys \in 1 .. MaxKeys /\ MaxKeys - 1 \in 1 .. MaxKeys
      BY <1>1
    <3>2. m + MaxKeys - 1 = Len(t) /\ m + (MaxKeys - 1) - 1 = Len(t) - 1
      BY <1>1, <2>1
    <3>3. QED BY <2>3, <3>1, <3>2
  <2>7. QED BY <1>1, <2>3, <2>5, <2>6 DEF Within
<1>4. QED BY <1>1, <1>2, <1>3

LEMMA InitPaced == ThrottleInit => PacedInv
<1>1. SUFFICES ASSUME ThrottleInit PROVE PacedInv
  OBVIOUS
<1>2. entries \in Seq(Entries) /\ ask \in [Attempters -> Checking \union {NoRequest}]
  BY <1>1 DEF ThrottleInit
<1>3. tried \in [Keys -> Counts] /\ \A k \in Keys : tried[k].n = 0
  BY <1>1 DEF ThrottleInit, Never, Counts
<1>4. Covered(entries, tried)
  BY <1>3 DEF Covered
<1>5. QED BY <1>2, <1>3, <1>4 DEF PacedInv

\* What is forgotten counts nothing.
LEMMA ForgottenIs ==
  ASSUME tried \in [Keys -> Counts], NEW K
  PROVE  /\ Forgotten(K) \in [Keys -> Counts]
         /\ \A k \in Keys : Forgotten(K)[k] = IF k \in K THEN Never ELSE tried[k]
         /\ \A k \in Keys : k \in K => Forgotten(K)[k].n = 0
<1>1. Never \in Counts /\ Never.n = 0
  BY DEF Never, Counts
<1>2. Forgotten(K) = [k \in Keys |-> IF k \in K THEN Never ELSE tried[k]]
  BY DEF Forgotten
<1>3. QED BY <1>1, <1>2

\* With no reset heard of, the table is looked at as it is; with one, it is
\* empty and all is forgotten.
LEMMA LookedNow ==
  ASSUME PacedInv, NEW K
  PROVE  /\ Looked(Heard, K) \in Seq(Entries)
         /\ ~Reset => Covered(Looked(Heard, K), tried)
<1>1. Heard \in Seq(Entries)
  BY DEF Heard, PacedInv
<1>2. PICK none : none = [k \in Keys |-> Never]
  OBVIOUS
<1>3. none \in [Keys -> Counts] /\ Covered(Heard, none)
  BY <1>2 DEF Never, Counts, Covered
<1>4. Looked(Heard, K) \in Seq(Entries)
  BY <1>1, <1>3, LookedCovers
<1>5. ASSUME ~Reset PROVE Covered(Looked(Heard, K), tried)
  <2>1. Heard = entries
    BY <1>5 DEF Heard
  <2>2. QED BY <1>1, <2>1, LookedCovers DEF PacedInv
<1>6. QED BY <1>4, <1>5

\* What is dropped is forgotten, so what is left covers the rest.
LEMMA DroppedCovers ==
  ASSUME PacedInv, NEW t, NEW u, Within(u, t), ~Reset => Covered(t, tried)
  PROVE  /\ Forgotten(Dropped(u)) \in [Keys -> Counts]
         /\ Covered(u, Forgotten(Dropped(u)))
<1>1. tried \in [Keys -> Counts] /\ Covered(entries, tried)
  BY DEF PacedInv
<1>2. PICK D : D = Dropped(u)
  OBVIOUS
<1>3. PICK h : h = Forgotten(D)
  OBVIOUS
<1>4. /\ h \in [Keys -> Counts]
      /\ \A k \in Keys : h[k] = IF k \in D THEN Never ELSE tried[k]
      /\ \A k \in Keys : k \in D => h[k].n = 0
  BY <1>1, <1>3, ForgottenIs
<1>5. CASE Reset
  <2>1. \A k \in Keys : h[k].n = 0
    BY <1>2, <1>4, <1>5 DEF Dropped
  <2>2. Covered(u, h)
    BY <2>1 DEF Covered
  <2>3. QED BY <1>2, <1>3, <1>4, <2>2
<1>6. CASE ~Reset
  <2>1. D = Held(entries) \ Held(u)
    BY <1>2, <1>6 DEF Dropped
  <2>2. ASSUME NEW k \in Keys, h[k].n # 0 PROVE h[k] = tried[k] /\ k \in Held(u)
    <3>1. k \notin D /\ h[k] = tried[k]
      BY <1>4, <2>2
    <3>2. tried[k].n > 0
      <4>1. tried[k] \in Counts
        BY <1>1
      <4>2. QED BY <2>2, <3>1, <4>1 DEF Counts
    <3>3. k \in Held(entries)
      BY <1>1, <3>2 DEF Covered
    <3>4. QED BY <2>1, <3>1, <3>3
  <2>3. Left(u, tried, h)
    BY <2>2 DEF Left
  <2>4. Covered(u, h)
    BY <1>1, <1>4, <1>6, <2>3, PartCovers
  <2>5. QED BY <1>2, <1>3, <1>4, <2>4
<1>7. QED BY <1>5, <1>6

\* Each bucket of an attempt.
LEMMA BucketsAre ==
  ASSUME NEW n \in Names, NEW a \in Addresses
  PROVE  <<"user", n>> \in Keys /\ <<"addr", a>> \in Keys /\ <<"user", n>> # <<"addr", a>>
  BY DEF Keys

\* At most one more try of some buckets; what is left of the others.
OneMore(K, g, h) == \A k \in K : h[k] = g[k] \/ h[k] = [n |-> More(g[k].n, k), age |-> 0]
LeftBeside(K, u, g, h) == \A k \in Keys \ K : h[k].n = 0 \/ (h[k] = g[k] /\ k \in Held(u))

\* Both buckets are the newest two entries, with one more try of each.
LEMMA TalliedCovers ==
  ASSUME NEW t \in Seq(Entries), NEW n \in Names, NEW a \in Addresses,
         NEW K, K = {<<"user", n>>, <<"addr", a>>},
         NEW g \in [Keys -> Counts], Covered(t, g),
         NEW h \in [Keys -> Counts], NEW u, u = Tallied(t, n, a),
         OneMore(K, g, h), LeftBeside(K, u, g, h)
  PROVE  u \in Seq(Entries) /\ K \subseteq Held(u) /\ Covered(u, h)
<1>1. PICK U \in Keys, A \in Keys : U = <<"user", n>> /\ A = <<"addr", a>> /\ U # A /\ K = {U, A}
  BY BucketsAre
<1>2. PICK t1 : t1 = Counted(t, U)
  OBVIOUS
<1>3. PICK t2 : t2 = Counted(t1, A)
  OBVIOUS
<1>4. u = Fitted(t2)
  BY <1>1, <1>2, <1>3 DEF Tallied
<1>5. PICK g1 : g1 = [k \in Keys |-> IF k = U THEN h[k] ELSE g[k]]
  OBVIOUS
<1>6. PICK g2 : g2 = [k \in Keys |-> IF k \in K THEN h[k] ELSE g[k]]
  OBVIOUS
<1>7. g1 \in [Keys -> Counts] /\ g2 \in [Keys -> Counts]
  BY <1>5, <1>6
<1>8. t1 \in Seq(Entries) /\ Covered(t1, g1)
  <2>1. /\ \A k \in Keys : k # U => g1[k] = g[k]
        /\ g1[U] = g[U] \/ g1[U] = [n |-> More(g[U].n, U), age |-> 0]
    BY <1>1, <1>5 DEF OneMore
  <2>2. QED BY <1>2, <1>7, <2>1, CountedCovers
<1>9. t2 \in Seq(Entries) /\ Covered(t2, g2)
  <2>1. g1[A] = g[A] /\ g2[A] = h[A] /\ \A k \in Keys : k # A => g2[k] = g1[k]
    BY <1>1, <1>5, <1>6
  <2>2. g2[A] = g1[A] \/ g2[A] = [n |-> More(g1[A].n, A), age |-> 0]
    BY <1>1, <2>1 DEF OneMore
  <2>3. QED BY <1>3, <1>7, <1>8, <2>1, <2>2, CountedCovers
<1>10. Len(t1) \in Nat \ {0} /\ t1[Len(t1)].key = U
  <2>1. Newest(t, U, t1)
    BY <1>2, CountedIs
  <2>2. QED BY <2>1 DEF Newest
<1>11. Len(t2) >= 2 /\ t2[Len(t2)].key = A /\ t2[Len(t2) - 1].key = U
  <2>1. Newest(t1, A, t2)
    BY <1>3, <1>8, CountedIs
  <2>2. QED BY <1>1, <1>10, <2>1 DEF Newest
<1>12. /\ u \in Seq(Entries) /\ Within(u, t2)
       /\ Len(u) >= 2 /\ u[Len(u)].key = A /\ u[Len(u) - 1].key = U
  BY <1>4, <1>9, <1>11, FittedIs
<1>13. K \subseteq Held(u)
  <2>1. Len(u) \in DOMAIN u /\ Len(u) - 1 \in DOMAIN u
    BY <1>12
  <2>2. A \in Held(u)
    BY <1>12, <2>1 DEF Held
  <2>3. U \in Held(u)
    BY <1>12, <2>1 DEF Held
  <2>4. QED BY <1>1, <2>2, <2>3
<1>14. Left(u, g2, h)
  BY <1>6, <1>13 DEF Left, LeftBeside
<1>15. Covered(u, h)
  BY <1>7, <1>9, <1>12, <1>14, PartCovers
<1>16. QED BY <1>12, <1>13, <1>15

\* An attempt is counted in the step that lets it through.
LEMMA AttemptKeeps ==
  ASSUME PacedInv, NEW h \in Attempters, NEW n \in Names, NEW a \in Addresses, Attempt(h, n, a)
  PROVE  PacedInv'
<1>1. PICK K : K = {<<"user", n>>, <<"addr", a>>}
  OBVIOUS
<1>2. PICK now : now = Looked(Heard, K)
  OBVIOUS
<1>3. now \in Seq(Entries) /\ (~Reset => Covered(now, tried))
  BY <1>2, LookedNow
<1>4. tried \in [Keys -> Counts] /\ ask \in [Attempters -> Checking \union {NoRequest}]
  BY DEF PacedInv
<1>5. K \in Asked /\ K \subseteq Keys
  <2>1. <<"user", n>> \in Keys /\ <<"addr", a>> \in Keys
    BY BucketsAre
  <2>2. QED BY <1>1, <2>1 DEF Asked
<1>6. Within(now, now)
  BY DEF Within
<1>7. CASE \E k \in K : Waits(now, k)
  <2>1. entries' = now /\ ask' = ask /\ tried' = Forgotten(Dropped(now))
    BY <1>1, <1>2, <1>7 DEF Attempt
  <2>2. tried' \in [Keys -> Counts] /\ Covered(now, tried')
    BY <1>3, <1>6, <2>1, DroppedCovers
  <2>3. QED BY <1>3, <1>4, <2>1, <2>2 DEF PacedInv, Covered, Held, Of
<1>8. CASE ~\E k \in K : Waits(now, k)
  <2>1. PICK recent : recent = Selected(HeardChecks, {i \in DOMAIN HeardChecks : HeardChecks[i] < Minute})
    OBVIOUS
  <2>2. PICK pass \in BOOLEAN : pass <=> Len(recent) < PerMinute
    OBVIOUS
  <2>3. PICK u : u = Tallied(now, n, a)
    OBVIOUS
  <2>4. /\ entries' = u
        /\ ask' = IF pass THEN [ask EXCEPT ![h] = [at |-> "verify", keys |-> K, row |-> {}]] ELSE ask
        /\ tried' = [k \in Keys |-> IF k \in K /\ pass
                                   THEN [n |-> More(Forgotten(Dropped(now))[k].n, k), age |-> 0]
                                   ELSE Forgotten(Dropped(u) \ K)[k]]
    BY <1>1, <1>2, <1>8, <2>1, <2>2, <2>3 DEF Attempt
  <2>5. ask' \in [Attempters -> Checking \union {NoRequest}]
    <3>1. [at |-> "verify", keys |-> K, row |-> {}] \in Checking
      BY <1>5 DEF Checking
    <3>2. QED BY <1>4, <2>4, <3>1
  <2>6. Reset => pass
    <3>1. ASSUME Reset PROVE Len(recent) < PerMinute
      <4>1. HeardChecks = <<>>
        BY <3>1 DEF HeardChecks
      <4>2. PICK S : S = {i \in DOMAIN HeardChecks : HeardChecks[i] < Minute}
        OBVIOUS
      <4>3. S = {}
        BY <4>1, <4>2
      <4>4. PICK C : C = Cardinality(S) /\ C = 0
        BY <4>3, FS_EmptySet
      <4>5. recent = [i \in 1 .. C |-> HeardChecks[CHOOSE j \in S : Cardinality({m \in S : m <= j}) = i]]
        BY <2>1, <4>2, <4>4 DEF Selected
      <4>6. Len(recent) = 0
        BY <4>4, <4>5
      <4>7. QED BY <4>6, ThrottleAssumption
    <3>2. QED BY <2>2, <3>1
  <2>7. PICK f : f = Forgotten(Dropped(now)) /\ f \in [Keys -> Counts] /\ Covered(now, f)
    BY <1>3, <1>6, DroppedCovers
  <2>8. PICK e : e = Forgotten(Dropped(u) \ K) /\ e \in [Keys -> Counts]
                 /\ \A k \in Keys : e[k] = IF k \in Dropped(u) \ K THEN Never ELSE tried[k]
    BY <1>4, ForgottenIs
  <2>9. PICK g : g = [k \in Keys |-> IF k \in K /\ pass THEN f[k] ELSE IF Reset THEN Never ELSE tried[k]]
    OBVIOUS
  <2>10. Never \in Counts /\ Never.n = 0
    BY DEF Never, Counts
  <2>11. g \in [Keys -> Counts]
    BY <1>4, <2>7, <2>9, <2>10
  <2>12. Covered(now, g)
    <3>1. ASSUME NEW k \in Keys, g[k].n > 0
          PROVE  /\ g[k].age < Window /\ k \in Held(now)
                 /\ \A i \in Of(now, k) : g[k].n <= now[i].n /\ now[i].age <= g[k].age
      <4>1. CASE k \in K /\ pass
        <5>1. g[k] = f[k]
          BY <2>9, <4>1
        <5>2. QED BY <2>7, <3>1, <5>1 DEF Covered
      <4>2. CASE ~(k \in K /\ pass)
        <5>1. ~Reset /\ g[k] = tried[k]
          BY <2>9, <2>10, <3>1, <4>2
        <5>2. QED BY <1>3, <3>1, <5>1 DEF Covered
      <4>3. QED BY <4>1, <4>2
    <3>2. QED BY <3>1 DEF Covered
  <2>13. /\ tried' \in [Keys -> Counts]
         /\ \A k \in Keys : tried'[k] = IF k \in K /\ pass THEN [n |-> More(f[k].n, k), age |-> 0] ELSE e[k]
    <3>1. tried' = [k \in Keys |-> IF k \in K /\ pass THEN [n |-> More(f[k].n, k), age |-> 0] ELSE e[k]]
      BY <2>4, <2>7, <2>8
    <3>2. ASSUME NEW k \in Keys PROVE [n |-> More(f[k].n, k), age |-> 0] \in Counts
      <4>1. f[k].n \in Nat
        BY <2>7 DEF Counts
      <4>2. More(f[k].n, k) \in Nat
        BY <4>1, MoreGrows
      <4>3. QED BY <4>2 DEF Counts
    <3>3. QED BY <2>8, <3>1, <3>2
  <2>14. OneMore(K, g, tried')
    <3>1. ASSUME NEW k \in K PROVE tried'[k] = g[k] \/ tried'[k] = [n |-> More(g[k].n, k), age |-> 0]
      <4>1. k \in Keys
        BY <1>5
      <4>2. CASE pass
        BY <2>9, <2>13, <4>1, <4>2
      <4>3. CASE ~pass
        BY <2>6, <2>8, <2>9, <2>13, <4>1, <4>3
      <4>4. QED BY <4>2, <4>3
    <3>2. QED BY <3>1 DEF OneMore
  <2>15. LeftBeside(K, u, g, tried')
    <3>1. ASSUME NEW k \in Keys \ K, tried'[k].n # 0 PROVE tried'[k] = g[k] /\ k \in Held(u)
      <4>1. tried'[k] = e[k]
        BY <2>13
      <4>2. k \notin Dropped(u) /\ e[k] = tried[k]
        BY <2>8, <2>10, <3>1, <4>1
      <4>3. ~Reset /\ k \notin Held(entries) \ Held(u)
        BY <4>2 DEF Dropped
      <4>4. g[k] = tried[k]
        BY <2>9, <4>3
      <4>5. tried[k].n > 0
        <5>1. tried[k] \in Counts
          BY <1>4
        <5>2. QED BY <3>1, <4>1, <4>2, <5>1 DEF Counts
      <4>6. k \in Held(entries)
        BY <4>5 DEF PacedInv, Covered
      <4>7. QED BY <4>1, <4>2, <4>3, <4>4, <4>6
    <3>2. QED BY <3>1 DEF LeftBeside
  <2>16. u \in Seq(Entries) /\ Covered(u, tried')
    BY <1>1, <1>3, <2>3, <2>11, <2>12, <2>13, <2>14, <2>15, TalliedCovers
  <2>17. QED BY <2>4, <2>5, <2>13, <2>16 DEF PacedInv, Covered, Held, Of
<1>9. QED BY <1>7, <1>8

\* Nothing of the table, or what it covers, changes.
LEMMA SameTable ==
  ASSUME PacedInv, UNCHANGED <<entries, tried>>, ask' \in [Attempters -> Checking \union {NoRequest}]
  PROVE  PacedInv'
  BY DEF PacedInv, Covered, Held, Of

LEMMA ReserveCovers ==
  ASSUME PacedInv, NEW h \in Attempters, NEW n \in Names, NEW a \in Addresses, NEW d \in Rows, Reserve(h, n, a, d)
  PROVE  PacedInv'
<1>1. [at |-> "verify", keys |-> {<<"user", n>>, <<"addr", a>>}, row |-> {d}] \in Checking
  BY DEF Checking, Asked
<1>2. ask' \in [Attempters -> Checking \union {NoRequest}]
  BY <1>1 DEF Reserve, PacedInv
<1>3. QED BY <1>2, SameTable DEF Reserve, table

\* A check that comes to its end.
LEMMA DoneIs ==
  ASSUME PacedInv, NEW h \in Attempters, Verifying(h), Answered(h)
  PROVE  ask[h] \in Checking /\ ask' \in [Attempters -> Checking \union {NoRequest}]
<1>1. ask[h] \in Checking
  BY DEF PacedInv, Verifying, NoRequest
<1>2. QED BY <1>1 DEF PacedInv, Answered

LEMMA BusyCovers ==
  ASSUME PacedInv, NEW h \in Attempters, TooBusy(h)
  PROVE  PacedInv'
<1>1. Verifying(h) /\ Answered(h) /\ UNCHANGED <<entries, tried>>
  BY DEF TooBusy, table
<1>2. QED BY <1>1, DoneIs, SameTable

\* Buckets that are forgiven lose their entries and what they cover.
LEMMA RightCovers ==
  ASSUME PacedInv, NEW h \in Attempters, NEW kind, Right(h, kind)
  PROVE  PacedInv'
<1>1. /\ tried \in [Keys -> Counts] /\ entries \in Seq(Entries) /\ Covered(entries, tried)
  BY DEF PacedInv
<1>2. ask' \in [Attempters -> Checking \union {NoRequest}]
  BY DoneIs DEF Right
<1>3. PICK K : K = ask[h].keys
  OBVIOUS
<1>4. PICK S : S = {i \in DOMAIN entries : entries[i].key \notin K}
  OBVIOUS
<1>5. PICK u : u = Selected(entries, S)
  OBVIOUS
<1>6. entries' = u /\ tried' = Forgotten(K)
  BY <1>3, <1>4, <1>5 DEF Right
<1>7. S \in SUBSET (DOMAIN entries)
  BY <1>4
<1>8. /\ u \in Seq(Entries) /\ \A n \in 1 .. Len(u) : \E i \in S : u[n] = entries[i]
      /\ \A i \in S : Rank(S)[i] \in 1 .. Len(u) /\ u[Rank(S)[i]] = entries[i]
  BY <1>1, <1>5, <1>7, SelectedAre
<1>9. Within(u, entries)
  BY <1>7, <1>8 DEF Within
<1>10. /\ tried' \in [Keys -> Counts]
       /\ \A k \in Keys : tried'[k] = IF k \in K THEN Never ELSE tried[k]
       /\ \A k \in Keys : k \in K => tried'[k].n = 0
  BY <1>1, <1>6, ForgottenIs
<1>11. ASSUME NEW k \in Keys, tried'[k].n # 0 PROVE tried'[k] = tried[k] /\ k \in Held(u)
  <2>1. k \notin K /\ tried'[k] = tried[k]
    BY <1>10, <1>11
  <2>2. tried[k].n > 0
    <3>1. tried[k] \in Counts
      BY <1>1
    <3>2. QED BY <1>11, <2>1, <3>1 DEF Counts
  <2>3. PICK i \in DOMAIN entries : entries[i].key = k
    BY <1>1, <2>2 DEF Covered, Held
  <2>4. i \in S
    BY <1>4, <2>1, <2>3
  <2>5. PICK n \in 1 .. Len(u) : u[n] = entries[i]
    BY <1>8, <2>4
  <2>6. n \in DOMAIN u
    BY <1>8
  <2>7. QED BY <2>1, <2>3, <2>5, <2>6 DEF Held
<1>12. Left(u, tried, tried')
  BY <1>11 DEF Left
<1>13. Covered(u, tried')
  BY <1>1, <1>9, <1>10, <1>12, PartCovers
<1>14. QED BY <1>2, <1>6, <1>8, <1>10, <1>13 DEF PacedInv, Covered, Held, Of

\* One more failure, with the oldest dropped: what is still held is covered.
LEMMA FittedCovers ==
  ASSUME NEW t \in Seq(Entries), NEW k \in Keys, NEW u, u = Fitted(Counted(t, k)),
         NEW g \in [Keys -> Counts], Covered(t, g),
         NEW h \in [Keys -> Counts], Left(u, g, h)
  PROVE  u \in Seq(Entries) /\ Covered(u, h)
<1>1. PICK v : v = Counted(t, k)
  OBVIOUS
<1>2. v \in Seq(Entries) /\ Covered(v, g)
  BY <1>1, CountedCovers
<1>3. u \in Seq(Entries) /\ Within(u, v)
  BY <1>1, <1>2, FittedIs
<1>4. QED BY <1>2, <1>3, PartCovers

\* A wrong password through a known device counts in both buckets.
LEMMA WrongCovers ==
  ASSUME PacedInv, NEW h \in Attempters, Wrong(h)
  PROVE  PacedInv'
<1>1. /\ tried \in [Keys -> Counts] /\ entries \in Seq(Entries) /\ Covered(entries, tried)
  BY DEF PacedInv
<1>2. ask[h] \in Checking /\ ask' \in [Attempters -> Checking \union {NoRequest}]
  BY DoneIs DEF Wrong
<1>3. CASE ask[h].row = {}
  <2>1. UNCHANGED <<entries, tried>>
    BY <1>3 DEF Wrong
  <2>2. QED BY <1>2, <2>1, SameTable
<1>4. CASE ask[h].row # {}
  <2>1. PICK n \in Names, a \in Addresses : ask[h].keys = {<<"user", n>>, <<"addr", a>>}
    BY <1>2 DEF Checking, Asked
  <2>2. PICK U : U = CHOOSE k \in ask[h].keys : k[1] = "user"
    OBVIOUS
  <2>3. PICK A : A = CHOOSE k \in ask[h].keys : k[1] = "addr"
    OBVIOUS
  <2>4. U = <<"user", n>> /\ A = <<"addr", a>> /\ U \in Keys /\ A \in Keys
    <3>1. \A k \in ask[h].keys : (k[1] = "user" => k = <<"user", n>>) /\ (k[1] = "addr" => k = <<"addr", a>>)
      BY <2>1
    <3>2. <<"user", n>> \in ask[h].keys /\ <<"user", n>>[1] = "user"
      BY <2>1
    <3>3. <<"addr", a>> \in ask[h].keys /\ <<"addr", a>>[1] = "addr"
      BY <2>1
    <3>4. U = <<"user", n>>
      BY <2>2, <3>1, <3>2
    <3>5. A = <<"addr", a>>
      BY <2>3, <3>1, <3>3
    <3>6. QED BY <3>4, <3>5, BucketsAre
  <2>5. PICK mid : mid = Fitted(Counted(entries, U))
    OBVIOUS
  <2>6. PICK D : D = (Held(entries) \ Held(mid)) \union (Held(mid) \ Held(entries'))
    OBVIOUS
  <2>7. entries' = Fitted(Counted(mid, A)) /\ tried' = Forgotten(D)
    BY <1>4, <2>2, <2>3, <2>5, <2>6 DEF Wrong
  <2>8. PICK g : g = Forgotten(Held(entries) \ Held(mid))
    OBVIOUS
  <2>9. g \in [Keys -> Counts] /\ \A k \in Keys : g[k] = IF k \in Held(entries) \ Held(mid) THEN Never ELSE tried[k]
    BY <1>1, <2>8, ForgottenIs
  <2>10. tried' \in [Keys -> Counts] /\ \A k \in Keys : tried'[k] = IF k \in D THEN Never ELSE tried[k]
    BY <1>1, <2>7, ForgottenIs
  <2>11. Never.n = 0
    BY DEF Never
  <2>12. \A k \in Keys : tried[k].n # 0 => k \in Held(entries)
    <3>1. ASSUME NEW k \in Keys, tried[k].n # 0 PROVE k \in Held(entries)
      <4>1. tried[k] \in Counts
        BY <1>1
      <4>2. tried[k].n > 0
        BY <3>1, <4>1 DEF Counts
      <4>3. QED BY <1>1, <4>2 DEF Covered
    <3>2. QED BY <3>1
  <2>13. Left(mid, tried, g)
    BY <2>9, <2>11, <2>12 DEF Left
  <2>14. mid \in Seq(Entries) /\ Covered(mid, g)
    BY <1>1, <2>4, <2>5, <2>9, <2>13, FittedCovers
  <2>15. Left(entries', g, tried')
    BY <2>6, <2>9, <2>10, <2>11, <2>12 DEF Left
  <2>16. entries' \in Seq(Entries) /\ Covered(entries', tried')
    BY <2>4, <2>7, <2>9, <2>10, <2>14, <2>15, FittedCovers
  <2>17. QED BY <1>2, <2>10, <2>16 DEF PacedInv, Covered, Held, Of
<1>5. QED BY <1>3, <1>4

\* A wrong setup code counts in its own bucket.
LEMMA SetupCovers ==
  ASSUME PacedInv, NEW a \in Addresses, SetupWrong(a)
  PROVE  PacedInv'
<1>1. tried \in [Keys -> Counts] /\ ask \in [Attempters -> Checking \union {NoRequest}]
  BY DEF PacedInv
<1>2. PICK k \in Keys : k = <<"setup", a>>
  BY DEF Keys
<1>3. PICK now : now = Looked(Heard, {k})
  OBVIOUS
<1>4. now \in Seq(Entries) /\ (~Reset => Covered(now, tried))
  BY <1>3, LookedNow
<1>5. /\ entries' = IF Waits(now, k) THEN now ELSE Fitted(Counted(now, k))
      /\ tried' = Forgotten(Dropped(entries')) /\ ask' = ask
  BY <1>2, <1>3 DEF SetupWrong
<1>6. CASE Waits(now, k)
  <2>1. Within(now, now)
    BY DEF Within
  <2>2. tried' \in [Keys -> Counts] /\ Covered(now, tried')
    BY <1>4, <1>5, <1>6, <2>1, DroppedCovers
  <2>3. QED BY <1>1, <1>4, <1>5, <1>6, <2>2 DEF PacedInv, Covered, Held, Of
<1>7. CASE ~Waits(now, k)
  <2>1. PICK v : v = Counted(now, k)
    OBVIOUS
  <2>2. PICK u : u = Fitted(v) /\ entries' = u
    BY <1>5, <1>7, <2>1
  <2>3. v \in Seq(Entries)
    <3>1. Newest(now, k, v)
      BY <1>4, <2>1, CountedIs
    <3>2. QED BY <3>1 DEF Newest
  <2>4. ~Reset => Covered(v, tried)
    BY <1>1, <1>4, <2>1, CountedCovers
  <2>5. u \in Seq(Entries) /\ Within(u, v)
    BY <2>2, <2>3, FittedIs
  <2>6. tried' \in [Keys -> Counts] /\ Covered(u, tried')
    BY <1>5, <2>2, <2>4, <2>5, DroppedCovers
  <2>7. QED BY <1>1, <1>5, <2>2, <2>5, <2>6 DEF PacedInv, Covered, Held, Of
<1>8. QED BY <1>6, <1>7

LEMMA RestartCovers ==
  ASSUME PacedInv, Restart
  PROVE  PacedInv'
<1>1. entries' \in Seq(Entries) /\ ask' \in [Attempters -> Checking \union {NoRequest}]
  BY DEF Restart
<1>2. tried' \in [Keys -> Counts] /\ \A k \in Keys : k \in Keys => tried'[k].n = 0
  BY ForgottenIs DEF Restart, PacedInv
<1>3. Covered(entries', tried')
  BY <1>2 DEF Covered
<1>4. QED BY <1>1, <1>2, <1>3 DEF PacedInv, Covered, Held, Of

\* Entries and what they cover grow old together.
LEMMA TimeCovers ==
  ASSUME PacedInv, TimePasses
  PROVE  PacedInv'
<1>1. Window \in Nat \ {0}
  BY ThrottleAssumption
<1>2. /\ tried \in [Keys -> Counts] /\ entries \in Seq(Entries) /\ Covered(entries, tried)
      /\ ask' \in [Attempters -> Checking \union {NoRequest}]
  BY DEF PacedInv, TimePasses
<1>3. PICK u : u = entries'
  OBVIOUS
<1>4. u = [i \in DOMAIN entries |-> [entries[i] EXCEPT !.age = MinOf(entries[i].age + 1, Window)]]
  BY <1>3 DEF TimePasses
<1>5. ASSUME NEW i \in DOMAIN entries
      PROVE  /\ u[i] \in Entries /\ u[i].key = entries[i].key /\ u[i].n = entries[i].n
             /\ u[i].age <= entries[i].age + 1
  <2>1. entries[i] \in Entries
    BY <1>2
  <2>2. MinOf(entries[i].age + 1, Window) \in Nat /\ MinOf(entries[i].age + 1, Window) <= entries[i].age + 1
    BY <1>1, <2>1 DEF MinOf, Entries
  <2>3. u[i] = [entries[i] EXCEPT !.age = MinOf(entries[i].age + 1, Window)]
    BY <1>4
  <2>4. QED BY <2>1, <2>2, <2>3 DEF Entries
<1>6. u \in Seq(Entries) /\ DOMAIN u = DOMAIN entries
  <2>1. DOMAIN entries = 1 .. Len(entries) /\ Len(entries) \in Nat
    BY <1>2
  <2>2. u \in [1 .. Len(entries) -> Entries]
    BY <1>4, <1>5, <2>1
  <2>3. QED BY <2>1, <2>2
<1>7. ASSUME NEW k \in Keys
      PROVE  tried'[k] = IF tried[k].age + 1 >= Window THEN Never
                         ELSE [tried[k] EXCEPT !.age = IF tried[k] = Never THEN 0 ELSE tried[k].age + 1]
  BY DEF TimePasses
<1>8. ASSUME NEW k \in Keys PROVE tried'[k] \in Counts
  <2>1. tried[k] \in Counts /\ tried[k].age + 1 \in Nat /\ Never \in Counts
    BY <1>2 DEF Counts, Never
  <2>2. PICK x \in Nat : x = IF tried[k] = Never THEN 0 ELSE tried[k].age + 1
    BY <2>1
  <2>3. [tried[k] EXCEPT !.age = x] \in Counts
    BY <2>1 DEF Counts
  <2>4. tried'[k] = IF tried[k].age + 1 >= Window THEN Never ELSE [tried[k] EXCEPT !.age = x]
    BY <1>7, <2>2
  <2>5. CASE tried[k].age + 1 >= Window
    BY <2>1, <2>4, <2>5
  <2>6. CASE ~(tried[k].age + 1 >= Window)
    BY <2>3, <2>4, <2>6
  <2>7. QED BY <2>5, <2>6
<1>9. tried' \in [Keys -> Counts]
  BY <1>8 DEF TimePasses
<1>10. ASSUME NEW k \in Keys, tried'[k].n > 0
       PROVE  /\ tried'[k].age < Window /\ k \in Held(u)
              /\ \A i \in Of(u, k) : tried'[k].n <= u[i].n /\ u[i].age <= tried'[k].age
  <2>1. tried[k] \in Counts /\ Never.n = 0
    BY <1>2 DEF Never
  <2>2. ~(tried[k].age + 1 >= Window)
    <3>1. ASSUME tried[k].age + 1 >= Window PROVE FALSE
      <4>1. tried'[k] = Never
        BY <1>7, <3>1
      <4>2. QED BY <1>10, <2>1, <4>1
    <3>2. QED BY <3>1
  <2>3. tried'[k] = [tried[k] EXCEPT !.age = IF tried[k] = Never THEN 0 ELSE tried[k].age + 1]
    BY <1>7, <2>2
  <2>4. tried'[k].n = tried[k].n
    BY <2>1, <2>3 DEF Counts
  <2>5. tried[k] # Never
    BY <1>10, <2>1, <2>4
  <2>6. tried'[k].age = tried[k].age + 1
    BY <2>1, <2>3, <2>5 DEF Counts
  <2>7. /\ k \in Held(entries)
        /\ \A i \in Of(entries, k) : tried[k].n <= entries[i].n /\ entries[i].age <= tried[k].age
    BY <1>2, <1>10, <2>4 DEF Covered
  <2>8. tried'[k].age < Window
    BY <1>1, <2>1, <2>2, <2>6 DEF Counts
  <2>9. k \in Held(u)
    BY <1>5, <1>6, <2>7 DEF Held
  <2>10. ASSUME NEW i \in Of(u, k) PROVE tried'[k].n <= u[i].n /\ u[i].age <= tried'[k].age
    <3>1. i \in DOMAIN entries /\ i \in Of(entries, k)
      BY <1>5, <1>6 DEF Of
    <3>2. entries[i] \in Entries /\ u[i] \in Entries
      BY <1>2, <1>5, <3>1
    <3>3. u[i].n = entries[i].n /\ u[i].age <= entries[i].age + 1 /\ entries[i].age <= tried[k].age /\ tried[k].n <= entries[i].n
      BY <1>5, <2>7, <3>1
    <3>4. entries[i].age \in Nat /\ u[i].age \in Nat /\ tried[k].age \in Nat
      BY <2>1, <3>2 DEF Entries, Counts
    <3>5. QED BY <2>4, <2>6, <3>3, <3>4
  <2>11. QED BY <2>8, <2>9, <2>10
<1>11. Covered(u, tried')
  BY <1>10 DEF Covered
<1>12. QED BY <1>2, <1>3, <1>6, <1>9, <1>11 DEF PacedInv, Covered, Held, Of

LEMMA PacedStep ==
  ASSUME PacedInv, [ThrottleNext]_throttle
  PROVE  PacedInv'
<1>1. CASE RequestReset \/ UNCHANGED throttle
  <2>1. UNCHANGED <<entries, tried, ask>>
    BY <1>1 DEF RequestReset, throttle, table
  <2>2. ask' \in [Attempters -> Checking \union {NoRequest}]
    BY <2>1 DEF PacedInv
  <2>3. QED BY <2>1, <2>2, SameTable
<1>2. CASE ThrottleNext /\ ~RequestReset
  BY <1>2, AttemptKeeps, ReserveCovers, RightCovers, WrongCovers, BusyCovers, SetupCovers, RestartCovers, TimeCovers
     DEF ThrottleNext
<1>3. QED BY <1>1, <1>2

\* In every reachable state the table counts all that was let through and is
\* not forgotten, no longer ago (auth/throttle.py).
THEOREM PacedInvHolds == ThrottleSpec => []PacedInv
  BY InitPaced, PacedStep, PTL DEF ThrottleSpec

\* However many attempts are under way at once, past the free ones each waits
\* out the delay after the one before it (throttle.attempt).
THEOREM AttemptsArePaced == ThrottleSpec => Paced
<1>1. ASSUME PacedInv, [ThrottleNext]_throttle, NEW h \in Attempters,
             ask[h] = NoRequest, ask'[h].at = "verify", ask'[h].row = {}, ~Reset,
             NEW k \in ask'[h].keys, tried[k].n >= FreeTries[k[1]]
      PROVE  tried[k].age >= Delay(k, tried[k].n)
  <2>1. NoRequest.at # "verify" /\ ask \in [Attempters -> Checking \union {NoRequest}]
    BY <1>1 DEF NoRequest, PacedInv
  <2>2. ask'[h] # ask[h]
    BY <1>1, <2>1
  <2>3. ~\E g \in Attempters : Verifying(g) /\ Answered(g)
    <3>1. ASSUME NEW g \in Attempters, Answered(g) PROVE ask'[h] = ask[h] \/ ask'[h] = NoRequest
      BY <2>1, <3>1 DEF Answered
    <3>2. QED BY <1>1, <2>1, <2>2, <3>1
  <2>4. ~UNCHANGED throttle /\ ~RequestReset /\ ~TimePasses /\ \A a \in Addresses : ~SetupWrong(a)
    BY <2>2 DEF throttle, RequestReset, TimePasses, SetupWrong
  <2>5. ~Restart
    BY <1>1, <2>1 DEF Restart
  <2>6. ASSUME NEW g \in Attempters, NEW n \in Names, NEW a \in Addresses, NEW d \in Rows, Reserve(g, n, a, d)
        PROVE  FALSE
    <3>1. ask'[h] = ask[h] \/ ask'[h].row = {d}
      BY <2>1, <2>6 DEF Reserve
    <3>2. QED BY <1>1, <2>2, <3>1
  <2>7. PICK g \in Attempters, n \in Names, a \in Addresses : Attempt(g, n, a)
    BY <1>1, <2>3, <2>4, <2>5, <2>6 DEF ThrottleNext, Right, Wrong, TooBusy
  <2>8. PICK K : K = {<<"user", n>>, <<"addr", a>>}
    OBVIOUS
  <2>9. PICK now : now = Looked(Heard, K)
    OBVIOUS
  <2>10. K \subseteq Keys
    BY <2>8, BucketsAre
  <2>11. (\A j \in K : ~Waits(now, j)) /\ ask'[h].keys = K
    <3>1. ASSUME \E j \in K : Waits(now, j) PROVE FALSE
      <4>1. ask' = ask
        BY <2>7, <2>8, <2>9, <3>1 DEF Attempt
      <4>2. QED BY <2>2, <4>1
    <3>2. ask' = ask \/ ask' = [ask EXCEPT ![g] = [at |-> "verify", keys |-> K, row |-> {}]]
      BY <2>7, <2>8, <2>9, <3>1 DEF Attempt
    <3>3. ask'[h].keys = K
      BY <2>1, <2>2, <3>2
    <3>4. QED BY <3>1, <3>3
  <2>12. k \in K /\ k \in Keys
    BY <1>1, <2>10, <2>11
  <2>13. now \in Seq(Entries) /\ Covered(now, tried) /\ tried \in [Keys -> Counts]
    BY <1>1, <2>9, LookedNow DEF PacedInv
  <2>14. tried[k].n > 0 /\ tried[k].n \in Nat /\ tried[k].age \in Nat
    <3>1. tried[k] \in Counts /\ FreeTries[k[1]] \in Nat \ {0}
      BY <2>12, <2>13, KindIs
    <3>2. QED BY <1>1, <3>1 DEF Counts
  <2>15. PICK i \in Of(now, k) : now[i].age <= tried[k].age
    BY <2>12, <2>13, <2>14 DEF Covered, Held, Of
  <2>16. PICK F \in Nat : F = Failures(now, k) /\ tried[k].n <= F
    BY <2>12, <2>13, FailuresCover
  <2>17. Delay(k, F) \in Nat /\ Delay(k, tried[k].n) \in Nat /\ Delay(k, tried[k].n) <= Delay(k, F)
    BY <2>12, <2>14, <2>16, DelayGrows
  <2>18. ~(now[i].age < Delay(k, F)) /\ now[i].age \in Nat
    <3>1. ~(now[i].age < Delay(k, F))
      BY <2>11, <2>12, <2>16 DEF Waits
    <3>2. now[i] \in Entries
      BY <2>13 DEF Of
    <3>3. QED BY <3>1, <3>2 DEF Entries
  <2>19. QED BY <2>14, <2>15, <2>17, <2>18
<1>2. ASSUME PacedInv, [ThrottleNext]_throttle
      PROVE  \A h \in Attempters :
               ask[h] = NoRequest /\ ask'[h].at = "verify" /\ ask'[h].row = {} /\ ~Reset =>
                 \A k \in ask'[h].keys : tried[k].n >= FreeTries[k[1]] => tried[k].age >= Delay(k, tried[k].n)
  BY <1>1, <1>2
<1>3. QED BY <1>2, PacedInvHolds, PTL DEF ThrottleSpec, Paced

-----------------------------------------------------------------------------
(* Who goes when the table is full (Throttle).                             *)

\* The table has the entries in the order of their last failures, one of a key.
Orderly(t) ==
  /\ t \in Seq(Entries)
  /\ \A i, j \in DOMAIN t : i < j => t[j].age <= t[i].age /\ t[i].key # t[j].key
OrderInv == PacedInv /\ Orderly(entries)

HasEntry(t, e) == \E i \in DOMAIN t : t[i] = e
\* A full table in which nothing failed longer ago.
FullOfLater(t, e) == Len(t) = MaxKeys /\ \A i \in DOMAIN t : t[i].age <= e.age

LEMMA SelectedInOrder ==
  ASSUME NEW t, Orderly(t), NEW S \in SUBSET (DOMAIN t)
  PROVE  Orderly(Selected(t, S)) /\ \A i \in S : HasEntry(Selected(t, S), t[i])
<1>1. PICK u : u = Selected(t, S)
  OBVIOUS
<1>2. PICK L \in Nat : L = Len(t) /\ DOMAIN t = 1 .. L /\ t \in Seq(Entries) /\ S \in SUBSET (1 .. L)
  BY DEF Orderly
<1>3. PICK C \in Nat : C = Cardinality(S)
  BY <1>2, PlacesAre
<1>4. /\ u \in Seq(Entries) /\ Len(u) = C /\ DOMAIN u = 1 .. C
      /\ \A i \in S : Rank(S)[i] \in 1 .. C /\ u[Rank(S)[i]] = t[i]
  <2>1. u \in Seq(Entries) /\ Len(u) = C /\ \A i \in S : Rank(S)[i] \in 1 .. Len(u) /\ u[Rank(S)[i]] = t[i]
    BY <1>1, <1>2, <1>3, SelectedAre
  <2>2. DOMAIN u = 1 .. C
    BY <2>1
  <2>3. QED BY <2>1, <2>2
<1>5. ASSUME NEW m \in DOMAIN u, NEW n \in DOMAIN u, m < n
      PROVE  u[n].age <= u[m].age /\ u[m].key # u[n].key
  <2>1. PICK i \in S : Rank(S)[i] = m
    BY <1>2, <1>3, <1>4, EachPlaceIs
  <2>2. PICK j \in S : Rank(S)[j] = n
    BY <1>2, <1>3, <1>4, EachPlaceIs
  <2>3. i < j
    BY <1>2, <1>5, <2>1, <2>2, RankGrows
  <2>4. u[m] = t[i] /\ u[n] = t[j]
    BY <1>4, <2>1, <2>2
  <2>5. QED BY <1>2, <2>3, <2>4 DEF Orderly
<1>6. \A i \in S : HasEntry(u, t[i])
  BY <1>4 DEF HasEntry
<1>7. Orderly(u)
  BY <1>4, <1>5 DEF Orderly
<1>8. QED BY <1>1, <1>6, <1>7

\* What is counted is the newest; the others stay, in their order.
LEMMA CountedInOrder ==
  ASSUME NEW t, Orderly(t), NEW k \in Keys, NEW u, u = Counted(t, k)
  PROVE  /\ Orderly(u) /\ Len(u) >= Len(t) /\ k \in Held(u)
         /\ \A j \in DOMAIN t : t[j].key # k => HasEntry(u, t[j])
         /\ \A i \in DOMAIN u : u[i].age = 0 \/ \E j \in DOMAIN t : u[i] = t[j]
<1>1. PICK S : S = DOMAIN t \ Of(t, k)
  OBVIOUS
<1>2. S = {i \in DOMAIN t : t[i].key # k}
  BY <1>1 DEF Of
<1>3. PICK v : v = Selected(t, S)
  OBVIOUS
<1>4. Orderly(v) /\ v \in Seq(Entries) /\ Len(v) \in Nat
  <2>1. Orderly(v)
    BY <1>1, <1>3, SelectedInOrder
  <2>2. v \in Seq(Entries)
    BY <2>1 DEF Orderly
  <2>3. QED BY <2>1, <2>2
<1>5. Newest(t, k, u) /\ t \in Seq(Entries)
  BY CountedIs DEF Orderly
<1>6. PICK e : u = Append(v, e)
  BY <1>1, <1>3 DEF Counted, Others
<1>7. u \in Seq(Entries) /\ Len(u) = Len(v) + 1 /\ DOMAIN u = 1 .. Len(v) + 1
      /\ \A i \in 1 .. Len(v) : u[i] = v[i]
  <2>1. u \in Seq(Entries)
    BY <1>5 DEF Newest
  <2>2. QED BY <1>4, <1>6, <2>1
<1>8. u[Len(u)].key = k /\ u[Len(u)].age = 0 /\ \A i \in 1 .. Len(v) : u[i].key # k
  <2>1. Len(u) - 1 = Len(v)
    BY <1>4, <1>7
  <2>2. QED BY <1>5, <2>1 DEF Newest
<1>9. ASSUME NEW i \in DOMAIN u, NEW j \in DOMAIN u, i < j
      PROVE  u[j].age <= u[i].age /\ u[i].key # u[j].key
  <2>1. i \in 1 .. Len(v) /\ u[i] = v[i] /\ v[i] \in Entries
    BY <1>4, <1>7, <1>9
  <2>2. CASE j \in 1 .. Len(v)
    <3>1. i \in DOMAIN v /\ j \in DOMAIN v /\ u[j] = v[j]
      BY <1>4, <1>7, <2>1, <2>2
    <3>2. QED BY <1>4, <1>9, <2>1, <3>1 DEF Orderly
  <2>3. CASE j \notin 1 .. Len(v)
    <3>1. j = Len(u)
      BY <1>4, <1>7, <2>3
    <3>2. v[i].age \in Nat
      BY <2>1 DEF Entries
    <3>3. QED BY <1>8, <2>1, <3>1, <3>2
  <2>4. QED BY <2>2, <2>3
<1>10. Orderly(u)
  BY <1>7, <1>9 DEF Orderly
<1>11. k \in Held(u)
  <2>1. Len(u) \in DOMAIN u
    BY <1>4, <1>7
  <2>2. QED BY <1>8, <2>1 DEF Held
<1>12. ASSUME NEW j \in DOMAIN t, t[j].key # k PROVE HasEntry(u, t[j])
  <2>1. PICK i \in 1 .. Len(u) - 1 : u[i] = t[j]
    BY <1>5, <1>12 DEF Newest
  <2>2. i \in DOMAIN u
    BY <1>4, <1>7
  <2>3. QED BY <2>1, <2>2 DEF HasEntry
<1>13. ASSUME NEW i \in DOMAIN u PROVE u[i].age = 0 \/ \E j \in DOMAIN t : u[i] = t[j]
  <2>1. CASE i = Len(u)
    BY <1>8, <2>1
  <2>2. CASE i # Len(u)
    <3>1. i \in 1 .. Len(u) - 1
      BY <1>4, <1>7, <2>2
    <3>2. QED BY <1>5, <3>1 DEF Newest
  <2>3. QED BY <2>1, <2>2
<1>14. Len(u) >= Len(t)
  <2>1. PICK D : D = DOMAIN t /\ D = 1 .. Len(t) /\ Len(t) \in Nat
    BY <1>5
  <2>2. IsFiniteSet(D) /\ Cardinality(D) = Len(t)
    BY <2>1, FS_Interval
  <2>3. Len(v) = Cardinality(S)
    BY <1>1, <1>3, <1>5, SelectedAre
  <2>4. CASE Of(t, k) = {}
    BY <1>1, <1>4, <1>7, <2>1, <2>2, <2>3, <2>4
  <2>5. CASE Of(t, k) # {}
    <3>1. PICK i \in DOMAIN t : t[i].key = k
      BY <2>5 DEF Of
    <3>2. ASSUME NEW j \in DOMAIN t, t[j].key = k PROVE j = i
      <4>1. ~(i < j) /\ ~(j < i)
        BY <3>1, <3>2 DEF Orderly
      <4>2. i \in Nat /\ j \in Nat
        BY <2>1
      <4>3. QED BY <4>1, <4>2
    <3>3. S = D \ {i}
      BY <1>2, <2>1, <3>1, <3>2
    <3>4. Cardinality(S) = Len(t) - 1
      BY <2>1, <2>2, <3>1, <3>3, FS_RemoveElement
    <3>5. QED BY <1>4, <1>7, <2>1, <2>3, <3>4
  <2>6. QED BY <2>4, <2>5
<1>15. QED BY <1>10, <1>11, <1>12, <1>13, <1>14

\* A table too long loses what failed longest ago.
LEMMA FittedInOrder ==
  ASSUME NEW t, Orderly(t), NEW u, u = Fitted(t)
  PROVE  /\ Orderly(u) /\ (Len(t) >= MaxKeys => Len(u) = MaxKeys)
         /\ \A j \in DOMAIN t : HasEntry(u, t[j]) \/ FullOfLater(u, t[j])
         /\ \A i \in DOMAIN u : \E j \in DOMAIN t : u[i] = t[j]
         /\ Len(t) # 0 => t[Len(t)].key \in Held(u)
<1>1. MaxKeys \in Nat /\ MaxKeys >= 2 /\ Len(t) \in Nat /\ t \in Seq(Entries) /\ DOMAIN t = 1 .. Len(t)
  BY ThrottleAssumption DEF Orderly
<1>2. PICK L \in Nat, M \in Nat : L = Len(t) /\ M = MaxKeys /\ M >= 2
  BY <1>1
<1>3. CASE Len(t) <= MaxKeys
  <2>1. u = t
    BY <1>1, <1>3 DEF Fitted
  <2>2. ASSUME Len(t) # 0 PROVE t[Len(t)].key \in Held(t)
    <3>1. PICK m \in DOMAIN t : m = Len(t)
      BY <1>1, <2>2
    <3>2. t[m].key \in Held(t)
      BY <3>1 DEF Held
    <3>3. QED BY <3>1, <3>2
  <2>3. Len(t) >= MaxKeys => Len(t) = MaxKeys
    BY <1>3, <1>2
  <2>4. \A j \in DOMAIN t : HasEntry(t, t[j])
    BY DEF HasEntry
  <2>5. \A i \in DOMAIN t : \E j \in DOMAIN t : t[i] = t[j]
    OBVIOUS
  <2>6. Orderly(u) /\ (Len(t) >= MaxKeys => Len(u) = MaxKeys) /\ (Len(t) # 0 => t[Len(t)].key \in Held(u))
    BY <2>1, <2>2, <2>3
  <2>7. \A j \in DOMAIN t : HasEntry(u, t[j]) \/ FullOfLater(u, t[j])
    BY <2>1, <2>4
  <2>8. \A i \in DOMAIN u : \E j \in DOMAIN t : u[i] = t[j]
    BY <2>1, <2>5
  <2>9. QED BY <2>6, <2>7, <2>8
<1>4. CASE Len(t) > MaxKeys
  <2>1. PICK m \in 1 .. Len(t) : m = Len(t) - MaxKeys
    <3>1. L - M \in 1 .. L
      BY <1>4, <1>2
    <3>2. QED BY <1>2, <3>1
  <2>2. u = SubSeq(t, m + 1, Len(t))
    BY <1>4, <2>1 DEF Fitted
  <2>3. u \in Seq(Entries) /\ Len(u) = MaxKeys /\ DOMAIN u = 1 .. MaxKeys /\ \A i \in 1 .. MaxKeys : u[i] = t[m + i]
    BY <1>1, <2>1, <2>2
  <2>4. ASSUME NEW i \in DOMAIN u PROVE m + i \in DOMAIN t /\ u[i] = t[m + i] /\ m < m + i
    BY <1>1, <2>1, <2>3
  <2>5. ASSUME NEW i \in DOMAIN u, NEW j \in DOMAIN u, i < j PROVE u[j].age <= u[i].age /\ u[i].key # u[j].key
    <3>1. m + i < m + j
      BY <2>1, <2>3, <2>5
    <3>2. QED BY <2>4, <3>1 DEF Orderly
  <2>6. Orderly(u)
    BY <2>3, <2>5 DEF Orderly
  <2>7. ASSUME NEW j \in DOMAIN t PROVE HasEntry(u, t[j]) \/ FullOfLater(u, t[j])
    <3>1. CASE j <= m
      <4>1. ASSUME NEW i \in DOMAIN u PROVE u[i].age <= t[j].age
        <5>1. j < m + i
          BY <1>1, <2>1, <2>4, <3>1
        <5>2. QED BY <2>4, <5>1 DEF Orderly
      <4>2. QED BY <2>3, <4>1 DEF FullOfLater
    <3>2. CASE j > m
      <4>1. j - m \in DOMAIN u /\ m + (j - m) = j
        BY <1>1, <2>1, <2>3, <3>2
      <4>2. u[j - m] = t[j]
        BY <2>4, <4>1
      <4>3. QED BY <4>1, <4>2 DEF HasEntry
    <3>3. QED BY <1>1, <2>1, <3>1, <3>2
  <2>8. t[Len(t)].key \in Held(u)
    <3>1. MaxKeys \in DOMAIN u /\ m + MaxKeys = Len(t)
      BY <1>1, <2>1, <2>3
    <3>2. u[MaxKeys] = t[Len(t)]
      BY <2>4, <3>1
    <3>3. QED BY <3>1, <3>2 DEF Held
  <2>9. \A i \in DOMAIN u : \E j \in DOMAIN t : u[i] = t[j]
    BY <2>4
  <2>10. QED BY <2>3, <2>6, <2>7, <2>8, <2>9
<1>5. QED BY <1>1, <1>3, <1>4

\* One failure: its key is there, and what is not went as the oldest.
LEMMA OneFailure ==
  ASSUME NEW t, Orderly(t), NEW k \in Keys, NEW u, u = Fitted(Counted(t, k))
  PROVE  /\ Orderly(u) /\ k \in Held(u) /\ (Len(t) = MaxKeys => Len(u) = MaxKeys)
         /\ \A j \in DOMAIN t : t[j].key # k => HasEntry(u, t[j]) \/ FullOfLater(u, t[j])
         /\ \A i \in DOMAIN u : u[i].age = 0 \/ \E j \in DOMAIN t : u[i] = t[j]
<1>1. PICK v : v = Counted(t, k)
  OBVIOUS
<1>2. /\ Orderly(v) /\ Len(v) >= Len(t) /\ k \in Held(v)
      /\ \A j \in DOMAIN t : t[j].key # k => HasEntry(v, t[j])
      /\ \A i \in DOMAIN v : v[i].age = 0 \/ \E j \in DOMAIN t : v[i] = t[j]
  BY <1>1, CountedInOrder
<1>3. /\ Orderly(u) /\ (Len(v) >= MaxKeys => Len(u) = MaxKeys)
      /\ \A j \in DOMAIN v : HasEntry(u, v[j]) \/ FullOfLater(u, v[j])
      /\ \A i \in DOMAIN u : \E j \in DOMAIN v : u[i] = v[j]
      /\ Len(v) # 0 => v[Len(v)].key \in Held(u)
  BY <1>1, <1>2, FittedInOrder
<1>4. v[Len(v)].key = k /\ Len(v) # 0
  <2>1. Newest(t, k, v)
    BY <1>1, CountedIs DEF Orderly
  <2>2. QED BY <2>1 DEF Newest
<1>5. ASSUME NEW j \in DOMAIN t, t[j].key # k PROVE HasEntry(u, t[j]) \/ FullOfLater(u, t[j])
  <2>1. PICK i \in DOMAIN v : v[i] = t[j]
    BY <1>2, <1>5 DEF HasEntry
  <2>2. HasEntry(u, v[i]) \/ FullOfLater(u, v[i])
    BY <1>3
  <2>3. QED BY <2>1, <2>2
<1>6. \A i \in DOMAIN u : u[i].age = 0 \/ \E j \in DOMAIN t : u[i] = t[j]
  <2>1. ASSUME NEW i \in DOMAIN u PROVE u[i].age = 0 \/ \E j \in DOMAIN t : u[i] = t[j]
    <3>1. PICK j \in DOMAIN v : u[i] = v[j]
      BY <1>3
    <3>2. QED BY <1>2, <3>1
  <2>2. QED BY <2>1
<1>7. Len(t) = MaxKeys => Len(u) = MaxKeys
  BY <1>2, <1>3
<1>8. QED BY <1>3, <1>4, <1>5, <1>6, <1>7

LEMMA LookedInOrder ==
  ASSUME NEW t, Orderly(t), NEW K
  PROVE  /\ Orderly(Looked(t, K))
         /\ \A j \in DOMAIN t : HasEntry(Looked(t, K), t[j]) \/ t[j].age >= Window
<1>1. PICK S : S = {i \in DOMAIN t : t[i].key \notin K \/ t[i].age < Window}
  OBVIOUS
<1>2. Looked(t, K) = Selected(t, S)
  BY <1>1 DEF Looked
<1>3. Orderly(Selected(t, S)) /\ \A i \in S : HasEntry(Selected(t, S), t[i])
  BY <1>1, SelectedInOrder
<1>4. ASSUME NEW j \in DOMAIN t, j \notin S PROVE t[j].age >= Window
  <2>3. t[j] \in Entries
    BY DEF Orderly
  <2>1. t[j].age \in Nat /\ Window \in Nat
    BY <2>3, ThrottleAssumption DEF Entries
  <2>2. QED BY <1>1, <1>4, <2>1
<1>5. QED BY <1>2, <1>3, <1>4

LEMMA HeardInOrder ==
  ASSUME OrderInv
  PROVE  Orderly(Heard) /\ (~Reset => Heard = entries)
<1>1. Orderly(<<>>)
  BY DEF Orderly
<1>2. QED BY <1>1 DEF Heard, OrderInv

\* Both failures of an attempt: its keys are there, the oldest went.
LEMMA TalliedInOrder ==
  ASSUME NEW t, Orderly(t), NEW n \in Names, NEW a \in Addresses, NEW u, u = Tallied(t, n, a)
  PROVE  /\ Orderly(u)
         /\ \A j \in DOMAIN t : t[j].key \in Held(u) \/ FullOfLater(u, t[j])
<1>1. PICK U \in Keys, A \in Keys : U = <<"user", n>> /\ A = <<"addr", a>> /\ U # A
  BY BucketsAre
<1>2. PICK K : K = {<<"user", n>>, <<"addr", a>>}
  OBVIOUS
<1>3. PICK v : v = Counted(t, U)
  OBVIOUS
<1>4. PICK w : w = Counted(v, A)
  OBVIOUS
<1>5. u = Fitted(w)
  BY <1>1, <1>3, <1>4 DEF Tallied
<1>6. Orderly(v) /\ \A j \in DOMAIN t : t[j].key # U => HasEntry(v, t[j])
  BY <1>3, CountedInOrder
<1>7. Orderly(w) /\ \A j \in DOMAIN v : v[j].key # A => HasEntry(w, v[j])
  BY <1>4, <1>6, CountedInOrder
<1>8. Orderly(u) /\ \A j \in DOMAIN w : HasEntry(u, w[j]) \/ FullOfLater(u, w[j])
  BY <1>5, <1>7, FittedInOrder
<1>9. K \subseteq Held(u)
  <2>1. Newest(t, U, v) /\ v \in Seq(Entries)
    BY <1>3, <1>6, CountedIs DEF Orderly
  <2>2. Newest(v, A, w) /\ w \in Seq(Entries)
    BY <1>4, <1>7, <2>1, CountedIs DEF Orderly
  <2>3. Len(v) # 0 /\ v[Len(v)].key = U
    BY <2>1 DEF Newest
  <2>4. Len(w) >= 2 /\ w[Len(w)].key = A /\ w[Len(w) - 1].key = U
    BY <1>1, <2>2, <2>3 DEF Newest
  <2>5. u \in Seq(Entries) /\ Len(u) >= 2 /\ u[Len(u)].key = A /\ u[Len(u) - 1].key = U
    BY <1>5, <2>2, <2>4, FittedIs
  <2>6. Len(u) \in DOMAIN u /\ Len(u) - 1 \in DOMAIN u
    BY <2>5
  <2>7. A \in Held(u)
    BY <2>5, <2>6 DEF Held
  <2>8. U \in Held(u)
    BY <2>5, <2>6 DEF Held
  <2>9. QED BY <1>1, <1>2, <2>7, <2>8
<1>10. ASSUME NEW j \in DOMAIN t PROVE t[j].key \in Held(u) \/ FullOfLater(u, t[j])
  <2>1. CASE t[j].key \in K
    BY <1>9, <2>1
  <2>2. CASE t[j].key \notin K
    <3>1. t[j].key # U /\ t[j].key # A
      BY <1>1, <1>2, <2>2
    <3>2. PICK i \in DOMAIN v : v[i] = t[j]
      BY <1>6, <3>1 DEF HasEntry
    <3>3. PICK m \in DOMAIN w : w[m] = t[j]
      BY <1>7, <3>1, <3>2 DEF HasEntry
    <3>4. HasEntry(u, t[j]) \/ FullOfLater(u, t[j])
      BY <1>8, <3>3
    <3>5. QED BY <3>4 DEF HasEntry, Held
  <2>3. QED BY <2>1, <2>2
<1>11. QED BY <1>8, <1>10

\* Why an entry's key may have gone in this step.
Explained(e) ==
  \/ e.key \in Held(entries') \/ e.age >= Window
  \/ Reset \/ seen' = {}
  \/ \E h \in Attempters : Verifying(h) /\ ask'[h] = NoRequest /\ e.key \in ask[h].keys
  \/ FullOfLater(entries', e)
AllExplained == \A i \in DOMAIN entries : Explained(entries[i])

LEMMA SameInOrder ==
  ASSUME OrderInv, entries' = entries
  PROVE  Orderly(entries') /\ AllExplained
<1>1. \A i \in DOMAIN entries : entries[i].key \in Held(entries')
  BY DEF Held
<1>2. QED BY <1>1 DEF OrderInv, AllExplained, Explained

\* After a look at the table, and what is counted then.
LEMMA LookedExplains ==
  ASSUME OrderInv, NEW K, NEW now, now = Looked(Heard, K)
  PROVE  /\ Orderly(now)
         /\ ~Reset => \A i \in DOMAIN entries : HasEntry(now, entries[i]) \/ entries[i].age >= Window
<1>1. Orderly(Heard) /\ (~Reset => Heard = entries)
  BY HeardInOrder
<1>2. PICK t : t = Heard
  OBVIOUS
<1>3. Orderly(t) /\ now = Looked(t, K)
  BY <1>1, <1>2
<1>4. Orderly(now) /\ \A i \in DOMAIN t : HasEntry(now, t[i]) \/ t[i].age >= Window
  BY <1>3, LookedInOrder
<1>5. QED BY <1>1, <1>2, <1>4

LEMMA CountExplains ==
  ASSUME OrderInv, NEW K, NEW now, now = Looked(Heard, K),
         \A j \in DOMAIN now : now[j].key \in Held(entries') \/ FullOfLater(entries', now[j])
  PROVE  AllExplained
<1>1. ASSUME NEW i \in DOMAIN entries PROVE Explained(entries[i])
  <2>1. CASE Reset \/ entries[i].age >= Window
    BY <2>1 DEF Explained
  <2>2. CASE ~(Reset \/ entries[i].age >= Window)
    <3>1. HasEntry(now, entries[i])
      BY <2>2, LookedExplains
    <3>2. PICK j \in DOMAIN now : now[j] = entries[i]
      BY <3>1 DEF HasEntry
    <3>3. entries[i].key \in Held(entries') \/ FullOfLater(entries', entries[i])
      BY <3>2
    <3>4. QED BY <3>3 DEF Explained
  <2>3. QED BY <2>1, <2>2
<1>2. QED BY <1>1 DEF AllExplained

LEMMA AttemptInOrder ==
  ASSUME OrderInv, NEW h \in Attempters, NEW n \in Names, NEW a \in Addresses, Attempt(h, n, a)
  PROVE  Orderly(entries') /\ AllExplained
<1>1. PICK K : K = {<<"user", n>>, <<"addr", a>>}
  OBVIOUS
<1>2. PICK now : now = Looked(Heard, K)
  OBVIOUS
<1>3. entries' = now \/ entries' = Tallied(now, n, a)
  BY <1>1, <1>2 DEF Attempt
<1>4. PICK u : u = entries'
  OBVIOUS
<1>5. Orderly(now)
  BY <1>2, LookedExplains
<1>6. Orderly(u) /\ \A j \in DOMAIN now : now[j].key \in Held(u) \/ FullOfLater(u, now[j])
  <2>1. CASE u = now
    BY <1>5, <2>1 DEF Held
  <2>2. CASE u = Tallied(now, n, a)
    BY <1>5, <2>2, TalliedInOrder
  <2>3. QED BY <1>3, <1>4, <2>1, <2>2
<1>7. QED BY <1>2, <1>4, <1>6, CountExplains

LEMMA SetupInOrder ==
  ASSUME OrderInv, NEW a \in Addresses, SetupWrong(a)
  PROVE  Orderly(entries') /\ AllExplained
<1>1. PICK k \in Keys : k = <<"setup", a>>
  BY DEF Keys
<1>2. PICK now : now = Looked(Heard, {k})
  OBVIOUS
<1>3. entries' = now \/ entries' = Fitted(Counted(now, k))
  BY <1>1, <1>2 DEF SetupWrong
<1>4. PICK u : u = entries'
  OBVIOUS
<1>5. Orderly(now)
  BY <1>2, LookedExplains
<1>6. Orderly(u) /\ \A j \in DOMAIN now : now[j].key \in Held(u) \/ FullOfLater(u, now[j])
  <2>1. CASE u = now
    BY <1>5, <2>1 DEF Held
  <2>2. CASE u = Fitted(Counted(now, k))
    <3>1. /\ Orderly(u) /\ k \in Held(u)
          /\ \A j \in DOMAIN now : now[j].key # k => HasEntry(u, now[j]) \/ FullOfLater(u, now[j])
      BY <1>5, <2>2, OneFailure
    <3>2. ASSUME NEW j \in DOMAIN now PROVE now[j].key \in Held(u) \/ FullOfLater(u, now[j])
      BY <3>1 DEF HasEntry, Held
    <3>3. QED BY <3>1, <3>2
  <2>3. QED BY <1>3, <1>4, <2>1, <2>2
<1>7. QED BY <1>2, <1>4, <1>6, CountExplains

LEMMA RightInOrder ==
  ASSUME OrderInv, NEW h \in Attempters, NEW kind, Right(h, kind)
  PROVE  Orderly(entries') /\ AllExplained
<1>1. Verifying(h) /\ ask'[h] = NoRequest
  BY DEF Right, Answered, OrderInv, PacedInv
<1>2. PICK S \in SUBSET (DOMAIN entries) : S = {i \in DOMAIN entries : entries[i].key \notin ask[h].keys}
  OBVIOUS
<1>3. PICK u : u = entries'
  OBVIOUS
<1>4. u = Selected(entries, S)
  BY <1>2, <1>3 DEF Right
<1>5. Orderly(u) /\ \A i \in S : HasEntry(u, entries[i])
  BY <1>4, SelectedInOrder DEF OrderInv
<1>6. ASSUME NEW i \in DOMAIN entries PROVE Explained(entries[i])
  <2>1. CASE i \in S
    <3>1. entries[i].key \in Held(u)
      BY <1>5, <2>1 DEF HasEntry, Held
    <3>2. QED BY <1>3, <3>1 DEF Explained
  <2>2. CASE i \notin S
    <3>1. entries[i].key \in ask[h].keys
      BY <1>2, <2>2
    <3>2. QED BY <1>1, <3>1 DEF Explained
  <2>3. QED BY <2>1, <2>2
<1>7. QED BY <1>3, <1>5, <1>6 DEF AllExplained

\* A key whose entry is gone by a later failure went as the oldest.
LEMMA WrongInOrder ==
  ASSUME OrderInv, NEW h \in Attempters, Wrong(h)
  PROVE  Orderly(entries') /\ AllExplained
<1>1. Verifying(h) /\ ask'[h] = NoRequest
  BY DEF Wrong, Answered, OrderInv, PacedInv
<1>2. ask[h] \in Checking
  BY DoneIs DEF Wrong, OrderInv
<1>3. CASE ask[h].row = {}
  <2>1. entries' = entries
    BY <1>3 DEF Wrong
  <2>2. QED BY <2>1, SameInOrder
<1>4. CASE ask[h].row # {}
  <2>1. PICK n \in Names, a \in Addresses : ask[h].keys = {<<"user", n>>, <<"addr", a>>}
    BY <1>2 DEF Checking, Asked
  <2>2. PICK U : U = CHOOSE k \in ask[h].keys : k[1] = "user"
    OBVIOUS
  <2>3. PICK A : A = CHOOSE k \in ask[h].keys : k[1] = "addr"
    OBVIOUS
  <2>4. U \in Keys /\ A \in Keys /\ U \in ask[h].keys /\ A \in ask[h].keys
    <3>1. <<"user", n>> \in ask[h].keys /\ <<"user", n>>[1] = "user"
      BY <2>1
    <3>2. <<"addr", a>> \in ask[h].keys /\ <<"addr", a>>[1] = "addr"
      BY <2>1
    <3>3. U \in ask[h].keys
      BY <2>2, <3>1
    <3>4. A \in ask[h].keys
      BY <2>3, <3>2
    <3>5. ask[h].keys \subseteq Keys
      BY <2>1, BucketsAre
    <3>6. QED BY <3>3, <3>4, <3>5
  <2>5. PICK mid : mid = Fitted(Counted(entries, U))
    OBVIOUS
  <2>6. PICK u : u = entries'
    OBVIOUS
  <2>7. u = Fitted(Counted(mid, A))
    BY <1>4, <2>2, <2>3, <2>5, <2>6 DEF Wrong
  <2>8. /\ Orderly(mid) /\ \A j \in DOMAIN entries : entries[j].key # U => HasEntry(mid, entries[j]) \/ FullOfLater(mid, entries[j])
    BY <2>4, <2>5, OneFailure DEF OrderInv
  <2>9. /\ Orderly(u) /\ (Len(mid) = MaxKeys => Len(u) = MaxKeys)
        /\ \A j \in DOMAIN mid : mid[j].key # A => HasEntry(u, mid[j]) \/ FullOfLater(u, mid[j])
        /\ \A i \in DOMAIN u : u[i].age = 0 \/ \E j \in DOMAIN mid : u[i] = mid[j]
    BY <2>4, <2>7, <2>8, OneFailure
  <2>10. ASSUME NEW i \in DOMAIN entries PROVE Explained(entries[i])
    <3>1. CASE entries[i].key \in ask[h].keys
      BY <1>1, <3>1 DEF Explained
    <3>2. CASE entries[i].key \notin ask[h].keys
      <4>1. entries[i].key # U /\ entries[i].key # A
        BY <2>4, <3>2
      <4>2. CASE HasEntry(mid, entries[i])
        <5>1. PICK j \in DOMAIN mid : mid[j] = entries[i]
          BY <4>2 DEF HasEntry
        <5>2. HasEntry(u, entries[i]) \/ FullOfLater(u, entries[i])
          BY <2>9, <4>1, <5>1
        <5>3. entries[i].key \in Held(u) \/ FullOfLater(u, entries[i])
          BY <5>2 DEF HasEntry, Held
        <5>4. QED BY <2>6, <5>3 DEF Explained
      <4>3. CASE FullOfLater(mid, entries[i])
        <5>1. entries[i].age \in Nat
          <6>1. entries[i] \in Entries
            BY DEF OrderInv, Orderly
          <6>2. QED BY <6>1 DEF Entries
        <5>2. ASSUME NEW m \in DOMAIN u PROVE u[m].age <= entries[i].age
          <6>1. CASE u[m].age = 0
            BY <5>1, <6>1
          <6>2. CASE \E j \in DOMAIN mid : u[m] = mid[j]
            BY <4>3, <6>2 DEF FullOfLater
          <6>3. QED BY <2>9, <6>1, <6>2
        <5>3. FullOfLater(u, entries[i])
          BY <2>9, <4>3, <5>2 DEF FullOfLater
        <5>4. QED BY <2>6, <5>3 DEF Explained
      <4>4. QED BY <2>8, <4>1, <4>2, <4>3
    <3>3. QED BY <3>1, <3>2
  <2>11. QED BY <2>6, <2>9, <2>10 DEF AllExplained
<1>5. QED BY <1>3, <1>4

LEMMA RestartInOrder ==
  ASSUME OrderInv, Restart
  PROVE  Orderly(entries') /\ AllExplained
<1>1. entries' = <<>> /\ seen' = {}
  BY DEF Restart
<1>2. Orderly(<<>>)
  BY DEF Orderly
<1>3. QED BY <1>1, <1>2 DEF AllExplained, Explained

LEMMA TimeInOrder ==
  ASSUME OrderInv, TimePasses
  PROVE  Orderly(entries') /\ AllExplained
<1>1. Window \in Nat \ {0}
  BY ThrottleAssumption
<1>2. Orderly(entries)
  BY DEF OrderInv
<1>3. PICK t : t = entries
  OBVIOUS
<1>4. PICK u : u = entries'
  OBVIOUS
<1>5. u = [i \in DOMAIN t |-> [t[i] EXCEPT !.age = MinOf(t[i].age + 1, Window)]]
  BY <1>3, <1>4 DEF TimePasses
<1>6. t \in Seq(Entries) /\ u \in Seq(Entries) /\ DOMAIN u = DOMAIN t
  <2>1. PacedInv'
    BY TimeCovers DEF OrderInv
  <2>2. entries' \in Seq(Entries)
    BY <2>1 DEF PacedInv
  <2>3. QED BY <1>2, <1>3, <1>4, <1>5, <2>2 DEF Orderly
<1>7. ASSUME NEW i \in DOMAIN t
      PROVE  t[i].age \in Nat /\ u[i].key = t[i].key /\ u[i].age = MinOf(t[i].age + 1, Window)
  <2>1. t[i] \in Entries
    BY <1>6
  <2>2. u[i] = [t[i] EXCEPT !.age = MinOf(t[i].age + 1, Window)]
    BY <1>5
  <2>3. QED BY <2>1, <2>2 DEF Entries
<1>8. ASSUME NEW i \in DOMAIN u, NEW j \in DOMAIN u, i < j PROVE u[j].age <= u[i].age /\ u[i].key # u[j].key
  <2>1. i \in DOMAIN t /\ j \in DOMAIN t
    BY <1>6
  <2>2. t[j].age <= t[i].age /\ t[i].key # t[j].key
    BY <1>2, <1>3, <1>8, <2>1 DEF Orderly
  <2>3. t[i].age \in Nat /\ t[j].age \in Nat
    BY <1>7, <2>1
  <2>4. MinOf(t[j].age + 1, Window) <= MinOf(t[i].age + 1, Window)
    BY <1>1, <2>2, <2>3 DEF MinOf
  <2>5. QED BY <1>7, <2>1, <2>2, <2>4
<1>9. Orderly(u)
  BY <1>6, <1>8 DEF Orderly
<1>10. ASSUME NEW i \in DOMAIN entries PROVE Explained(entries[i])
  <2>1. i \in DOMAIN u /\ u[i].key = entries[i].key
    BY <1>3, <1>6, <1>7
  <2>2. entries[i].key \in Held(u)
    BY <2>1 DEF Held
  <2>3. QED BY <1>4, <2>2 DEF Explained
<1>11. QED BY <1>4, <1>9, <1>10 DEF AllExplained

LEMMA InitOrder == ThrottleInit => OrderInv
<1>1. SUFFICES ASSUME ThrottleInit PROVE OrderInv
  OBVIOUS
<1>2. entries = <<>>
  BY <1>1 DEF ThrottleInit
<1>3. Orderly(entries)
  BY <1>2 DEF Orderly
<1>4. QED BY <1>1, <1>3, InitPaced DEF OrderInv

LEMMA OrderStep ==
  ASSUME OrderInv, [ThrottleNext]_throttle
  PROVE  OrderInv' /\ AllExplained
<1>1. PacedInv'
  BY PacedStep DEF OrderInv
<1>2. Orderly(entries') /\ AllExplained
  <2>1. CASE entries' = entries
    BY <2>1, SameInOrder
  <2>2. CASE entries' # entries
    <3>1. ThrottleNext
      BY <2>2 DEF throttle, table
    <3>2. ASSUME NEW h \in Attempters, NEW n \in Names, NEW a \in Addresses, NEW d \in Rows
          PROVE  ~Reserve(h, n, a, d)
      BY <2>2 DEF Reserve, table
    <3>3. \A h \in Attempters : ~TooBusy(h)
      BY <2>2 DEF TooBusy, table
    <3>4. ~RequestReset
      BY <2>2 DEF RequestReset, table
    <3>5. QED BY <3>1, <3>2, <3>3, <3>4, AttemptInOrder, RightInOrder, WrongInOrder, SetupInOrder, RestartInOrder, TimeInOrder
              DEF ThrottleNext
  <2>3. QED BY <2>1, <2>2
<1>3. QED BY <1>1, <1>2 DEF OrderInv, Orderly

\* A full table forgets the entries that failed longest ago, and only when it
\* is full (throttle._count).
THEOREM LongestGoesFirst == ThrottleSpec => LongestAgoGoes
<1>1. OrderInv /\ [ThrottleNext]_throttle =>
        [\A i \in DOMAIN entries :
           \/ entries[i].key \in Held(entries') \/ entries[i].age >= Window
           \/ Reset \/ seen' = {}
           \/ \E h \in Attempters : Verifying(h) /\ ask'[h] = NoRequest /\ entries[i].key \in ask[h].keys
           \/ Len(entries') = MaxKeys /\ \A j \in DOMAIN entries' : entries'[j].age <= entries[i].age]_throttle
  BY OrderStep DEF AllExplained, Explained, FullOfLater
<1>2. QED BY <1>1, InitOrder, OrderStep, PTL DEF ThrottleSpec, LongestAgoGoes

-----------------------------------------------------------------------------
(* Backups.                                                                *)

Sorts == {"full", "data", "safety"}
Archs == [id : Nat, kind : Sorts, age : Nat, enc : Nat, mac : Nat]
Jobs == [at : {"begun", "writing", "signed", "placed", "failed", "prune", "verify", "restoring", "lost"},
         kind : Sorts, for : {"manual", "scheduled", "restore"}, protect : SUBSET Nat, id : Nat,
         enc : Nat, mac : Nat, todo : SUBSET Nat]

BackupsTypeOK ==
  /\ dir \in Seq(Archs) /\ job \in [All -> Jobs \union {Idle}]
  /\ keys \in Seq(Nat) /\ Len(keys) >= 1 /\ rotating \in Seq(Nat)

\* Nothing, or an identity that is in the key file.
Ours(x) == x = 0 \/ \E n \in 1 .. Len(keys) : keys[n] = x

\* Archives, and a thread's work, that the key file opens.
OursAll(archs) ==
  archs \in Seq(Archs) /\ \A i \in 1 .. Len(archs) : Ours(archs[i].enc) /\ Ours(archs[i].mac)
OursAt(j) == j \in Jobs /\ Ours(j.enc) /\ Ours(j.mac)

\* What the key file was for an archive, written or placed, is still in it,
\* and a rotate command between its two steps has read it as it is.
BackupsInv ==
  /\ BackupsTypeOK /\ OursAll(dir)
  /\ \A w \in All : OursAt(job[w]) \/ job[w] = Idle
  /\ rotating = <<>> \/ rotating = keys

\* Some of the archives, in their order: each of them is one of the archives.
LEMMA ThoseAre ==
  ASSUME dir \in Seq(Archs), NEW S \in SUBSET (DOMAIN dir)
  PROVE  /\ Those(S) \in Seq(Archs)
         /\ \A n \in 1 .. Len(Those(S)) : \E i \in S : Those(S)[n] = dir[i]
<1>1. PICK L \in Nat : L = Len(dir) /\ DOMAIN dir = 1 .. L
  OBVIOUS
<1>2. IsFiniteSet(S) /\ S \in SUBSET (1 .. L)
  <2>1. IsFiniteSet(1 .. L)
    BY FS_Interval
  <2>2. S \subseteq 1 .. L
    BY <1>1
  <2>3. QED BY <2>1, <2>2, FS_Subset
<1>3. PICK C \in Nat : C = Cardinality(S)
  BY <1>2, FS_CardinalityType
<1>4. PICK f : /\ f = Those(S)
               /\ f = [n \in 1 .. C |-> dir[CHOOSE i \in S : Cardinality({j \in S : j <= i}) = n]]
  BY <1>3 DEF Those
<1>5. ASSUME NEW n \in 1 .. C PROVE \E i \in S : f[n] = dir[i]
  <2>1. PICK k \in S : Cardinality({j \in S : j <= k}) = n
    <3>1. PICK k \in S : Rank(S)[k] = n
      BY <1>2, <1>3, EachPlaceIs
    <3>2. QED BY <3>1 DEF Rank
  <2>2. (CHOOSE i \in S : Cardinality({j \in S : j <= i}) = n) \in S
    BY <2>1
  <2>3. QED BY <1>4, <2>2
<1>6. \A n \in 1 .. C : f[n] \in Archs
  BY <1>1, <1>5
<1>7. f \in Seq(Archs) /\ Len(f) = C
  <2>1. f \in [1 .. C -> Archs]
    BY <1>4, <1>6
  <2>2. QED BY <1>3, <2>1
<1>8. QED BY <1>4, <1>5, <1>7

\* Some of the archives are archives whose keys are still there.
LEMMA ThoseOurs ==
  ASSUME BackupsInv, NEW S \in SUBSET (DOMAIN dir)
  PROVE  OursAll(Those(S))
<1>1. dir \in Seq(Archs) /\ DOMAIN dir = 1 .. Len(dir)
  BY DEF BackupsInv, BackupsTypeOK
<1>2. PICK f : f = Those(S)
  OBVIOUS
<1>3. f \in Seq(Archs) /\ \A n \in 1 .. Len(f) : \E i \in S : f[n] = dir[i]
  BY <1>1, <1>2, ThoseAre
<1>4. \A i \in 1 .. Len(f) : Ours(f[i].enc) /\ Ours(f[i].mac)
  BY <1>1, <1>3 DEF BackupsInv, OursAll
<1>5. QED BY <1>2, <1>3, <1>4 DEF OursAll

\* What is left after some were removed.
LEMMA RemovedOurs ==
  ASSUME BackupsInv, NEW S
  PROVE  OursAll(Removed(S))
<1>1. PICK places : places = {i \in DOMAIN dir : dir[i].id \notin S}
  OBVIOUS
<1>2. places \in SUBSET (DOMAIN dir) /\ Removed(S) = Those(places)
  BY <1>1 DEF Removed
<1>3. QED BY <1>2, ThoseOurs

\* A new archive's name is a number that none of those stored has.
LEMMA NewIdIs ==
  ASSUME dir \in Seq(Archs)
  PROVE  NewId \in Nat /\ NewId \notin Stored
<1>1. PICK L \in Nat : L = Len(dir) /\ DOMAIN dir = 1 .. L
  OBVIOUS
<1>2. PICK ids : ids = [i \in 1 .. L |-> dir[i].id]
  OBVIOUS
<1>3. PICK I : I = 1 .. L + 1
  OBVIOUS
<1>4. IsFiniteSet(1 .. L) /\ Cardinality(1 .. L) = L /\ IsFiniteSet(I) /\ Cardinality(I) = L + 1
  BY <1>3, FS_Interval
<1>5. \E id \in I : id \notin Stored
  <2>1. SUFFICES ASSUME \A id \in I : id \in Stored PROVE FALSE
    OBVIOUS
  <2>2. \A id \in I : \E i \in 1 .. L : dir[i].id = id
    BY <1>1, <2>1 DEF Stored
  <2>3. PICK where : where = [id \in I |-> CHOOSE i \in 1 .. L : dir[i].id = id]
    OBVIOUS
  <2>4. where \in [I -> 1 .. L] /\ \A id \in I : dir[where[id]].id = id
    BY <2>2, <2>3
  <2>5. \E a, b \in I : a # b /\ where[a] = where[b]
    BY <1>4, <2>4, FS_PigeonHole
  <2>6. QED BY <2>4, <2>5
<1>6. NewId \in I /\ NewId \notin Stored
  BY <1>1, <1>3, <1>5 DEF NewId
<1>7. QED BY <1>3, <1>6

\* What a prune lists are names of archives.
LEMMA ListedIs ==
  ASSUME dir \in Seq(Archs)
  PROVE  /\ BeyondKeep \in SUBSET Nat
         /\ UNION {Expired(k) : k \in Kinds} \in SUBSET Nat
<1>1. ASSUME NEW k PROVE OfKind(k) \in Seq(Archs)
  <2>1. PICK places : places = {i \in DOMAIN dir : dir[i].kind = k}
    OBVIOUS
  <2>2. places \in SUBSET (DOMAIN dir) /\ OfKind(k) = Those(places)
    BY <2>1 DEF OfKind
  <2>3. QED BY <2>2, ThoseAre
<1>2. BeyondKeep \in SUBSET Nat
  <2>1. PICK safe : safe = OfKind("safety") /\ safe \in Seq(Archs)
    BY <1>1
  <2>2. ASSUME NEW n \in BeyondKeep PROVE n \in Nat
    <3>1. PICK i \in DOMAIN safe : n = safe[i].id
      BY <2>1, Zenon DEF BeyondKeep
    <3>2. safe[i] \in Archs
      BY <2>1, <3>1
    <3>3. QED BY <3>1, <3>2 DEF Archs
  <2>3. QED BY <2>2
<1>3. ASSUME NEW k PROVE Expired(k) \in SUBSET Nat
  <2>1. PICK old : old = OfKind(k) /\ old \in Seq(Archs)
    BY <1>1
  <2>2. ASSUME NEW n \in Expired(k) PROVE n \in Nat
    <3>1. PICK i \in DOMAIN old : n = old[i].id
      BY <2>1, Zenon DEF Expired
    <3>2. old[i] \in Archs
      BY <2>1, <3>1
    <3>3. QED BY <3>1, <3>2 DEF Archs
  <2>3. QED BY <2>2
<1>4. QED BY <1>2, <1>3

LEMMA BackupsStart == Init => BackupsInv
<1>1. SUFFICES ASSUME Init PROVE BackupsInv
  OBVIOUS
<1>2. dir \in Seq(Archs) /\ Len(dir) = 0 /\ keys \in Seq(Nat) /\ Len(keys) = 1 /\ rotating \in Seq(Nat)
  BY <1>1 DEF Init
<1>3. job \in [All -> Jobs \union {Idle}] /\ \A w \in All : job[w] = Idle
  BY <1>1 DEF Init
<1>4. QED BY <1>1, <1>2, <1>3 DEF BackupsInv, BackupsTypeOK, OursAll, Init

\* A thread's step leaves the key file alone.
LEMMA JobKeeps ==
  ASSUME BackupsInv, UNCHANGED <<keys, rotating>>, OursAll(dir'),
         NEW w \in All, NEW new, OursAt(new) \/ new = Idle, job' = [job EXCEPT ![w] = new]
  PROVE  BackupsInv'
<1>1. new \in Jobs \union {Idle}
  BY DEF OursAt
<1>2. job' \in [All -> Jobs \union {Idle}]
      /\ \A v \in All : job'[v] = IF v = w THEN new ELSE job[v]
  BY <1>1 DEF BackupsInv, BackupsTypeOK
<1>3. All' = All /\ Idle' = Idle
  BY DEF All, Idle
<1>4. \A x : Ours(x)' <=> Ours(x)
  BY DEF Ours
<1>5. QED BY <1>2, <1>3, <1>4 DEF BackupsInv, BackupsTypeOK, OursAll, OursAt

\* Whoever is at something is at work.
LEMMA AtWork ==
  ASSUME BackupsInv, NEW w \in All, job[w].at # "idle"
  PROVE  job[w] \in Jobs /\ OursAt(job[w])
  BY DEF BackupsInv, OursAt, Idle, Jobs

\* The key that encrypts is in the key file.
LEMMA FirstOurs ==
  ASSUME BackupsInv
  PROVE  keys[1] \in Nat /\ Ours(keys[1])
  BY DEF BackupsInv, BackupsTypeOK, Ours

LEMMA TakesKeeps ==
  ASSUME BackupsInv, UNCHANGED <<dir, keys, rotating>>, NEW w \in All, NEW kind \in Sorts,
         NEW for \in {"manual", "scheduled", "restore"}, NEW held \in SUBSET Nat, Takes(w, kind, for, held)
  PROVE  BackupsInv'
<1>1. PICK new : new = [at |-> "begun", kind |-> kind, for |-> for, protect |-> held,
                        id |-> 0, enc |-> 0, mac |-> 0, todo |-> {}]
  OBVIOUS
<1>2. OursAt(new)
  <2>1. new \in Jobs
    BY <1>1 DEF Jobs
  <2>2. QED BY <1>1, <2>1 DEF OursAt, Ours
<1>3. job' = [job EXCEPT ![w] = new]
  BY <1>1 DEF Takes
<1>4. OursAll(dir')
  BY DEF BackupsInv, OursAll
<1>5. QED BY <1>2, <1>3, <1>4, JobKeeps

LEMMA RunsKeep ==
  ASSUME BackupsInv,
         \/ \E w \in All, k \in Kinds : RunManual(w, k)
         \/ \E w \in Workers, id \in Stored : RunRestore(w, id)
         \/ RunScheduled
  PROVE  BackupsInv'
<1>1. ASSUME NEW w \in All, NEW k \in Kinds, RunManual(w, k) PROVE BackupsInv'
  <2>1. k \in Sorts /\ {} \in SUBSET Nat
    BY DEF Kinds, Sorts
  <2>2. Takes(w, k, "manual", {}) /\ UNCHANGED <<dir, keys, rotating>>
    BY <1>1 DEF RunManual
  <2>3. QED BY <2>1, <2>2, TakesKeeps
<1>2. ASSUME NEW w \in Workers, NEW id \in Stored, RunRestore(w, id) PROVE BackupsInv'
  <2>1. PICK i \in DOMAIN dir : id = dir[i].id
    BY DEF Stored
  <2>2. dir[i] \in Archs
    BY <2>1 DEF BackupsInv, BackupsTypeOK
  <2>3. {id} \in SUBSET Nat /\ w \in All /\ "safety" \in Sorts
    BY <2>1, <2>2 DEF Archs, All, Sorts
  <2>4. Takes(w, "safety", "restore", {id}) /\ UNCHANGED <<dir, keys, rotating>>
    BY <1>2 DEF RunRestore
  <2>5. QED BY <2>3, <2>4, TakesKeeps
<1>3. CASE RunScheduled
  <2>1. Ticker \in All /\ "full" \in Sorts /\ {} \in SUBSET Nat
    BY DEF All, Sorts
  <2>2. Takes(Ticker, "full", "scheduled", {}) /\ UNCHANGED <<dir, keys, rotating>>
    BY <1>3 DEF RunScheduled
  <2>3. QED BY <2>1, <2>2, TakesKeeps
<1>4. QED BY <1>1, <1>2, <1>3

\* What a thread has of the key file is what is first in it.
LEMMA WritesKeep ==
  ASSUME BackupsInv, NEW w \in All, Encrypt(w) \/ Sign(w)
  PROVE  BackupsInv'
<1>1. PICK old : old = job[w] /\ old \in Jobs /\ OursAt(old)
  BY AtWork DEF Encrypt, Sign, At
<1>2. OursAll(dir') /\ UNCHANGED <<keys, rotating>>
  BY DEF BackupsInv, OursAll, Encrypt, Sign
<1>3. CASE Encrypt(w)
  <2>1. PICK new : new = [old EXCEPT !.at = "writing", !.enc = keys[1]]
    OBVIOUS
  <2>2. new \in Jobs /\ new.enc = keys[1] /\ new.mac = old.mac
    BY <1>1, <2>1, FirstOurs DEF Jobs
  <2>3. job' = [job EXCEPT ![w] = new]
    BY <1>1, <1>3, <2>1 DEF Encrypt
  <2>4. OursAt(new)
    BY <1>1, <2>2, FirstOurs DEF OursAt
  <2>5. QED BY <1>2, <2>3, <2>4, JobKeeps
<1>4. CASE Sign(w)
  <2>1. PICK new : new = [old EXCEPT !.at = "signed", !.mac = keys[1]]
    OBVIOUS
  <2>2. new \in Jobs /\ new.mac = keys[1] /\ new.enc = old.enc
    BY <1>1, <2>1, FirstOurs DEF Jobs
  <2>3. job' = [job EXCEPT ![w] = new]
    BY <1>1, <1>4, <2>1 DEF Sign
  <2>4. OursAt(new)
    BY <1>1, <2>2, FirstOurs DEF OursAt
  <2>5. QED BY <1>2, <2>3, <2>4, JobKeeps
<1>5. QED BY <1>3, <1>4

\* A thread that stops, goes on, or forgets one name on its list.
LEMMA GoesOnKeeps ==
  ASSUME BackupsInv, UNCHANGED <<keys, rotating>>, OursAll(dir'), NEW w \in All,
         \/ job' = [job EXCEPT ![w] = Idle]
         \/ /\ job[w].at # "idle"
            /\ \/ \E at \in {"placed", "failed", "restoring", "lost"} : job' = [job EXCEPT ![w].at = at]
               \/ \E gone : job' = [job EXCEPT ![w].todo = job[w].todo \ gone]
               \/ \E todo \in SUBSET Nat : job' = [job EXCEPT ![w].at = "prune", ![w].todo = todo]
  PROVE  BackupsInv'
<1>1. CASE job' = [job EXCEPT ![w] = Idle]
  BY <1>1, JobKeeps
<1>2. ASSUME job[w].at # "idle", NEW at \in {"placed", "failed", "restoring", "lost"}, job' = [job EXCEPT ![w].at = at]
      PROVE  BackupsInv'
  <2>1. PICK old : old = job[w] /\ old \in Jobs /\ OursAt(old)
    BY <1>2, AtWork
  <2>2. PICK new : new = [old EXCEPT !.at = at]
    OBVIOUS
  <2>3. new \in Jobs /\ new.enc = old.enc /\ new.mac = old.mac
    BY <2>1, <2>2 DEF Jobs
  <2>4. job' = [job EXCEPT ![w] = new]
    BY <1>2, <2>1, <2>2
  <2>5. OursAt(new)
    BY <2>1, <2>3 DEF OursAt
  <2>6. QED BY <2>4, <2>5, JobKeeps
<1>3. ASSUME job[w].at # "idle", NEW gone, job' = [job EXCEPT ![w].todo = job[w].todo \ gone]
      PROVE  BackupsInv'
  <2>1. PICK old : old = job[w] /\ old \in Jobs /\ OursAt(old)
    BY <1>3, AtWork
  <2>2. PICK rest \in SUBSET Nat : rest = old.todo \ gone
    <3>1. old.todo \in SUBSET Nat
      BY <2>1 DEF Jobs
    <3>2. QED BY <3>1
  <2>3. PICK new : new = [old EXCEPT !.todo = rest]
    OBVIOUS
  <2>4. new \in Jobs /\ new.enc = old.enc /\ new.mac = old.mac
    BY <2>1, <2>2, <2>3 DEF Jobs
  <2>5. job' = [job EXCEPT ![w] = new]
    BY <1>3, <2>1, <2>2, <2>3
  <2>6. OursAt(new)
    BY <2>1, <2>4 DEF OursAt
  <2>7. QED BY <2>5, <2>6, JobKeeps
<1>4. ASSUME job[w].at # "idle", NEW todo \in SUBSET Nat,
             job' = [job EXCEPT ![w].at = "prune", ![w].todo = todo]
      PROVE  BackupsInv'
  <2>1. PICK old : old = job[w] /\ old \in Jobs /\ OursAt(old)
    BY <1>4, AtWork
  <2>2. PICK new : new = [old EXCEPT !.at = "prune", !.todo = todo]
    OBVIOUS
  <2>3. new \in Jobs /\ new.enc = old.enc /\ new.mac = old.mac
    BY <2>1, <2>2 DEF Jobs
  <2>4. job' = [job EXCEPT ![w] = new]
    BY <1>4, <2>1, <2>2
  <2>5. OursAt(new)
    BY <2>1, <2>3 DEF OursAt
  <2>6. QED BY <2>4, <2>5, JobKeeps
<1>5. QED BY <1>1, <1>2, <1>3, <1>4

\* What is placed was encrypted and signed with identities still there.
LEMMA PlaceKeeps ==
  ASSUME BackupsInv, NEW w \in All, Place(w)
  PROVE  BackupsInv'
<1>1. PICK old : old = job[w] /\ old \in Jobs /\ OursAt(old)
  BY AtWork DEF Place, At
<1>2. PICK id \in Nat : id = NewId
  BY NewIdIs DEF BackupsInv, BackupsTypeOK
<1>3. PICK new : new = [id |-> id, kind |-> old.kind, age |-> 0, enc |-> old.enc, mac |-> old.mac]
  OBVIOUS
<1>4. new \in Archs /\ new.enc = old.enc /\ new.mac = old.mac
  BY <1>1, <1>3 DEF Archs, Jobs
<1>5. dir' = <<new>> \o dir
  BY <1>1, <1>2, <1>3 DEF Place
<1>6. dir' \in Seq(Archs) /\ Len(dir') = Len(dir) + 1
      /\ \A i \in 1 .. Len(dir) + 1 : dir'[i] = IF i = 1 THEN new ELSE dir[i - 1]
  BY <1>4, <1>5 DEF BackupsInv, BackupsTypeOK
<1>7. OursAll(dir')
  <2>1. Len(dir) \in Nat
    BY DEF BackupsInv, BackupsTypeOK
  <2>2. ASSUME NEW i \in 1 .. Len(dir) + 1 PROVE Ours(dir'[i].enc) /\ Ours(dir'[i].mac)
    <3>1. CASE i = 1
      BY <1>1, <1>4, <1>6, <3>1 DEF OursAt
    <3>2. CASE i # 1
      <4>1. i - 1 \in 1 .. Len(dir) /\ dir'[i] = dir[i - 1]
        BY <1>6, <2>1, <3>2
      <4>2. QED BY <4>1 DEF BackupsInv, OursAll
    <3>3. QED BY <3>1, <3>2
  <2>3. QED BY <1>6, <2>2 DEF OursAll
<1>8. PICK at \in {"verify", "placed"} : at = IF old.for = "restore" THEN "verify" ELSE "placed"
  OBVIOUS
<1>9. PICK next : next = [old EXCEPT !.at = at, !.id = id]
  OBVIOUS
<1>10. next \in Jobs /\ next.enc = old.enc /\ next.mac = old.mac
  BY <1>1, <1>9 DEF Jobs
<1>11. job' = [job EXCEPT ![w] = next] /\ UNCHANGED <<keys, rotating>>
  BY <1>1, <1>2, <1>8, <1>9 DEF Place
<1>12. OursAt(next)
  BY <1>1, <1>10 DEF OursAt
<1>13. QED BY <1>7, <1>11, <1>12, JobKeeps

LEMMA StepKeeps ==
  ASSUME BackupsInv, NEW w \in All, Step(w)
  PROVE  BackupsInv'
<1> USE DEF Goto, Release, At
<1>1. OursAll(dir)
  BY DEF BackupsInv
<1>2. CASE WriteFails(w)
  BY <1>1, <1>2, GoesOnKeeps DEF WriteFails
<1>3. CASE PruneLists(w)
  <2>1. PICK todo \in SUBSET Nat : todo = (UNION {Expired(k) : k \in Kinds}) \union BeyondKeep
    BY ListedIs DEF BackupsInv, BackupsTypeOK
  <2>2. job' = [job EXCEPT ![w].at = "prune", ![w].todo = todo] /\ UNCHANGED <<keys, rotating, dir>>
    BY <1>3, <2>1 DEF PruneLists
  <2>3. QED BY <1>1, <1>3, <2>2, GoesOnKeeps DEF PruneLists
<1>4. CASE PruneOne(w)
  <2>1. PICK gone : dir' = Removed(gone) /\ job' = [job EXCEPT ![w].todo = @ \ gone]
    BY <1>4 DEF PruneOne
  <2>2. OursAll(dir')
    BY <2>1, RemovedOurs
  <2>3. QED BY <1>4, <2>1, <2>2, GoesOnKeeps DEF PruneOne
<1>5. CASE PruneFails(w) \/ Succeeds(w) \/ Fails(w) \/ SettingUnread(w) \/ RestoreEnds(w)
  BY <1>1, <1>5, GoesOnKeeps DEF PruneFails, Succeeds, Fails, SettingUnread, RestoreEnds
<1>6. CASE VerifyFails(w)
  <2>1. OursAll(dir')
    BY <1>6, RemovedOurs DEF VerifyFails
  <2>2. QED BY <1>6, <2>1, GoesOnKeeps DEF VerifyFails
<1>7. CASE Verified(w)
  <2>1. OursAll(dir')
    BY <1>7, RemovedOurs DEF Verified
  <2>2. QED BY <1>7, <2>1, GoesOnKeeps DEF Verified
<1>8. QED BY <1>2, <1>3, <1>4, <1>5, <1>6, <1>7, WritesKeep, PlaceKeeps DEF Step

\* The file written holds all that was read, behind the new identity.
LEMMA RotateKeeps ==
  ASSUME BackupsInv, RotateReads \/ RotateWrites
  PROVE  BackupsInv'
<1>1. UNCHANGED <<dir, job>> /\ All' = All /\ Idle' = Idle
  BY DEF RotateReads, RotateWrites, All, Idle
<1>2. CASE RotateReads
  <2>1. keys' = keys /\ rotating' = keys
    BY <1>2 DEF RotateReads
  <2>2. \A x : Ours(x)' <=> Ours(x)
    BY <2>1 DEF Ours
  <2>3. QED BY <1>1, <2>1, <2>2 DEF BackupsInv, BackupsTypeOK, OursAll, OursAt
<1>3. CASE RotateWrites
  <2>1. PICK k \in Nat : k = Len(keys) + 1
    BY DEF BackupsInv, BackupsTypeOK
  <2>2. keys' = <<k>> \o keys /\ rotating' = <<>>
    BY <1>3, <2>1 DEF RotateWrites, BackupsInv, Made
  <2>3. /\ keys' \in Seq(Nat) /\ Len(keys') = Len(keys) + 1 /\ rotating' \in Seq(Nat)
        /\ \A n \in 1 .. Len(keys) : keys'[n + 1] = keys[n]
    BY <2>2 DEF BackupsInv, BackupsTypeOK
  <2>4. \A x : Ours(x) => Ours(x)'
    <3>1. SUFFICES ASSUME NEW x, Ours(x) PROVE Ours(x)'
      OBVIOUS
    <3>2. CASE x = 0
      BY <3>2 DEF Ours
    <3>3. CASE x # 0
      <4>1. PICK n \in 1 .. Len(keys) : keys[n] = x
        BY <3>1, <3>3 DEF Ours
      <4>2. n + 1 \in 1 .. Len(keys') /\ keys'[n + 1] = x
        BY <2>3, <4>1 DEF BackupsInv, BackupsTypeOK
      <4>3. QED BY <4>2 DEF Ours
    <3>4. QED BY <3>2, <3>3
  <2>5. Len(keys') >= 1
    BY <2>3 DEF BackupsInv, BackupsTypeOK
  <2>6. BackupsTypeOK'
    BY <1>1, <2>3, <2>5 DEF BackupsInv, BackupsTypeOK
  <2>7. OursAll(dir)' /\ \A w \in All : OursAt(job[w])' \/ job[w] = Idle
    BY <1>1, <2>4 DEF BackupsInv, OursAll, OursAt
  <2>8. QED BY <1>1, <2>2, <2>6, <2>7 DEF BackupsInv
<1>4. QED BY <1>2, <1>3

\* Whatever a crash stops, a deletion removes or an hour ages: the keys of what
\* is there stay as they were.
LEMMA OthersKeep ==
  ASSUME BackupsInv, \/ Crash \/ Tick \/ UNCHANGED vars
                     \/ \E id \in Stored : DeleteStored(id)
  PROVE  BackupsInv'
<1>1. UNCHANGED <<keys, rotating>> /\ All' = All /\ Idle' = Idle
  BY DEF Crash, Tick, vars, DeleteStored, All, Idle
<1>2. \A x : Ours(x)' <=> Ours(x)
  BY <1>1 DEF Ours
<1>3. CASE Crash
  BY <1>1, <1>2, <1>3 DEF Crash, BackupsInv, BackupsTypeOK, OursAll, OursAt
<1>4. CASE Tick
  <2>1. dir' = [i \in DOMAIN dir |-> [dir[i] EXCEPT !.age = Older(@, OldAge)]] /\ job' = job
    BY <1>4 DEF Tick
  <2>2. PICK L \in Nat : L = Len(dir) /\ DOMAIN dir = 1 .. L
    BY DEF BackupsInv, BackupsTypeOK
  <2>3. ASSUME NEW i \in 1 .. L
        PROVE  dir'[i] \in Archs /\ dir'[i].enc = dir[i].enc /\ dir'[i].mac = dir[i].mac
    <3>1. PICK f : f = dir[i] /\ f \in Archs
      BY <2>2 DEF BackupsInv, BackupsTypeOK
    <3>2. PICK age \in Nat : age = Older(f.age, OldAge)
      BY <3>1 DEF Older, Archs
    <3>3. dir'[i] = [f EXCEPT !.age = age]
      BY <2>1, <2>2, <3>1, <3>2
    <3>4. QED BY <3>1, <3>3 DEF Archs
  <2>4. dir' \in Seq(Archs) /\ Len(dir') = L
    <3>1. dir' \in [1 .. L -> Archs]
      BY <2>1, <2>2, <2>3
    <3>2. QED BY <3>1
  <2>5. QED BY <1>1, <1>2, <2>1, <2>2, <2>3, <2>4 DEF BackupsInv, BackupsTypeOK, OursAll, OursAt
<1>5. ASSUME NEW id \in Stored, DeleteStored(id) PROVE BackupsInv'
  <2>1. OursAll(dir') /\ job' = job
    BY <1>5, RemovedOurs DEF DeleteStored
  <2>2. QED BY <1>1, <1>2, <2>1 DEF BackupsInv, BackupsTypeOK, OursAll, OursAt
<1>6. CASE UNCHANGED vars
  BY <1>1, <1>2, <1>6 DEF vars, BackupsInv, BackupsTypeOK, OursAll, OursAt
<1>7. QED BY <1>3, <1>4, <1>5, <1>6

LEMMA BackupsStep ==
  ASSUME BackupsInv, [Next]_vars
  PROVE  BackupsInv'
  BY RunsKeep, StepKeeps, RotateKeeps, OthersKeep DEF Next

\* Every archive stored can be opened, and its MAC checked, with the key file
\* as it is, wherever a rotation falls between the encrypting and the signing
\* of one (backup._write_encrypted, archive_keys.rotate).
THEOREM ArchivesStayOpen == Spec => []ArchivesOpen
<1>1. BackupsInv => ArchivesOpen
  <2>1. SUFFICES ASSUME BackupsInv, NEW i \in DOMAIN dir, NEW x \in {dir[i].enc, dir[i].mac} \ {0}
                 PROVE  x \in Range(keys)
    BY DEF ArchivesOpen
  <2>2. Ours(x) /\ x # 0
    BY <2>1 DEF BackupsInv, BackupsTypeOK, OursAll
  <2>3. PICK n \in DOMAIN keys : keys[n] = x
    BY <2>1, <2>2 DEF Ours, BackupsInv, BackupsTypeOK
  <2>4. QED BY <2>3 DEF Range
<1>2. QED BY <1>1, BackupsStart, BackupsStep, PTL DEF Spec

-----------------------------------------------------------------------------
(* Some of the archives, in their order (Those): the places they come from. *)

\* f gives the places of S in their order.
Lists(f, S) ==
  /\ Cardinality(S) \in Nat /\ f \in [1 .. Cardinality(S) -> S]
  /\ \A m, n \in 1 .. Cardinality(S) : m < n => f[m] < f[n]
  /\ \A i \in S : \E n \in 1 .. Cardinality(S) : f[n] = i

LEMMA Listed ==
  ASSUME NEW L \in Nat, NEW S \in SUBSET (1 .. L)
  PROVE  Lists([n \in 1 .. Cardinality(S) |-> CHOOSE i \in S : Cardinality({j \in S : j <= i}) = n], S)
<1>1. PICK C \in Nat : C = Cardinality(S)
  BY PlacesAre
<1>2. PICK f : f = [n \in 1 .. C |-> CHOOSE i \in S : Cardinality({j \in S : j <= i}) = n]
  OBVIOUS
<1>3. ASSUME NEW n \in 1 .. C PROVE f[n] \in S /\ Rank(S)[f[n]] = n
  <2>1. PICK k \in S : Rank(S)[k] = n
    BY <1>1, EachPlaceIs
  <2>2. Cardinality({j \in S : j <= k}) = n
    BY <2>1 DEF Rank
  <2>3. f[n] \in S /\ Cardinality({j \in S : j <= f[n]}) = n
    BY <1>2, <2>2
  <2>4. QED BY <2>3 DEF Rank
<1>4. ASSUME NEW m \in 1 .. C, NEW n \in 1 .. C, m < n PROVE f[m] < f[n]
  <2>1. f[m] \in S /\ f[n] \in S /\ Rank(S)[f[m]] = m /\ Rank(S)[f[n]] = n
    BY <1>3
  <2>2. PICK i \in S, k \in S : i = f[m] /\ k = f[n] /\ Rank(S)[i] = m /\ Rank(S)[k] = n
    BY <2>1
  <2>3. Rank(S)[i] < Rank(S)[k]
    BY <1>4, <2>2
  <2>4. i < k
    BY <2>3, RankGrows
  <2>5. QED BY <2>2, <2>4
<1>5. ASSUME NEW i \in S PROVE \E n \in 1 .. C : f[n] = i
  <2>1. PICK n \in 1 .. C : n = Rank(S)[i]
    <3>1. Rank(S) \in [S -> 1 .. C]
      BY <1>1, PlacesAre
    <3>2. QED BY <3>1
  <2>2. f[n] \in S /\ Rank(S)[f[n]] = Rank(S)[i]
    BY <1>3, <2>1
  <2>3. f[n] = i
    BY <2>2, PlacesAre
  <2>4. QED BY <2>3
<1>6. f \in [1 .. C -> S]
  BY <1>2, <1>3
<1>7. QED BY <1>1, <1>2, <1>4, <1>5, <1>6 DEF Lists

LEMMA ThoseListed ==
  ASSUME dir \in Seq(Archs), NEW S \in SUBSET (DOMAIN dir)
  PROVE  \E f : Lists(f, S) /\ Those(S) = [n \in 1 .. Cardinality(S) |-> dir[f[n]]]
<1>1. PICK L \in Nat : L = Len(dir) /\ DOMAIN dir = 1 .. L
  OBVIOUS
<1>2. PICK f : f = [n \in 1 .. Cardinality(S) |-> CHOOSE i \in S : Cardinality({j \in S : j <= i}) = n]
  OBVIOUS
<1>3. S \in SUBSET (1 .. L)
  BY <1>1
<1>4. Lists(f, S)
  BY <1>2, <1>3, Listed
<1>5. Those(S) = [n \in 1 .. Cardinality(S) |-> dir[f[n]]]
  BY <1>2 DEF Those
<1>6. QED BY <1>4, <1>5

-----------------------------------------------------------------------------
(* What retention leaves.                                                  *)

\* No two archives have one name.
Distinct(archs) == \A i, j \in DOMAIN archs : archs[i].id = archs[j].id => i = j

\* The newest of a kind is at this place; a list names none of them.
FirstOfKind(archs, k, i) ==
  i \in DOMAIN archs /\ archs[i].kind = k /\ \A j \in DOMAIN archs : j < i => archs[j].kind # k
Spares(archs, todo) == \A k \in Kinds, i \in DOMAIN archs : FirstOfKind(archs, k, i) => archs[i].id \notin todo

\* Whoever works holds the lock, so the directory is pruned by one thread, and
\* nothing else is put there or deleted meanwhile.
OneAtWork == \A w \in All : job[w] # Idle => lock = {w}
SparesInv == OneAtWork /\ Distinct(dir) /\ \A w \in All : At(w, "prune") => Spares(dir, job[w].todo)

LEMMA DirIs ==
  ASSUME BackupsInv
  PROVE  dir \in Seq(Archs) /\ \E L \in Nat : L = Len(dir) /\ DOMAIN dir = 1 .. L
  BY DEF BackupsInv, BackupsTypeOK

\* What is left has names of its own.
LEMMA RemovedDistinct ==
  ASSUME BackupsInv, Distinct(dir), NEW S
  PROVE  Distinct(Removed(S))
<1>1. PICK places \in SUBSET (DOMAIN dir) : places = {i \in DOMAIN dir : dir[i].id \notin S} /\ Removed(S) = Those(places)
  BY DEF Removed
<1>2. PICK f : Lists(f, places) /\ Those(places) = [n \in 1 .. Cardinality(places) |-> dir[f[n]]]
  BY <1>1, DirIs, ThoseListed
<1>3. PICK C \in Nat : C = Cardinality(places)
  BY <1>2 DEF Lists
<1>4. ASSUME NEW m \in 1 .. C, NEW n \in 1 .. C, dir[f[m]].id = dir[f[n]].id PROVE m = n
  <2>1. f[m] \in DOMAIN dir /\ f[n] \in DOMAIN dir
    BY <1>2, <1>3 DEF Lists
  <2>2. f[m] = f[n]
    BY <1>4, <2>1 DEF Distinct
  <2>3. DOMAIN dir \subseteq Nat
    BY DirIs
  <2>4. ~(f[m] < f[n]) /\ ~(f[n] < f[m])
    BY <2>1, <2>2, <2>3
  <2>5. ~(m < n) /\ ~(n < m)
    BY <1>2, <1>3, <2>4 DEF Lists
  <2>6. QED BY <2>5
<1>5. QED BY <1>1, <1>2, <1>3, <1>4 DEF Distinct

\* Removing one of a list leaves the newest where they are, ahead of the rest.
LEMMA RemovedSpares ==
  ASSUME BackupsInv, NEW todo, NEW id \in todo, Spares(dir, todo)
  PROVE  Spares(Removed({id}), todo \ {id})
<1>1. PICK places \in SUBSET (DOMAIN dir) :
        places = {i \in DOMAIN dir : dir[i].id # id} /\ Removed({id}) = Those(places)
  BY DEF Removed
<1>2. PICK f : Lists(f, places) /\ Those(places) = [n \in 1 .. Cardinality(places) |-> dir[f[n]]]
  BY <1>1, DirIs, ThoseListed
<1>3. PICK C \in Nat : C = Cardinality(places)
  BY <1>2 DEF Lists
<1>4. PICK archs : archs = [n \in 1 .. C |-> dir[f[n]]] /\ archs = Removed({id})
  BY <1>1, <1>2, <1>3
<1>5. SUFFICES ASSUME NEW k \in Kinds, NEW n \in 1 .. C, FirstOfKind(archs, k, n) PROVE archs[n].id \notin todo
  BY <1>4 DEF Spares
<1>6. PICK i \in places : i = f[n] /\ archs[n] = dir[i] /\ dir[i].kind = k
  BY <1>2, <1>3, <1>4, <1>5 DEF Lists, FirstOfKind
<1>7. ASSUME NEW j \in places, j < i PROVE dir[j].kind # k
  <2>1. PICK m \in 1 .. C : f[m] = j
    BY <1>2, <1>3 DEF Lists
  <2>2. m < n
    <3>1. SUFFICES ASSUME ~(m < n) PROVE FALSE
      OBVIOUS
    <3>2. n < m \/ n = m
      BY <3>1
    <3>3. i < j \/ i = j
      BY <1>2, <1>3, <1>6, <2>1, <3>2 DEF Lists
    <3>4. i \in Nat /\ j \in Nat
      BY DirIs
    <3>5. QED BY <1>7, <3>3, <3>4
  <2>3. QED BY <1>4, <1>5, <2>1, <2>2 DEF FirstOfKind
<1>8. CASE \A j \in DOMAIN dir : j < i => dir[j].kind # k
  BY <1>6, <1>8 DEF FirstOfKind, Spares
<1>9. ASSUME NEW j \in DOMAIN dir, j < i, dir[j].kind = k PROVE FALSE
  <2>1. PICK L \in Nat : DOMAIN dir = 1 .. L
    BY DirIs
  <2>2. PICK K \in SUBSET (1 .. L) : K = {x \in DOMAIN dir : dir[x].kind = k}
    BY <2>1
  <2>3. PICK g : Lists(g, K)
    BY <2>1, <2>2, Listed
  <2>4. PICK m \in 1 .. Cardinality(K) : g[m] = j
    BY <1>9, <2>2, <2>3 DEF Lists
  <2>5. PICK first \in K : first = g[1] /\ \A x \in K : ~(x < first)
    <3>1. PICK D \in Nat : D = Cardinality(K)
      BY <2>3 DEF Lists
    <3>2. 1 \in 1 .. D
      BY <2>4, <3>1
    <3>3. g[1] \in K
      BY <2>3, <3>1, <3>2 DEF Lists
    <3>4. ASSUME NEW x \in K PROVE ~(x < g[1])
      <4>1. PICK y \in 1 .. D : g[y] = x
        BY <2>3, <3>1 DEF Lists
      <4>2. y = 1 \/ 1 < y
        OBVIOUS
      <4>3. x = g[1] \/ g[1] < x
        BY <2>3, <3>1, <3>2, <4>1, <4>2 DEF Lists
      <4>4. x \in 1 .. L /\ g[1] \in 1 .. L
        BY <2>2, <3>3
      <4>5. QED BY <4>3, <4>4
    <3>5. QED BY <3>3, <3>4
  <2>6. FirstOfKind(dir, k, first)
    BY <2>1, <2>2, <2>5 DEF FirstOfKind
  <2>7. dir[first].id \notin todo
    BY <2>6 DEF Spares, FirstOfKind
  <2>8. first \in places
    BY <1>1, <2>2, <2>7
  <2>9. ~(j < first) /\ j \in Nat /\ first \in Nat /\ i \in Nat
    BY <1>1, <1>9, <2>1, <2>2, <2>5
  <2>10. first < i
    BY <1>9, <2>9
  <2>11. QED BY <1>7, <2>2, <2>8, <2>10
<1>10. QED BY <1>8, <1>9

\* The archives of a kind, in their order.
PlacesOf(k) == {i \in DOMAIN dir : dir[i].kind = k}
LEMMA OfKindListed ==
  ASSUME BackupsInv, NEW k
  PROVE  \E f : Lists(f, PlacesOf(k)) /\ OfKind(k) = [n \in 1 .. Cardinality(PlacesOf(k)) |-> dir[f[n]]]
<1>1. PICK K \in SUBSET (DOMAIN dir) : K = PlacesOf(k)
  BY DEF PlacesOf
<1>2. OfKind(k) = Those(K)
  BY <1>1 DEF OfKind, PlacesOf
<1>3. QED BY <1>1, <1>2, DirIs, ThoseListed

\* What retention lists spares the newest of each kind.
LEMMA ListSpares ==
  ASSUME BackupsInv, Distinct(dir)
  PROVE  Spares(dir, (UNION {Expired(k) : k \in Kinds}) \union BeyondKeep)
<1>1. SUFFICES ASSUME NEW k \in Kinds, NEW i \in DOMAIN dir, FirstOfKind(dir, k, i)
               PROVE  dir[i].id \notin UNION {Expired(o) : o \in Kinds} /\ dir[i].id \notin BeyondKeep
  BY DEF Spares
<1>2. ASSUME NEW o, dir[i].id \in Expired(o) PROVE FALSE
  <2>1. PICK f : Lists(f, PlacesOf(o)) /\ OfKind(o) = [n \in 1 .. Cardinality(PlacesOf(o)) |-> dir[f[n]]]
    BY OfKindListed
  <2>2. PICK C \in Nat : C = Cardinality(PlacesOf(o))
    BY <2>1 DEF Lists
  <2>3. PICK n \in 1 .. C : n > 1 /\ dir[f[n]].id = dir[i].id
    <3>1. PICK old : old = OfKind(o) /\ DOMAIN old = 1 .. C /\ \A n \in 1 .. C : old[n] = dir[f[n]]
      BY <2>1, <2>2
    <3>2. PICK n \in {j \in DOMAIN old : j > 1 /\ Retention > 0 /\ old[j].age > Retention} : dir[i].id = old[n].id
      BY <1>2, <3>1, Zenon DEF Expired
    <3>3. QED BY <3>1, <3>2
  <2>4. f[n] \in PlacesOf(o) /\ f[1] \in PlacesOf(o) /\ f[1] < f[n]
    BY <2>1, <2>2, <2>3 DEF Lists
  <2>5. f[n] = i
    BY <2>1, <2>3, <2>4 DEF Distinct, PlacesOf
  <2>6. o = k
    BY <1>1, <2>1, <2>4, <2>5 DEF FirstOfKind, PlacesOf
  <2>7. QED BY <1>1, <2>1, <2>4, <2>5, <2>6 DEF FirstOfKind, PlacesOf
<1>3. ASSUME dir[i].id \in BeyondKeep PROVE FALSE
  <2>1. PICK f : Lists(f, PlacesOf("safety")) /\ OfKind("safety") = [n \in 1 .. Cardinality(PlacesOf("safety")) |-> dir[f[n]]]
    BY OfKindListed
  <2>2. PICK C \in Nat : C = Cardinality(PlacesOf("safety"))
    BY <2>1 DEF Lists
  <2>3. PICK n \in 1 .. C : dir[f[n]].id = dir[i].id
    <3>1. PICK safe : safe = OfKind("safety") /\ DOMAIN safe = 1 .. C /\ \A n \in 1 .. C : safe[n] = dir[f[n]]
      BY <2>1, <2>2
    <3>2. PICK n \in {j \in DOMAIN safe : j > Keep} : dir[i].id = safe[n].id
      BY <1>3, <3>1, Zenon DEF BeyondKeep
    <3>3. QED BY <3>1, <3>2
  <2>4. f[n] \in PlacesOf("safety")
    BY <2>1, <2>2, <2>3 DEF Lists
  <2>5. f[n] = i
    BY <2>1, <2>3, <2>4 DEF Distinct, PlacesOf
  <2>6. QED BY <1>1, <2>1, <2>4, <2>5 DEF FirstOfKind, PlacesOf, Kinds
<1>4. QED BY <1>2, <1>3

\* A list that spares the newest names none that comes first of its kind.
LEMMA SparedIsFirst ==
  ASSUME BackupsInv, NEW todo, Spares(dir, todo), NEW k \in Kinds, OfKind(k) # <<>>
  PROVE  OfKind(k)[1].id \notin todo
<1>1. PICK f : Lists(f, PlacesOf(k)) /\ OfKind(k) = [n \in 1 .. Cardinality(PlacesOf(k)) |-> dir[f[n]]]
  BY OfKindListed
<1>2. PICK C \in Nat : C = Cardinality(PlacesOf(k))
  BY <1>1 DEF Lists
<1>3. C # 0
  <2>1. SUFFICES ASSUME C = 0 PROVE FALSE
    OBVIOUS
  <2>2. 1 .. C = {}
    BY <2>1
  <2>3. OfKind(k) = <<>>
    BY <1>1, <1>2, <2>2
  <2>4. QED BY <2>3
<1>4. 1 \in 1 .. C /\ OfKind(k)[1] = dir[f[1]] /\ f[1] \in PlacesOf(k)
  BY <1>1, <1>2, <1>3 DEF Lists
<1>5. ASSUME NEW j \in DOMAIN dir, j < f[1] PROVE dir[j].kind # k
  <2>1. SUFFICES ASSUME j \in PlacesOf(k) PROVE FALSE
    BY DEF PlacesOf
  <2>2. PICK y \in 1 .. C : f[y] = j
    BY <1>1, <1>2, <2>1 DEF Lists
  <2>3. y = 1 \/ 1 < y
    OBVIOUS
  <2>4. j = f[1] \/ f[1] < j
    BY <1>1, <1>2, <1>4, <2>2, <2>3 DEF Lists
  <2>5. DOMAIN dir \subseteq Nat
    BY DirIs
  <2>6. j \in Nat /\ f[1] \in Nat
    BY <1>4, <2>5 DEF PlacesOf
  <2>7. QED BY <1>5, <2>4, <2>6
<1>6. FirstOfKind(dir, k, f[1])
  BY <1>1, <1>4, <1>5 DEF FirstOfKind, PlacesOf
<1>7. QED BY <1>4, <1>6 DEF Spares, FirstOfKind

\* A step of the thread that has the lock.
LEMMA HolderSpares ==
  ASSUME BackupsInv, SparesInv, NEW w \in All, job[w] # Idle, Distinct(dir'),
         \A v \in All : v # w => job'[v] = job[v], lock' = lock \/ job'[w] = Idle,
         job'[w].at = "prune" => Spares(dir', job'[w].todo)
  PROVE  SparesInv'
<1>1. All' = All /\ Idle' = Idle
  BY DEF All, Idle
<1>2. lock = {w}
  BY DEF SparesInv, OneAtWork
<1>3. \A v \in All : v # w => job'[v] = Idle
  BY <1>2 DEF SparesInv, OneAtWork
<1>4. OneAtWork'
  BY <1>1, <1>2, <1>3 DEF OneAtWork
<1>5. ASSUME NEW v \in All, job'[v].at = "prune" PROVE Spares(dir', job'[v].todo)
  <2>1. v = w
    BY <1>3, <1>5 DEF Idle
  <2>2. QED BY <1>5, <2>1
<1>6. (\A v \in All : At(v, "prune") => Spares(dir, job[v].todo))'
  BY <1>1, <1>5 DEF At, Spares, FirstOfKind, Kinds
<1>7. QED BY <1>4, <1>6 DEF SparesInv, Distinct

\* Without the lock taken nobody is at anything.
LEMMA FreeIsIdle ==
  ASSUME SparesInv, lock = {}
  PROVE  \A w \in All : job[w] = Idle
  BY DEF SparesInv, OneAtWork

\* Nobody is pruning: what is in the directory only has names of its own.
LEMMA NobodyPrunes ==
  ASSUME OneAtWork', Distinct(dir'), \A w \in All : job'[w].at # "prune"
  PROVE  SparesInv'
<1>1. All' = All
  BY DEF All
<1>2. (\A w \in All : At(w, "prune") => Spares(dir, job[w].todo))'
  BY <1>1 DEF At
<1>3. QED BY <1>2 DEF SparesInv, Distinct

LEMMA TakesSpares ==
  ASSUME BackupsInv, SparesInv, NEW w \in All, NEW kind, NEW for, NEW held, Takes(w, kind, for, held), dir' = dir
  PROVE  SparesInv'
<1>1. PICK new : new = [at |-> "begun", kind |-> kind, for |-> for, protect |-> held,
                        id |-> 0, enc |-> 0, mac |-> 0, todo |-> {}]
  OBVIOUS
<1>2. lock = {} /\ lock' = {w} /\ job' = [job EXCEPT ![w] = new]
  BY <1>1 DEF Takes
<1>3. \A v \in All : job'[v] = IF v = w THEN new ELSE Idle
  BY <1>2, FreeIsIdle DEF BackupsInv, BackupsTypeOK
<1>4. All' = All /\ Idle' = Idle
  BY DEF All, Idle
<1>5. OneAtWork'
  BY <1>2, <1>3, <1>4 DEF OneAtWork
<1>6. \A v \in All : job'[v].at # "prune"
  BY <1>1, <1>3 DEF Idle
<1>7. Distinct(dir')
  BY DEF SparesInv
<1>8. QED BY <1>5, <1>6, <1>7, NobodyPrunes

LEMMA RunsSpare ==
  ASSUME BackupsInv, SparesInv,
         \/ \E w \in All, k \in Kinds : RunManual(w, k)
         \/ \E w \in Workers, id \in Stored : RunRestore(w, id)
         \/ RunScheduled
  PROVE  SparesInv'
<1>1. ASSUME NEW w \in All, NEW k \in Kinds, RunManual(w, k) PROVE SparesInv'
  BY <1>1, TakesSpares DEF RunManual
<1>2. ASSUME NEW w \in Workers, NEW id \in Stored, RunRestore(w, id) PROVE SparesInv'
  BY <1>2, TakesSpares DEF RunRestore, All
<1>3. CASE RunScheduled
  BY <1>3, TakesSpares DEF RunScheduled, All
<1>4. QED BY <1>1, <1>2, <1>3

\* A new archive has a name of its own.
LEMMA PlaceSpares ==
  ASSUME BackupsInv, SparesInv, NEW w \in All, Place(w)
  PROVE  SparesInv'
<1>1. PICK old : old = job[w] /\ old \in Jobs /\ old # Idle
  BY AtWork DEF Place, At, Idle
<1>2. PICK id : id = NewId /\ id \in Nat /\ id \notin Stored
  BY DirIs, NewIdIs
<1>3. PICK new : new = [id |-> id, kind |-> old.kind, age |-> 0, enc |-> old.enc, mac |-> old.mac]
  OBVIOUS
<1>4. new \in Archs /\ new.id = id /\ dir' = <<new>> \o dir
  BY <1>1, <1>2, <1>3 DEF Archs, Jobs, Place
<1>5. PICK L \in Nat : L = Len(dir) /\ DOMAIN dir = 1 .. L /\ dir \in Seq(Archs)
  BY DirIs
<1>6. DOMAIN dir' = 1 .. L + 1 /\ \A i \in 1 .. L + 1 : dir'[i] = IF i = 1 THEN new ELSE dir[i - 1]
  BY <1>4, <1>5
<1>7. ASSUME NEW i \in 1 .. L + 1, NEW j \in 1 .. L + 1, i < j, dir'[i].id = dir'[j].id PROVE FALSE
  <2>1. j - 1 \in 1 .. L /\ dir'[j] = dir[j - 1]
    BY <1>6, <1>7
  <2>2. CASE i = 1
    <3>1. dir[j - 1].id \in Stored
      BY <1>5, <2>1 DEF Stored
    <3>2. dir'[i].id = id
      BY <1>4, <1>6, <2>2
    <3>3. QED BY <1>2, <1>7, <2>1, <3>1, <3>2
  <2>3. CASE i # 1
    <3>1. i - 1 \in 1 .. L /\ dir'[i] = dir[i - 1] /\ i - 1 # j - 1
      BY <1>6, <1>7, <2>3
    <3>2. QED BY <1>5, <1>7, <2>1, <3>1 DEF SparesInv, Distinct
  <2>4. QED BY <2>2, <2>3
<1>8. Distinct(dir')
  <2>1. ASSUME NEW i \in 1 .. L + 1, NEW j \in 1 .. L + 1, dir'[i].id = dir'[j].id PROVE i = j
    <3>1. ~(i < j) /\ ~(j < i)
      BY <1>7, <2>1
    <3>2. QED BY <3>1
  <2>2. QED BY <1>6, <2>1 DEF Distinct
<1>9. PICK at \in {"verify", "placed"} : at = IF old.for = "restore" THEN "verify" ELSE "placed"
  OBVIOUS
<1>10. PICK next : next = [old EXCEPT !.at = at, !.id = id]
  OBVIOUS
<1>11. next.at = at /\ job' = [job EXCEPT ![w] = next] /\ lock' = lock
  BY <1>1, <1>2, <1>9, <1>10 DEF Jobs, Place
<1>12. job'[w].at # "prune" /\ \A v \in All : v # w => job'[v] = job[v]
  BY <1>9, <1>11 DEF BackupsInv, BackupsTypeOK
<1>13. QED BY <1>1, <1>8, <1>11, <1>12, HolderSpares

LEMMA StepSpares ==
  ASSUME BackupsInv, SparesInv, NEW w \in All, Step(w)
  PROVE  SparesInv'
<1>1. PICK old : old = job[w] /\ old \in Jobs /\ old # Idle
  <2>1. job[w].at # "idle"
    BY DEF Step, Encrypt, Sign, Place, WriteFails, PruneLists, PruneOne, PruneFails, Succeeds, Fails,
           SettingUnread, VerifyFails, Verified, RestoreEnds, At
  <2>2. QED BY <2>1, AtWork DEF Idle
<1>2. Distinct(dir) /\ job \in [All -> Jobs \union {Idle}]
  BY DEF SparesInv, BackupsInv, BackupsTypeOK
<1>3. ASSUME Distinct(dir'), lock' = lock \/ job'[w] = Idle, NEW new, job' = [job EXCEPT ![w] = new],
             new.at = "prune" => Spares(dir', new.todo)
      PROVE  SparesInv'
  <2>1. job'[w] = new /\ \A v \in All : v # w => job'[v] = job[v]
    BY <1>2, <1>3
  <2>2. QED BY <1>1, <1>3, <2>1, HolderSpares
<1>4. CASE Encrypt(w) \/ Sign(w)
  <2>1. lock' = lock /\ dir' = dir
    BY <1>4 DEF Encrypt, Sign
  <2>2. CASE Encrypt(w)
    <3>1. PICK new : new = [old EXCEPT !.at = "writing", !.enc = keys[1]]
      OBVIOUS
    <3>2. job' = [job EXCEPT ![w] = new] /\ new.at = "writing"
      BY <1>1, <2>2, <3>1 DEF Encrypt, Jobs
    <3>3. QED BY <1>2, <1>3, <2>1, <3>2
  <2>3. CASE Sign(w)
    <3>1. PICK new : new = [old EXCEPT !.at = "signed", !.mac = keys[1]]
      OBVIOUS
    <3>2. job' = [job EXCEPT ![w] = new] /\ new.at = "signed"
      BY <1>1, <2>3, <3>1 DEF Sign, Jobs
    <3>3. QED BY <1>2, <1>3, <2>1, <3>2
  <2>4. QED BY <1>4, <2>2, <2>3
<1>5. ASSUME Release(w), Distinct(dir') PROVE SparesInv'
  <2>1. job' = [job EXCEPT ![w] = Idle] /\ Idle.at # "prune" /\ job'[w] = Idle
    BY <1>2, <1>5 DEF Release, Idle
  <2>2. QED BY <1>3, <1>5, <2>1
<1>6. ASSUME NEW at \in {"failed", "restoring", "lost"}, Goto(w, at), lock' = lock, Distinct(dir') PROVE SparesInv'
  <2>1. PICK new : new = [old EXCEPT !.at = at]
    OBVIOUS
  <2>2. job' = [job EXCEPT ![w] = new] /\ new.at = at
    BY <1>1, <1>6, <2>1 DEF Goto, Jobs
  <2>3. QED BY <1>3, <1>6, <2>2
<1>7. CASE WriteFails(w)
  BY <1>2, <1>5, <1>6, <1>7 DEF WriteFails
<1>8. CASE PruneFails(w) \/ Succeeds(w) \/ Fails(w) \/ SettingUnread(w) \/ RestoreEnds(w)
  BY <1>2, <1>5, <1>6, <1>8 DEF PruneFails, Succeeds, Fails, SettingUnread, RestoreEnds
<1>9. CASE VerifyFails(w) \/ Verified(w)
  <2>1. Distinct(dir')
    BY <1>2, <1>9, RemovedDistinct DEF VerifyFails, Verified
  <2>2. QED BY <1>5, <1>6, <1>9, <2>1 DEF VerifyFails, Verified
<1>10. CASE PruneLists(w)
  <2>1. PICK todo : todo = (UNION {Expired(k) : k \in Kinds}) \union BeyondKeep
    OBVIOUS
  <2>2. Spares(dir, todo)
    BY <1>2, <2>1, ListSpares
  <2>3. PICK new : new = [old EXCEPT !.at = "prune", !.todo = todo]
    OBVIOUS
  <2>4. job' = [job EXCEPT ![w] = new] /\ new.todo = todo /\ lock' = lock /\ dir' = dir
    BY <1>1, <1>10, <2>1, <2>3 DEF PruneLists, Jobs
  <2>5. Spares(dir', new.todo)
    BY <2>2, <2>4
  <2>6. QED BY <1>2, <1>3, <2>4, <2>5
<1>11. CASE PruneOne(w)
  <2>1. PICK id \in old.todo : dir' = Removed({id}) /\ job' = [job EXCEPT ![w].todo = @ \ {id}]
    BY <1>1, <1>11 DEF PruneOne
  <2>2. Spares(dir, old.todo)
    BY <1>1, <1>11 DEF PruneOne, SparesInv, At
  <2>3. PICK todo : todo = old.todo \ {id}
    OBVIOUS
  <2>4. Spares(dir', todo) /\ Distinct(dir')
    BY <1>2, <2>1, <2>2, <2>3, RemovedSpares, RemovedDistinct
  <2>5. PICK new : new = [old EXCEPT !.todo = todo]
    OBVIOUS
  <2>6. job' = [job EXCEPT ![w] = new] /\ new.todo = todo /\ lock' = lock
    BY <1>1, <1>11, <2>1, <2>3, <2>5 DEF PruneOne, Jobs
  <2>7. QED BY <1>3, <2>4, <2>6
<1>12. QED BY <1>4, <1>7, <1>8, <1>9, <1>10, <1>11, PlaceSpares DEF Step

\* A rotation, a crash, a deletion and an hour: none at a time when it matters.
LEMMA OthersSpare ==
  ASSUME BackupsInv, SparesInv, \/ RotateReads \/ RotateWrites \/ Crash \/ Tick \/ UNCHANGED vars
                                \/ \E id \in Stored : DeleteStored(id)
  PROVE  SparesInv'
<1>1. All' = All /\ Idle' = Idle
  BY DEF All, Idle
<1>2. CASE RotateReads \/ RotateWrites \/ UNCHANGED vars
  <2>1. UNCHANGED <<dir, lock, job>>
    BY <1>2 DEF RotateReads, RotateWrites, vars
  <2>2. OneAtWork'
    BY <1>1, <2>1 DEF SparesInv, OneAtWork
  <2>3. (\A w \in All : At(w, "prune") => Spares(dir, job[w].todo))'
    BY <1>1, <2>1 DEF SparesInv, At, Spares, FirstOfKind, Kinds
  <2>4. QED BY <2>1, <2>2, <2>3 DEF SparesInv, Distinct
<1>3. CASE Crash
  <2>1. \A w \in All : job'[w] = Idle
    BY <1>3 DEF Crash
  <2>2. OneAtWork'
    BY <1>1, <2>1 DEF OneAtWork
  <2>3. (\A w \in All : job'[w].at # "prune") /\ Distinct(dir')
    BY <1>3, <2>1 DEF Crash, Idle, SparesInv
  <2>4. QED BY <2>2, <2>3, NobodyPrunes
<1>4. ASSUME NEW id \in Stored, DeleteStored(id) PROVE SparesInv'
  <2>1. lock = {} /\ dir' = Removed({id}) /\ job' = job
    BY <1>4 DEF DeleteStored
  <2>2. \A w \in All : job'[w] = Idle
    BY <2>1, FreeIsIdle
  <2>3. OneAtWork'
    BY <1>1, <2>2 DEF OneAtWork
  <2>4. (\A w \in All : job'[w].at # "prune") /\ Distinct(dir')
    BY <2>1, <2>2, RemovedDistinct DEF Idle, SparesInv
  <2>5. QED BY <2>3, <2>4, NobodyPrunes
<1>5. CASE Tick
  <2>1. dir' = [i \in DOMAIN dir |-> [dir[i] EXCEPT !.age = Older(@, OldAge)]] /\ UNCHANGED <<job, lock>>
    BY <1>5 DEF Tick
  <2>2. DOMAIN dir' = DOMAIN dir /\ \A i \in DOMAIN dir : dir[i] \in Archs
    BY <2>1, DirIs
  <2>3. ASSUME NEW i \in DOMAIN dir PROVE dir'[i].id = dir[i].id /\ dir'[i].kind = dir[i].kind
    <3>1. PICK f : f = dir[i] /\ f \in Archs
      BY <2>2
    <3>2. dir'[i] = [f EXCEPT !.age = Older(f.age, OldAge)]
      BY <2>1, <3>1
    <3>3. QED BY <3>1, <3>2 DEF Archs
  <2>4. Distinct(dir')
    BY <2>2, <2>3 DEF SparesInv, Distinct
  <2>5. \A todo : Spares(dir, todo) => Spares(dir', todo)
    BY <2>2, <2>3 DEF Spares, FirstOfKind
  <2>6. OneAtWork'
    BY <1>1, <2>1 DEF SparesInv, OneAtWork
  <2>7. ASSUME NEW w \in All, job[w].at = "prune" PROVE Spares(dir', job[w].todo)
    BY <2>5, <2>7 DEF SparesInv, At
  <2>8. (\A w \in All : At(w, "prune") => Spares(dir, job[w].todo))'
    BY <1>1, <2>1, <2>7 DEF At, Spares, FirstOfKind, Kinds
  <2>9. QED BY <2>4, <2>6, <2>8 DEF SparesInv, Distinct
<1>6. QED BY <1>2, <1>3, <1>4, <1>5

\* What retention is about to delete, and what it has deleted, leaves the
\* newest archive of each kind (backup.prune).
THEOREM NewestIsKept == Spec => []NewestStays
<1>1. BackupsInv /\ SparesInv => NewestStays
  <2>1. SUFFICES ASSUME BackupsInv, SparesInv, NEW w \in All, NEW k \in Kinds, OfKind(k) # <<>>, At(w, "prune")
                 PROVE  OfKind(k)[1].id \notin job[w].todo
    BY DEF NewestStays
  <2>2. Spares(dir, job[w].todo)
    BY <2>1 DEF SparesInv
  <2>3. QED BY <2>1, <2>2, SparedIsFirst
<1>2. Init => SparesInv
  <2>1. SUFFICES ASSUME Init PROVE SparesInv
    OBVIOUS
  <2>2. DOMAIN dir = {} /\ \A w \in All : job[w] = Idle
    BY <2>1 DEF Init
  <2>3. QED BY <2>2 DEF SparesInv, OneAtWork, Distinct, At, Idle
<1>3. BackupsInv /\ SparesInv /\ [Next]_vars => SparesInv'
  BY RunsSpare, StepSpares, OthersSpare DEF Next
<1>4. BackupsInv /\ [Next]_vars => BackupsInv'
  BY BackupsStep
<1>5. QED BY <1>1, <1>2, <1>3, <1>4, BackupsStart, PTL DEF Spec

-----------------------------------------------------------------------------
(* An archive under its own name is signed.                                *)

\* No identity is 0, and what is about to be placed has been signed.
SignedInv ==
  /\ \A n \in 1 .. Len(keys) : keys[n] # 0
  /\ \A i \in DOMAIN dir : dir[i].mac # 0
  /\ \A w \in All : At(w, "signed") => job[w].mac # 0

LEMMA RemovedSigned ==
  ASSUME BackupsInv, SignedInv, NEW S
  PROVE  \A i \in DOMAIN Removed(S) : Removed(S)[i].mac # 0
<1>1. PICK places \in SUBSET (DOMAIN dir) : Removed(S) = Those(places)
  BY DEF Removed
<1>2. PICK f : f = Those(places)
  OBVIOUS
<1>3. f \in Seq(Archs) /\ \A n \in 1 .. Len(f) : \E i \in places : f[n] = dir[i]
  BY <1>1, <1>2, DirIs, ThoseAre
<1>4. \A n \in DOMAIN f : f[n].mac # 0
  BY <1>1, <1>3 DEF SignedInv
<1>5. QED BY <1>1, <1>2, <1>4

\* One thread goes on, and is not at `signed` unless it has signed.
LEMMA SignedGoesOn ==
  ASSUME BackupsInv, SignedInv, UNCHANGED keys, \A i \in DOMAIN dir' : dir'[i].mac # 0,
         NEW w \in All, NEW new, job' = [job EXCEPT ![w] = new], new.at = "signed" => (new.mac # 0)
  PROVE  SignedInv'
<1>1. All' = All
  BY DEF All
<1>2. \A v \in All : job'[v] = IF v = w THEN new ELSE job[v]
  BY DEF BackupsInv, BackupsTypeOK
<1>3. QED BY <1>1, <1>2 DEF SignedInv, At

LEMMA RunsSign ==
  ASSUME BackupsInv, SignedInv,
         \/ \E w \in All, k \in Kinds : RunManual(w, k)
         \/ \E w \in Workers, id \in Stored : RunRestore(w, id)
         \/ RunScheduled
  PROVE  SignedInv'
<1>1. ASSUME NEW w \in All, NEW kind, NEW for, NEW held, Takes(w, kind, for, held), UNCHANGED <<dir, keys>>
      PROVE  SignedInv'
  <2>1. PICK new : new = [at |-> "begun", kind |-> kind, for |-> for, protect |-> held,
                          id |-> 0, enc |-> 0, mac |-> 0, todo |-> {}]
    OBVIOUS
  <2>2. job' = [job EXCEPT ![w] = new] /\ new.at = "begun"
    BY <1>1, <2>1 DEF Takes
  <2>3. \A i \in DOMAIN dir' : dir'[i].mac # 0
    BY <1>1 DEF SignedInv
  <2>4. QED BY <1>1, <2>2, <2>3, SignedGoesOn
<1>2. ASSUME NEW w \in All, NEW k \in Kinds, RunManual(w, k) PROVE SignedInv'
  BY <1>1, <1>2 DEF RunManual
<1>3. ASSUME NEW w \in Workers, NEW id \in Stored, RunRestore(w, id) PROVE SignedInv'
  BY <1>1, <1>3 DEF RunRestore, All
<1>4. CASE RunScheduled
  BY <1>1, <1>4 DEF RunScheduled, All
<1>5. QED BY <1>2, <1>3, <1>4

LEMMA StepSigns ==
  ASSUME BackupsInv, SignedInv, NEW w \in All, Step(w)
  PROVE  SignedInv'
<1>1. PICK old : old = job[w] /\ old \in Jobs
  <2>1. job[w].at # "idle"
    BY DEF Step, Encrypt, Sign, Place, WriteFails, PruneLists, PruneOne, PruneFails, Succeeds, Fails,
           SettingUnread, VerifyFails, Verified, RestoreEnds, At
  <2>2. QED BY <2>1, AtWork
<1>2. \A i \in DOMAIN dir : dir[i].mac # 0
  BY DEF SignedInv
<1>3. CASE Sign(w)
  <2>1. keys[1] # 0
    BY DEF SignedInv, BackupsInv, BackupsTypeOK
  <2>2. PICK new : new = [old EXCEPT !.at = "signed", !.mac = keys[1]]
    OBVIOUS
  <2>3. job' = [job EXCEPT ![w] = new] /\ new.mac = keys[1] /\ UNCHANGED <<keys, dir>>
    BY <1>1, <1>3, <2>2 DEF Sign, Jobs
  <2>4. QED BY <1>2, <2>1, <2>3, SignedGoesOn
<1>4. CASE Encrypt(w)
  <2>1. PICK new : new = [old EXCEPT !.at = "writing", !.enc = keys[1]]
    OBVIOUS
  <2>2. job' = [job EXCEPT ![w] = new] /\ new.at = "writing" /\ UNCHANGED <<keys, dir>>
    BY <1>1, <1>4, <2>1 DEF Encrypt, Jobs
  <2>3. QED BY <1>2, <2>2, SignedGoesOn
<1>5. CASE Place(w)
  <2>1. old.mac # 0 /\ old.at = "signed"
    BY <1>1, <1>5 DEF Place, At, SignedInv
  <2>2. PICK id \in Nat : id = NewId
    BY DirIs, NewIdIs
  <2>3. PICK arch : arch = [id |-> id, kind |-> old.kind, age |-> 0, enc |-> old.enc, mac |-> old.mac]
    OBVIOUS
  <2>4. arch \in Archs /\ arch.mac # 0 /\ dir' = <<arch>> \o dir
    BY <1>1, <1>5, <2>1, <2>2, <2>3 DEF Archs, Jobs, Place
  <2>5. PICK L \in Nat : L = Len(dir) /\ DOMAIN dir = 1 .. L /\ dir \in Seq(Archs)
    BY DirIs
  <2>6. DOMAIN dir' = 1 .. L + 1 /\ \A i \in 1 .. L + 1 : dir'[i] = IF i = 1 THEN arch ELSE dir[i - 1]
    BY <2>4, <2>5
  <2>7. ASSUME NEW i \in 1 .. L + 1 PROVE dir'[i].mac # 0
    <3>1. CASE i = 1
      BY <2>4, <2>6, <3>1
    <3>2. CASE i # 1
      <4>1. i - 1 \in 1 .. L
        BY <3>2
      <4>2. QED BY <1>2, <2>5, <2>6, <3>2, <4>1
    <3>3. QED BY <3>1, <3>2
  <2>8. PICK at \in {"verify", "placed"} : at = IF old.for = "restore" THEN "verify" ELSE "placed"
    OBVIOUS
  <2>9. PICK next : next = [old EXCEPT !.at = at, !.id = id]
    OBVIOUS
  <2>10. job' = [job EXCEPT ![w] = next] /\ next.at = at /\ keys' = keys
    BY <1>1, <1>5, <2>2, <2>8, <2>9 DEF Place, Jobs
  <2>11. QED BY <2>6, <2>7, <2>8, <2>10, SignedGoesOn
<1>6. ASSUME Release(w), keys' = keys, \A i \in DOMAIN dir' : dir'[i].mac # 0 PROVE SignedInv'
  BY <1>6, SignedGoesOn DEF Release, Idle
<1>7. ASSUME NEW at \in {"failed", "restoring", "lost"}, Goto(w, at), keys' = keys, \A i \in DOMAIN dir' : dir'[i].mac # 0
      PROVE  SignedInv'
  <2>1. PICK new : new = [old EXCEPT !.at = at]
    OBVIOUS
  <2>2. job' = [job EXCEPT ![w] = new] /\ new.at = at
    BY <1>1, <1>7, <2>1 DEF Goto, Jobs
  <2>3. QED BY <1>7, <2>2, SignedGoesOn
<1>8. CASE WriteFails(w)
  BY <1>2, <1>6, <1>7, <1>8 DEF WriteFails
<1>9. CASE PruneFails(w) \/ Succeeds(w) \/ Fails(w) \/ SettingUnread(w) \/ RestoreEnds(w)
  BY <1>2, <1>6, <1>7, <1>9 DEF PruneFails, Succeeds, Fails, SettingUnread, RestoreEnds
<1>10. CASE VerifyFails(w) \/ Verified(w)
  <2>1. PICK S : dir' = Removed(S)
    BY <1>10 DEF VerifyFails, Verified
  <2>2. \A i \in DOMAIN dir' : dir'[i].mac # 0
    BY <2>1, RemovedSigned
  <2>3. QED BY <1>6, <1>7, <1>10, <2>2 DEF VerifyFails, Verified
<1>11. CASE PruneLists(w)
  <2>1. PICK todo : todo = (UNION {Expired(k) : k \in Kinds}) \union BeyondKeep
    OBVIOUS
  <2>2. PICK new : new = [old EXCEPT !.at = "prune", !.todo = todo]
    OBVIOUS
  <2>3. job' = [job EXCEPT ![w] = new] /\ new.at = "prune" /\ UNCHANGED <<keys, dir>>
    BY <1>1, <1>11, <2>1, <2>2 DEF PruneLists, Jobs
  <2>4. QED BY <1>2, <2>3, SignedGoesOn
<1>12. CASE PruneOne(w)
  <2>1. PICK gone : dir' = Removed(gone) /\ job' = [job EXCEPT ![w].todo = @ \ gone]
    BY <1>12 DEF PruneOne
  <2>2. PICK new : new = [old EXCEPT !.todo = old.todo \ gone]
    OBVIOUS
  <2>3. job' = [job EXCEPT ![w] = new] /\ new.at = "prune" /\ keys' = keys
    BY <1>1, <1>12, <2>1, <2>2 DEF PruneOne, Jobs, At
  <2>4. \A i \in DOMAIN dir' : dir'[i].mac # 0
    BY <2>1, RemovedSigned
  <2>5. QED BY <2>3, <2>4, SignedGoesOn
<1>13. QED BY <1>3, <1>4, <1>5, <1>8, <1>9, <1>10, <1>11, <1>12 DEF Step

\* A rotation mints an identity by its number in the file, counted from 1.
LEMMA OthersSign ==
  ASSUME BackupsInv, SignedInv, \/ RotateReads \/ RotateWrites \/ Crash \/ Tick \/ UNCHANGED vars
                                \/ \E id \in Stored : DeleteStored(id)
  PROVE  SignedInv'
<1>1. All' = All
  BY DEF All
<1>2. \A i \in DOMAIN dir : dir[i].mac # 0
  BY DEF SignedInv
<1>3. CASE RotateReads \/ UNCHANGED vars
  BY <1>1, <1>3 DEF RotateReads, vars, SignedInv, At
<1>4. CASE RotateWrites
  <2>1. PICK k \in Nat : k = Len(keys) + 1 /\ k # 0
    BY DEF BackupsInv, BackupsTypeOK
  <2>2. keys' = <<k>> \o keys /\ UNCHANGED <<dir, job>>
    BY <1>4, <2>1 DEF RotateWrites, BackupsInv, Made
  <2>3. PICK K \in Nat : K = Len(keys)
    BY DEF BackupsInv, BackupsTypeOK
  <2>4. keys \in Seq(Nat)
    BY DEF BackupsInv, BackupsTypeOK
  <2>5. Len(keys') = K + 1 /\ \A n \in 1 .. K + 1 : keys'[n] = IF n = 1 THEN k ELSE keys[n - 1]
    BY <2>1, <2>2, <2>3, <2>4
  <2>6. ASSUME NEW n \in 1 .. K + 1 PROVE keys'[n] # 0
    <3>1. CASE n = 1
      BY <2>1, <2>5, <3>1
    <3>2. CASE n # 1
      <4>1. n - 1 \in 1 .. K
        BY <3>2
      <4>2. QED BY <2>3, <2>5, <3>2, <4>1 DEF SignedInv
    <3>3. QED BY <3>1, <3>2
  <2>7. QED BY <1>1, <2>2, <2>3, <2>5, <2>6 DEF SignedInv, At
<1>5. CASE Crash
  <2>1. (\A w \in All : job'[w] = Idle) /\ UNCHANGED <<keys, dir>>
    BY <1>5 DEF Crash
  <2>2. QED BY <1>1, <2>1 DEF SignedInv, At, Idle
<1>6. ASSUME NEW id \in Stored, DeleteStored(id) PROVE SignedInv'
  <2>1. dir' = Removed({id}) /\ UNCHANGED <<keys, job>>
    BY <1>6 DEF DeleteStored
  <2>2. \A i \in DOMAIN dir' : dir'[i].mac # 0
    BY <2>1, RemovedSigned
  <2>3. QED BY <1>1, <2>1, <2>2 DEF SignedInv, At
<1>7. CASE Tick
  <2>1. dir' = [i \in DOMAIN dir |-> [dir[i] EXCEPT !.age = Older(@, OldAge)]] /\ UNCHANGED <<job, keys>>
    BY <1>7 DEF Tick
  <2>2. ASSUME NEW i \in DOMAIN dir PROVE dir'[i].mac # 0
    <3>1. PICK f : f = dir[i] /\ f \in Archs /\ f.mac # 0
      BY <1>2, DirIs
    <3>2. dir'[i] = [f EXCEPT !.age = Older(f.age, OldAge)]
      BY <2>1, <3>1
    <3>3. QED BY <3>1, <3>2 DEF Archs
  <2>3. \A i \in DOMAIN dir' : dir'[i].mac # 0
    BY <2>1, <2>2
  <2>4. QED BY <1>1, <2>1, <2>3 DEF SignedInv, At
<1>8. QED BY <1>3, <1>4, <1>5, <1>6, <1>7

\* What is under an archive's own name is a whole, signed archive, at any
\* moment and after any crash (backup._write_encrypted).
THEOREM OnlyWholeArchives == Spec => []WholeOnly
<1>1. SignedInv => WholeOnly
  BY DEF SignedInv, WholeOnly
<1>2. Init => SignedInv
  <2>1. SUFFICES ASSUME Init PROVE SignedInv
    OBVIOUS
  <2>2. DOMAIN dir = {} /\ keys = <<1>> /\ \A w \in All : job[w] = Idle
    BY <2>1 DEF Init
  <2>3. Len(keys) = 1 /\ keys[1] = 1
    BY <2>2
  <2>4. QED BY <2>2, <2>3 DEF SignedInv, At, Idle
<1>3. BackupsInv /\ SignedInv /\ [Next]_vars => SignedInv'
  BY RunsSign, StepSigns, OthersSign DEF Next
<1>4. BackupsInv /\ [Next]_vars => BackupsInv'
  BY BackupsStep
<1>5. QED BY <1>1, <1>2, <1>3, <1>4, BackupsStart, PTL DEF Spec

=============================================================================
