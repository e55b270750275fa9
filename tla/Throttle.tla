------------------------------ MODULE Throttle ------------------------------
(***************************************************************************)
(* The counts a password check waits for (auth/throttle.py) and the known  *)
(* devices that lift them (auth/devices.py), as accounts._check_password,  *)
(* sign_in and the setup route use them.  One bounded table in memory,     *)
(* least recently failed first; ages instead of clock readings, an entry   *)
(* older than Window staying until it is looked at or dropped.  Checks run *)
(* at once: an attempt is counted before its password is checked.          *)
(***************************************************************************)
EXTENDS Naturals, SequencesExt

CONSTANTS
  Attempters, Names, Addresses,
  Rows,        \* known-device rows that exist at once, or are still held
  FreeTries,        \* failures free of a wait, by kind of key
  Window, Cap, \* when a bucket forgets; the longest wait
  MaxKeys,
  Minute, PerMinute, \* the limit over all attempts
  MaxFailures, \* devices.MAX_FAILURES
  MaxResets

ASSUME ThrottleAssumption ==
  /\ {Cap, Minute, MaxFailures, MaxResets} \subseteq Nat /\ {Window, PerMinute} \subseteq Nat \ {0}
  /\ MaxKeys \in Nat \ {0, 1} /\ FreeTries \in [{"user", "addr", "setup"} -> Nat \ {0}]

VARIABLES
  entries, \* the table: [key, n, age], the newest last
  checks,  \* ages of the checks the overall limit counts
  flag,    \* resets asked for by the container's command
  seen,    \* the flag at the last look, {} before the first
  device,  \* rows: the attempts counted against each
  ask,     \* what each handler works on
  tried,   \* by key: attempts let through since it was last forgotten
  used     \* by row there is: checks let through that were not right

table == <<entries, checks>>
throttle == <<table, flag, seen, device, ask, tried, used>>

Keys == {"user"} \X Names \union {"addr", "setup"} \X Addresses
NoRequest == [at |-> "idle"]
Never == [n |-> 0, age |-> 0]
MinOf(a, b) == IF a < b THEN a ELSE b
Of(table_, k) == {i \in DOMAIN table_ : table_[i].key = k}
\* What is at some places, in its order.
Selected(list, S) == [n \in 1 .. Cardinality(S) |-> list[CHOOSE i \in S : Cardinality({j \in S : j <= i}) = n]]
Others(table_, k) == Selected(table_, DOMAIN table_ \ Of(table_, k))
Held(table_) == {table_[i].key : i \in DOMAIN table_}

\* _live and _wait: a setup bucket waits its whole window.
Failures(table_, k) == IF \E i \in Of(table_, k) : table_[i].age < Window
                       THEN table_[CHOOSE i \in Of(table_, k) : TRUE].n ELSE 0
Delay(k, n) == IF n < FreeTries[k[1]] THEN 0
               ELSE IF k[1] = "setup" THEN Window ELSE MinOf(Cap, 2 ^ (n - FreeTries[k[1]]))
\* Counts stop where the delay stops growing.
More(n, k) == IF Delay(k, n) >= Cap THEN n ELSE n + 1
Waits(table_, k) == \E i \in Of(table_, k) : table_[i].age < Delay(k, Failures(table_, k))
\* _live deletes what it finds expired.
Looked(table_, K) ==
  Selected(table_, {i \in DOMAIN table_ : table_[i].key \notin K \/ table_[i].age < Window})

\* One more failure; its entry becomes the newest.
Counted(table_, k) == Append(Others(table_, k), [key |-> k, n |-> More(Failures(table_, k), k), age |-> 0])
Fitted(table_) == IF Len(table_) > MaxKeys THEN SubSeq(table_, Len(table_) - MaxKeys + 1, Len(table_)) ELSE table_

\* _apply_reset_flag: the first look only notes it.
Reset == seen # {} /\ flag \notin seen /\ flag # 0
Heard == IF Reset THEN <<>> ELSE entries
HeardChecks == IF Reset THEN <<>> ELSE checks

\* What was let through is forgotten with its entry.
Forgotten(K) == [k \in Keys |-> IF k \in K THEN Never ELSE tried[k]]
Dropped(new) == (IF Reset THEN Keys ELSE {}) \union (Held(entries) \ Held(new))

ThrottleInit ==
  /\ entries = <<>> /\ checks = <<>> /\ flag = 0 /\ seen = {}
  /\ device = [d \in {} |-> 0] /\ ask = [h \in Attempters |-> NoRequest]
  /\ tried = [k \in Keys |-> Never] /\ used = [d \in Rows |-> 0]

-----------------------------------------------------------------------------
(* A password is to be checked: through a known device, or counted.        *)

\* Mutant of Reserve: the row is read, and counted when the password fails.
ReserveRead(h, n, a, d) ==
  /\ ask[h] = NoRequest /\ d \in DOMAIN device /\ device[d] < MaxFailures
  /\ device' = device
  /\ used' = [used EXCEPT ![d] = @ + 1]
  /\ ask' = [ask EXCEPT ![h] = [at |-> "verify", keys |-> {<<"user", n>>, <<"addr", a>>}, row |-> {d}]]
  /\ UNCHANGED <<table, flag, seen, tried>>

\* devices.reserve: one UPDATE, committed before the check.
Reserve(h, n, a, d) ==
  /\ ask[h] = NoRequest /\ d \in DOMAIN device /\ device[d] < MaxFailures
  /\ device' = [device EXCEPT ![d] = @ + 1]
  /\ used' = [used EXCEPT ![d] = @ + 1]
  /\ ask' = [ask EXCEPT ![h] = [at |-> "verify", keys |-> {<<"user", n>>, <<"addr", a>>}, row |-> {d}]]
  /\ UNCHANGED <<table, flag, seen, tried>>

\* Mutant of Tallied: nothing is counted before the check.
TalliedLater(now, n, a) == now

\* Both buckets are counted under one lock.
Tallied(now, n, a) == Fitted(Counted(Counted(now, <<"user", n>>), <<"addr", a>>))

\* throttle.attempt, then check_global: what the first counted stays.
Attempt(h, n, a) ==
  LET K == {<<"user", n>>, <<"addr", a>>}
      now == Looked(Heard, K)
      recent == Selected(HeardChecks, {i \in DOMAIN HeardChecks : HeardChecks[i] < Minute}) IN
  /\ ask[h] = NoRequest /\ seen' = {flag}
  /\ IF \E k \in K : Waits(now, k)
     THEN entries' = now /\ checks' = HeardChecks /\ UNCHANGED ask /\ tried' = Forgotten(Dropped(now))
     ELSE /\ entries' = Tallied(now, n, a)
          /\ checks' = IF Len(recent) < PerMinute THEN Append(recent, 0) ELSE recent
          /\ ask' = IF Len(recent) < PerMinute
                    THEN [ask EXCEPT ![h] = [at |-> "verify", keys |-> K, row |-> {}]] ELSE ask
          /\ tried' = [k \in Keys |->
                         IF k \in K /\ Len(recent) < PerMinute
                         THEN [n |-> More(Forgotten(Dropped(now))[k].n, k), age |-> 0]
                         ELSE Forgotten(Dropped(entries') \ K)[k]]
  /\ UNCHANGED <<flag, device, used>>

-----------------------------------------------------------------------------
(* The check's outcome.                                                    *)

Verifying(h) == ask[h].at = "verify"
Answered(h) == ask' = [ask EXCEPT ![h] = NoRequest]
Forgets(D) ==
  /\ device' = [d \in DOMAIN device \ D |-> device[d]]
  /\ used' = [d \in Rows |-> IF d \in D THEN 0 ELSE used[d]]
\* A row number is used again once no request holds it.
Spare(h) == {d \in Rows \ DOMAIN device : \A g \in Attempters \ {h} : Verifying(g) => d \notin ask[g].row}

\* succeed, and release; a sign-in replaces the device's row.
Right(h, kind) ==
  /\ Verifying(h) /\ Answered(h)
  /\ entries' = Selected(entries, {i \in DOMAIN entries : entries[i].key \notin ask[h].keys})
  /\ tried' = Forgotten(ask[h].keys)
  /\ IF kind = "signIn"
     THEN \E d \in Spare(h) \union (IF ask[h].row \subseteq DOMAIN device THEN ask[h].row ELSE {}) :
            /\ device' = [e \in (DOMAIN device \ ask[h].row) \union {d} |-> IF e = d THEN 0 ELSE device[e]]
            /\ used' = [e \in Rows |-> IF e = d \/ e \in ask[h].row THEN 0 ELSE used[e]]
     ELSE /\ device' = [d \in DOMAIN device |-> IF d \in ask[h].row /\ device[d] > 0
                                                THEN device[d] - 1 ELSE device[d]]
          /\ used' = [d \in Rows |-> IF d \in ask[h].row \intersect DOMAIN device THEN used[d] - 1 ELSE used[d]]
  /\ UNCHANGED <<checks, flag, seen>>

\* fail, which does not look at the flag, and devices.failed.
Wrong(h) ==
  /\ Verifying(h) /\ Answered(h)
  /\ LET U == CHOOSE k \in ask[h].keys : k[1] = "user"
         A == CHOOSE k \in ask[h].keys : k[1] = "addr"
         mid == Fitted(Counted(entries, U)) IN
       IF ask[h].row = {} THEN UNCHANGED <<entries, tried>>
       ELSE /\ entries' = Fitted(Counted(mid, A))
            /\ tried' = Forgotten((Held(entries) \ Held(mid)) \union (Held(mid) \ Held(entries')))
  /\ Forgets({d \in ask[h].row \intersect DOMAIN device : device[d] >= MaxFailures})
  /\ UNCHANGED <<checks, flag, seen>>

\* No slot came free: what was counted stays.
TooBusy(h) == Verifying(h) /\ Answered(h) /\ UNCHANGED <<table, flag, seen, device, tried, used>>

-----------------------------------------------------------------------------
(* A wrong setup code: refused in its wait, or counted.                    *)

SetupWrong(a) ==
  LET k == <<"setup", a>>
      now == Looked(Heard, {k}) IN
  /\ seen' = {flag} /\ checks' = HeardChecks
  /\ entries' = IF Waits(now, k) THEN now ELSE Fitted(Counted(now, k))
  /\ tried' = Forgotten(Dropped(entries'))
  /\ UNCHANGED <<flag, device, ask, used>>

-----------------------------------------------------------------------------
(* The container's reset-password, a restart, time.                        *)

RequestReset ==
  /\ flag < MaxResets /\ flag' = flag + 1 /\ Forgets(Rows)
  /\ UNCHANGED <<table, seen, ask, tried>>

Restart ==
  /\ entries' = <<>> /\ checks' = <<>> /\ seen' = {}
  /\ ask' = [h \in Attempters |-> NoRequest] /\ tried' = Forgotten(Keys)
  /\ UNCHANGED <<flag, device, used>>

TimePasses ==
  /\ entries' = [i \in DOMAIN entries |-> [entries[i] EXCEPT !.age = MinOf(@ + 1, Window)]]
  /\ checks' = [i \in DOMAIN checks |-> MinOf(checks[i] + 1, Minute)]
  /\ tried' = [k \in Keys |-> IF tried[k].age + 1 >= Window THEN Never
                              ELSE [tried[k] EXCEPT !.age = IF tried[k] = Never THEN 0 ELSE @ + 1]]
  /\ UNCHANGED <<flag, seen, device, ask, used>>

ThrottleNext ==
  \/ \E h \in Attempters :
       \/ \E n \in Names, a \in Addresses :
            Attempt(h, n, a) \/ \E d \in Rows : Reserve(h, n, a, d)
       \/ \E kind \in {"signIn", "confirm"} : Right(h, kind)
       \/ Wrong(h) \/ TooBusy(h)
  \/ \E a \in Addresses : SetupWrong(a)
  \/ RequestReset \/ Restart \/ TimePasses

ThrottleSpec == ThrottleInit /\ [][ThrottleNext]_throttle

-----------------------------------------------------------------------------
(* However many attempts are under way at once, past the free ones each    *)
(* waits out the delay after the one before it (throttle.attempt counts an *)
(* attempt before its password is checked).                                *)
Paced ==
  [][\A h \in Attempters :
       ask[h] = NoRequest /\ ask'[h].at = "verify" /\ ask'[h].row = {} /\ ~Reset =>
         \A k \in ask'[h].keys : tried[k].n >= FreeTries[k[1]] => tried[k].age >= Delay(k, tried[k].n)]_throttle

(* One device's attempts that were not right never pass MAX_FAILURES, with *)
(* any number of them at once (devices.reserve).                           *)
DeviceTries == \A d \in Rows : used[d] <= MaxFailures

(* A full table forgets the entries that failed longest ago, and only when *)
(* it is full; what is counted again counts as new (throttle._count).      *)
LongestAgoGoes ==
  [][\A i \in DOMAIN entries :
       \/ entries[i].key \in Held(entries') \/ entries[i].age >= Window
       \/ Reset \/ seen' = {}
       \/ \E h \in Attempters : Verifying(h) /\ ask'[h] = NoRequest /\ entries[i].key \in ask[h].keys
       \/ Len(entries') = MaxKeys /\ \A j \in DOMAIN entries' : entries'[j].age <= entries[i].age]_throttle

=============================================================================
