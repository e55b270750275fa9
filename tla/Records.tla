------------------------------- MODULE Records ------------------------------
(***************************************************************************)
(* The audit log (auth/audit.py): one row per event, added in the caller's *)
(* transaction, which trims the log to its caps as it writes.  Failed      *)
(* sign-ins and rejected single sign-ons have a cap each, every other      *)
(* event is kept for KEEP and to KEEP_ROWS.  A transaction sees the        *)
(* committed rows and its own (READ COMMITTED), and may be rolled back.    *)
(* The lines on stdout are left out.                                       *)
(***************************************************************************)
EXTENDS Naturals, FiniteSets

CONSTANTS
  Writers,              \* transactions at work at one time
  FailedCap, KeepRows,  \* FAILED_CAP and REJECTED_SSO_CAP, KEEP_ROWS
  Keep,                 \* KEEP, in days
  MaxRows, MaxDays

ASSUME RecordsAssumption == {FailedCap, KeepRows, Keep, MaxRows, MaxDays} \subseteq Nat

VARIABLES
  rows,  \* the committed rows: id, kind and day
  ids,   \* ids handed out
  tx,    \* the row each open transaction adds, {} for none, and those it deletes
  day

records == <<rows, ids, tx, day>>

EventKinds == {"sign_in_failed", "sso_sign_in_rejected", "other"}
NoTx == [adds |-> {}, drops |-> {}]
RecordsInit == rows = {} /\ ids = 0 /\ tx = [w \in Writers |-> NoTx] /\ day = 0

Cap(kind) == IF kind = "other" THEN KeepRows ELSE FailedCap
Newer(log, r) == {x \in log : x.kind = r.kind /\ x.id > r.id}

\* Mutant of Beyond: the newest rows of the whole log are counted.
BeyondAll(log, kind) ==
  {r \in log : r.kind = kind /\ Cardinality({x \in log : x.id > r.id}) >= Cap(kind)}

\* _trim: rows of the kind older than the newest ones its cap keeps.
Beyond(log, kind) == {r \in log : r.kind = kind /\ Cardinality(Newer(log, r)) >= Cap(kind)}

Old(r) == r.kind = "other" /\ r.at + Keep < day
Aged(log, kind) == IF kind = "other" THEN {r \in log : Old(r)} ELSE {}

Trimmed(log, kind) == Aged(log, kind) \union Beyond(log \ Aged(log, kind), kind)

RecordEvent(w, kind) ==
  /\ tx[w] = NoTx /\ ids < MaxRows /\ ids' = ids + 1
  /\ LET row == [id |-> ids + 1, kind |-> kind, at |-> day] IN
       tx' = [tx EXCEPT ![w] = [adds |-> {row}, drops |-> Trimmed(rows \union {row}, kind)]]
  /\ UNCHANGED <<rows, day>>

\* prune, on the hour: as if another event had been recorded.
Prune(w) ==
  /\ tx[w] = NoTx /\ Trimmed(rows, "other") # {}
  /\ tx' = [tx EXCEPT ![w].drops = Trimmed(rows, "other")]
  /\ UNCHANGED <<rows, ids, day>>

Commit(w) ==
  /\ tx[w] # NoTx /\ tx' = [tx EXCEPT ![w] = NoTx]
  /\ rows' = (rows \union tx[w].adds) \ tx[w].drops
  /\ UNCHANGED <<ids, day>>

Rollback(w) ==
  /\ tx[w] # NoTx /\ tx' = [tx EXCEPT ![w] = NoTx]
  /\ UNCHANGED <<rows, ids, day>>

NextDay == day < MaxDays /\ day' = day + 1 /\ UNCHANGED <<rows, ids, tx>>

RecordsNext ==
  \/ \E w \in Writers : Prune(w) \/ Commit(w) \/ Rollback(w) \/ \E k \in EventKinds : RecordEvent(w, k)
  \/ NextDay

RecordsSpec == RecordsInit /\ [][RecordsNext]_records

-----------------------------------------------------------------------------
(* A row is only ever deleted for newer ones of its own kind that fill its *)
(* cap, or for its age: a flood of failed or rejected sign-ins pushes out  *)
(* the evidence of nothing else, whichever transactions overlap or are     *)
(* rolled back (audit._trim, _enforce_caps).                               *)
KeptEvidence ==
  [][\A r \in rows \ rows' : Old(r) \/ Cardinality(Newer(rows', r)) >= Cap(r.kind)]_records

(* The log stays within its caps, but for the rows of transactions that    *)
(* overlap (audit._enforce_caps).                                          *)
RowsBounded ==
  \A k \in EventKinds : Cardinality({r \in rows : r.kind = k}) < Cap(k) + Cardinality(Writers)
=============================================================================
