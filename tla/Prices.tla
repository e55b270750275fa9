------------------------------- MODULE Prices -------------------------------
(***************************************************************************)
(* The estimates of the owned pieces (services/pricing.py,                 *)
(* routers/estimates.py): typed in, computed when a piece is saved, or     *)
(* renewed by the refreshes of melt values and of an outside source.  The  *)
(* latest estimate is the piece's value; the database dates an estimate by *)
(* the beginning of its transaction (server_default now()).                *)
(***************************************************************************)
EXTENDS Naturals, FiniteSets

CONSTANTS
  Priced,      \* the owned pieces
  Typists,     \* requests that record or delete one estimate
  MaxClock     \* bound: transactions begun

ASSUME PricesAssumption == MaxClock \in Nat

VARIABLES
  clock,     \* transactions begun; the time of the latest
  est,       \* the estimates of each piece: the date and the source
  typing,    \* what each typist is at
  refresh    \* what each refresher is at

\* The scheduled refresh, and one that was asked for, of melt values only.
Refreshers == {"scheduled", "asked"}

prices == <<clock, est, typing, refresh>>

-----------------------------------------------------------------------------
Own == {"manual", "source"}   \* an estimate that is not a melt value
Unread == [i \in {} |-> {}]
NoRun == [at |-> "idle", of |-> "none", begun |-> 0, beside |-> {}, seen |-> Unread,
          cutoff |-> 0, todo |-> {}, pending |-> {}]
NoTyping == [at |-> "idle", item |-> {}, source |-> "none", begun |-> 0]

PricesInit ==
  /\ clock = 1
  /\ \E es \in {{}, {<<1, "melt">>}} : est = [i \in Priced |-> es]
  /\ typing = [t \in Typists |-> NoTyping]
  /\ refresh = [r \in Refreshers |-> NoRun]

NoEstimate == <<0, "none">>
Latest(es) ==
  CHOOSE e \in es \union {NoEstimate} : \A f \in es \union {NoEstimate} : f[1] <= e[1]

Ticks == clock < MaxClock /\ clock' = clock + 1

-----------------------------------------------------------------------------
\* create_estimate, auto_estimate and melt_on_save: one row, dated when its
\* transaction began and there when it ends.
Types(t, i, source) ==
  /\ typing[t].at = "idle" /\ Ticks
  /\ typing' = [typing EXCEPT ![t] = [at |-> "typing", item |-> {i}, source |-> source,
                                      begun |-> clock']]
  /\ UNCHANGED <<est, refresh>>

Typed(t) ==
  /\ typing[t].at = "typing"
  /\ est' = [i \in Priced |-> IF i \in typing[t].item
                                THEN est[i] \union {<<typing[t].begun, typing[t].source>>} ELSE est[i]]
  /\ typing' = [typing EXCEPT ![t] = NoTyping]
  /\ UNCHANGED <<clock, refresh>>

\* delete_estimate: a typed number only.
DeleteTyped(i) ==
  /\ \E e \in est[i] : e[2] = "manual" /\ est' = [est EXCEPT ![i] = @ \ {e}]
  /\ UNCHANGED <<clock, typing, refresh>>

-----------------------------------------------------------------------------
(* A refresh: all owned pieces are read with their estimates, each is      *)
(* visited, and what was computed waits for the next commit.  A commit     *)
(* ends the transaction and expires what was read.                         *)

\* The transactions at work.
AtWork == ({typing[t].begun : t \in Typists} \union {refresh[r].begun : r \in Refreshers}) \ {0}

\* Estimates dated until the cutoff are older than max_age_days: those from
\* before, or all there are by now.
StartsRun(r, of) ==
  /\ refresh[r].at = "idle" /\ Ticks /\ (of = "source" => r = "scheduled")
  /\ \E cutoff \in {1, clock} :
       refresh' = [refresh EXCEPT ![r] =
         [NoRun EXCEPT !.at = "read", !.of = of, !.begun = clock', !.cutoff = cutoff,
                       !.beside = AtWork]]
  /\ UNCHANGED <<est, typing>>

Reads(r) ==
  /\ refresh[r].at = "read"
  /\ refresh' = [refresh EXCEPT ![r].at = "visit", ![r].todo = Priced, ![r].seen = est]
  /\ UNCHANGED <<clock, est, typing>>

\* The transaction after a commit begins with the next statement.
Reopens(r) ==
  /\ refresh[r].at = "reopen" /\ Ticks
  /\ refresh' = [refresh EXCEPT ![r].at = "visit", ![r].begun = clock',
                                ![r].beside = AtWork]
  /\ UNCHANGED <<est, typing>>

\* A piece's estimates: as read at first, or read again after a commit.
Known(r, i) == IF i \in DOMAIN refresh[r].seen THEN refresh[r].seen[i] ELSE est[i]

\* A melt value is due when the latest estimate of all is an old one of melt.
DueMelt(known, cutoff) ==
  Latest(known)[2] \in {"none", "melt"} /\ Latest(known)[1] <= cutoff

\* An outside source's own latest counts, whatever came after it.
DueSource(known, cutoff) == \A e \in known : e[2] = "source" => e[1] <= cutoff

Due(r, i) ==
  LET known == Known(r, i) IN
  IF refresh[r].of = "melt" THEN DueMelt(known, refresh[r].cutoff)
  ELSE DueSource(known, refresh[r].cutoff)

Visits(r, i) == refresh[r].at = "visit" /\ i \in refresh[r].todo

\* A due piece of an outside source: what source_cache has for it may be in its
\* window, past it, or nothing.
Requests(r, i) == Visits(r, i) /\ Due(r, i) /\ refresh[r].of = "source"

Dated(r) == refresh[r].begun

\* A commit in the middle of a run writes what is pending and expires what
\* was read.
Flushed(r) ==
  est' = [i \in Priced |-> IF i \in refresh[r].pending
                             THEN est[i] \union {<<Dated(r), refresh[r].of>>} ELSE est[i]]

\* Mutant of AfterCommit: what was read is kept over a commit.
Kept(seen) == seen

AfterCommit(seen) == Unread

Expired(r, i, more) ==
  /\ Flushed(r)
  /\ refresh' = [refresh EXCEPT
       ![r].at = IF refresh[r].todo = {i} /\ more = {} THEN "visit" ELSE "reopen",
       ![r].begun = 0, ![r].todo = @ \ {i}, ![r].seen = AfterCommit(@), ![r].pending = more]

NotDue(r, i) ==
  /\ Visits(r, i) /\ ~Due(r, i)
  /\ refresh' = [refresh EXCEPT ![r].todo = @ \ {i}]
  /\ UNCHANGED <<clock, est, typing>>

\* A value without a commit: melt_estimate from the spot price, an outside
\* answer in its window, or a stale one that beats a request which failed, or
\* was refused as the last one was.
Computes(r, i) ==
  /\ Visits(r, i) /\ Due(r, i)
  /\ refresh' = [refresh EXCEPT ![r].todo = @ \ {i}, ![r].pending = @ \union {i}]
  /\ UNCHANGED <<clock, est, typing>>

\* Not applicable, or no spot price, or a request that failed with no answer
\* from before: run_adapter commits the attempt.
Attempted(r, i) ==
  /\ Visits(r, i) /\ Due(r, i) /\ Expired(r, i, {})
  /\ UNCHANGED <<clock, typing>>

\* cached_fetch: the answer to a request is committed at once, and so is the
\* alert of a refusal that is new, which a stale answer covers.
Answers(r, i) ==
  /\ Requests(r, i) /\ Expired(r, i, {i})
  /\ UNCHANGED <<clock, typing>>

\* Without an answer from before, a refused key or quota ends the run.
Refused(r, i) ==
  /\ Requests(r, i) /\ Flushed(r)
  /\ refresh' = [refresh EXCEPT ![r] = NoRun]
  /\ UNCHANGED <<clock, typing>>

\* The last commit; or the process stops, and what is pending is lost.
Finishes(r) ==
  /\ refresh[r].at = "visit" /\ refresh[r].todo = {}
  /\ Flushed(r) /\ refresh' = [refresh EXCEPT ![r] = NoRun]
  /\ UNCHANGED <<clock, typing>>

Stops(r) ==
  /\ refresh[r].at # "idle" /\ refresh' = [refresh EXCEPT ![r] = NoRun]
  /\ UNCHANGED <<clock, est, typing>>

PricesNext ==
  \/ \E t \in Typists :
       Typed(t) \/ \E i \in Priced, s \in Own \union {"melt"} : Types(t, i, s)
  \/ \E i \in Priced : DeleteTyped(i)
  \/ \E r \in Refreshers :
       \/ \E of \in {"melt", "source"} : StartsRun(r, of)
       \/ Reads(r) \/ Reopens(r) \/ Finishes(r) \/ Stops(r)
       \/ \E i \in Priced :
            \/ NotDue(r, i) \/ Computes(r, i) \/ Attempted(r, i)
            \/ Answers(r, i) \/ Refused(r, i)

PricesSpec == PricesInit /\ [][PricesNext]_prices

-----------------------------------------------------------------------------
(* Properties.                                                             *)

\* "a fresh melt value must never bury the user's own number or another
\* source's" (pricing.py:564): when a melt refresh writes, only a number whose
\* own transaction was at work when the refresh's began can stop being the
\* latest estimate; one that was there is read and left alone, and one that
\* came after is dated after.
NotBuried ==
  [][\A r \in Refreshers, i \in Priced :
       refresh[r].of = "melt" /\ refresh'[r] # refresh[r]
         /\ est'[i] # est[i] /\ Latest(est[i])[2] \in Own =>
       \/ Latest(est'[i]) = Latest(est[i])
       \/ Latest(est[i])[1] \in refresh[r].beside]_prices
=============================================================================
