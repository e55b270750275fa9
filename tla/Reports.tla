------------------------------- MODULE Reports -------------------------------
(***************************************************************************)
(* Which of a piece's estimates its shown value is made of                 *)
(* (pricing.resolve_display_value), and what the pricing reports say of    *)
(* them.  The report of stale estimates works the choice out for itself,   *)
(* without a conversion; the report of the sources counts by the label of  *)
(* the choice; the report of a sold piece chooses among the estimates that *)
(* stood on the day of the sale.                                           *)
(***************************************************************************)
EXTENDS Naturals, Sequences, FiniteSets

LOCAL INSTANCE FiniteSetsExt

CONSTANTS
  Adapters,     \* AVERAGEABLE_SOURCES
  MaxValues,    \* bound: estimates of the piece
  LastDay       \* bound: days

ASSUME ReportsAssumption ==
  MaxValues \in Nat /\ LastDay \in Nat /\ {"manual", "average", "none"} \intersect Adapters = {}

VARIABLES
  valued,      \* the piece's estimates, the newest first
  strategy,    \* value_strategy
  preferred,   \* preferred_source
  rated,       \* a rate for amounts in another currency is cached
  today,
  soldOn       \* its day, while it is sold; the day may be unknown

reports == <<valued, strategy, preferred, rated, today, soldOn>>

Keys == Adapters \union {"manual"}
Unsold == 0
Unknown == LastDay + 1

ReportsInit ==
  /\ valued = <<>> /\ strategy = "latest" /\ preferred = "none" /\ rated = FALSE
  /\ today = 1 /\ soldOn = Unsold

Converts(est) == est.own \/ rated

\* Each source's most recent estimate of those at the places es of the list.
LatestByKey(es) == {n \in es : \A m \in es : m < n => valued[m].key # valued[n].key}

OfAdapters(es) == {n \in LatestByKey(es) : valued[n].key \in Adapters}

\* resolve_display_value: the estimates it rests on, and the label.
LatestOf(es) == [of |-> {Min(es)}, as |-> valued[Min(es)].key]

\* Mutant of Displayed: an average that lacks a rate for one of its parts falls
\* back as a whole.
DisplayedWhole(es) ==
  LET mine == {n \in es : valued[n].key = preferred} IN
  CASE es = {} -> [of |-> {}, as |-> "none"]
    [] strategy = "preferred_source" /\ mine # {} -> [of |-> {Min(mine)}, as |-> preferred]
    [] /\ strategy = "average" /\ OfAdapters(es) # {}
       /\ \A n \in OfAdapters(es) : Converts(valued[n]) -> [of |-> OfAdapters(es), as |-> "average"]
    [] OTHER -> LatestOf(es)

Displayed(es) ==
  LET mine == {n \in es : valued[n].key = preferred}
      parts == {n \in OfAdapters(es) : Converts(valued[n])} IN
  CASE es = {} -> [of |-> {}, as |-> "none"]
    [] strategy = "preferred_source" /\ mine # {} -> [of |-> {Min(mine)}, as |-> preferred]
    [] strategy = "average" /\ parts # {} -> [of |-> parts, as |-> "average"]
    [] OTHER -> LatestOf(es)

\* _display_ids: "the same choice resolve_display_value makes, minus currency
\* conversion".
DisplayIds(es) ==
  LET mine == {n \in es : valued[n].key = preferred} IN
  CASE es = {} -> {}
    [] strategy = "preferred_source" /\ mine # {} -> {Min(mine)}
    [] strategy = "average" /\ OfAdapters(es) # {} -> OfAdapters(es)
    [] OTHER -> {Min(es)}

\* stale: an estimate that is shown is listed as one of the totals'.
ListedInTotals == LatestByKey(DOMAIN valued) \intersect DisplayIds(DOMAIN valued)

\* sources: the piece is counted as averaged or for one source.
CountedFor(k) == valued # <<>> /\ Displayed(DOMAIN valued).as = k

\* accuracy: what stood on the day of the sale, all there is when it is unknown.
Before == {n \in DOMAIN valued : valued[n].day <= soldOn}
Compared == {n \in LatestByKey(Before) : Converts(valued[n])}

-----------------------------------------------------------------------------
Estimate(k, own) ==
  /\ Len(valued) < MaxValues
  /\ valued' = <<[key |-> k, own |-> own, day |-> today]>> \o valued
  /\ UNCHANGED <<strategy, preferred, rated, today, soldOn>>

\* One that was typed in.
DeleteValue(n) ==
  /\ n \in DOMAIN valued /\ valued[n].key = "manual"
  /\ valued' = SubSeq(valued, 1, n - 1) \o SubSeq(valued, n + 1, Len(valued))
  /\ UNCHANGED <<strategy, preferred, rated, today, soldOn>>

\* update_settings: the strategy and the source are separate settings.
PicksStrategy(s) ==
  /\ strategy' = s /\ UNCHANGED <<valued, preferred, rated, today, soldOn>>

PicksSource(k) ==
  /\ preferred' = k /\ UNCHANGED <<valued, strategy, rated, today, soldOn>>

\* A rate once fetched stays, however old.
RateComes ==
  /\ ~rated /\ rated' = TRUE /\ UNCHANGED <<valued, strategy, preferred, today, soldOn>>

\* The status and the date of a sale are edited freely.
SellsPiece(on) ==
  /\ on # soldOn /\ soldOn' = on /\ UNCHANGED <<valued, strategy, preferred, rated, today>>

TomorrowComes ==
  /\ today < LastDay /\ today' = today + 1
  /\ UNCHANGED <<valued, strategy, preferred, rated, soldOn>>

ReportsNext ==
  \/ \E k \in Keys, own \in BOOLEAN : Estimate(k, own)
  \/ \E n \in 1..MaxValues : DeleteValue(n)
  \/ \E s \in {"latest", "preferred_source", "average"} : PicksStrategy(s)
  \/ \E k \in Adapters \union {"none"} : PicksSource(k)
  \/ RateComes \/ TomorrowComes
  \/ \E on \in {Unsold, Unknown} \union (1..today) : SellsPiece(on)

ReportsSpec == ReportsInit /\ [][ReportsNext]_reports

-----------------------------------------------------------------------------
(* Properties.                                                             *)

\* The reports tell of the value that is shown, though two of them work out by
\* themselves what it is made of: the estimates listed as in the totals are
\* those of the shown value, all of them wherever the amounts convert, and
\* otherwise more only by those that do not, or none of them where none does;
\* the piece is counted for one source, its own, or as averaged; and what a
\* sale is compared with was recorded by then, and is what would have been
\* shown.
SameChoice ==
  LET shown == Displayed(DOMAIN valued)  then == Displayed(Before) IN
  /\ \A n \in shown.of \ ListedInTotals :
       strategy = "average" /\ \A m \in ListedInTotals : ~Converts(valued[m])
  /\ \A n \in ListedInTotals \ shown.of : strategy = "average" /\ ~Converts(valued[n])
  /\ valued # <<>> => Cardinality({k \in Keys \union {"average"} : CountedFor(k)}) = 1
  /\ \A k \in Keys : CountedFor(k) => \A n \in shown.of : valued[n].key = k
  /\ soldOn # Unsold =>
       /\ \A n \in Compared \union then.of : valued[n].day <= soldOn
       /\ then.as = "average" => then.of \subseteq Compared
       /\ soldOn >= today => Before = DOMAIN valued /\ then = shown
=============================================================================
