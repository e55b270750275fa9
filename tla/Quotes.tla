------------------------------- MODULE Quotes -------------------------------
(***************************************************************************)
(* One automatic estimate of one piece (pricing.run_adapter): from the     *)
(* issues Numista lists for its type, from what PCGS says of its cert or   *)
(* its number and grade, or from the sales logged with it (comps).  The    *)
(* requests take seconds each, and the piece may be edited meanwhile: what *)
(* the adapter read before a request is kept, and the rest is read again   *)
(* after one whose answer was committed to the cache.                      *)
(***************************************************************************)
EXTENDS Integers, Sequences, FiniteSets

LOCAL INSTANCE FiniteSetsExt
LOCAL INSTANCE SequencesExt

CONSTANTS
  IssueKinds,     \* what an issue may be, next to the piece
  MaxIssues,      \* bound: issues of the type
  MaxCandidates,  \* MAX_CANDIDATES
  Buckets,        \* how many GRADE_BUCKETS, from worst to best
  SalesWindow,    \* APR_WINDOW, MAX_SALES
  MinRecent,      \* MIN_RECENT
  MaxSold         \* bound: sales of one age

Graded == 1..Buckets
Certs == 0..2            \* the piece's PCGS cert, 0 for none

ASSUME QuotesAssumption ==
  /\ {MaxIssues, MaxCandidates, Buckets, MinRecent, MaxSold} \subseteq Nat
  /\ SalesWindow \in Nat \ {0}
  /\ IssueKinds \subseteq [year : Nat, nd : BOOLEAN, named : BOOLEAN,
                           agrees : SUBSET {"mint", "replacement", "text"}]

VARIABLES
  quoteFrom,  \* the source that is asked
  estimated,  \* the piece: year (0: none), ND, grade, cert, and the cert its population is of
  listing,    \* the issues Numista lists for the type, in its order
  sold,       \* how many sales there are: of late, older, and undated; and the guide's value
  quote,      \* what the adapter is at and has read
  quoted,     \* the estimate it made
  attempt     \* EstimateAttempt.outcome

quotes == <<quoteFrom, estimated, listing, sold, quote, quoted, attempt>>

NoSales == [late |-> 0, old |-> 0, undated |-> 0, guide |-> FALSE]
NoQuote == [at |-> "asked", known |-> <<>>, wanted |-> 0, cert |-> 0, ranked |-> <<>>,
            replies |-> <<>>, mismatch |-> FALSE]
Ungraded == [year |-> 0, nd |-> FALSE, grade |-> 1, cert |-> 0, population |-> 0]
NoEstimateYet == [is |-> "none"]

QuotesInit ==
  /\ quoteFrom \in {"numista", "pcgs", "comps"}
  /\ estimated \in [year : {0, 1}, nd : BOOLEAN, grade : Graded, cert : Certs, population : {0}]
  /\ listing \in (IF quoteFrom = "numista" THEN SeqOf(IssueKinds, MaxIssues) ELSE {<<>>})
  /\ sold \in (IF quoteFrom = "numista" THEN {NoSales}
               ELSE [late : 0..MaxSold, old : 0..MaxSold, guide : BOOLEAN,
                     undated : IF quoteFrom = "pcgs" THEN 0..MaxSold ELSE {0}])
  /\ quoteFrom = "numista" => estimated.cert = 0
  /\ quoteFrom # "numista" => estimated.year = 1 /\ ~estimated.nd /\ estimated.grade = 1
  /\ quoteFrom = "comps" => estimated.cert = 0 /\ ~sold.guide
  /\ quote = NoQuote /\ quoted = NoEstimateYet /\ attempt = "none"

-----------------------------------------------------------------------------
(* Numista's issues, ranked for a piece as it is known.                    *)

OfYear(k) == {n \in DOMAIN listing : listing[n].year = k.year}
UndatedIssues == {n \in DOMAIN listing : listing[n].nd}

\* _issue_pool: without an issue of the year, an ND piece's may be any undated
\* one; a type of a single issue is priced whatever its year, and says so.
Pooled(k) ==
  IF OfYear(k) # {} THEN OfYear(k)
  ELSE IF k.nd /\ UndatedIssues # {} THEN UndatedIssues
  ELSE IF Len(listing) = 1 THEN {1} ELSE {}

GivesUpYear(k) == Pooled(k) # {} /\ OfYear(k) = {} /\ ~(k.nd /\ UndatedIssues # {})

\* Mutant of Unlike: replacement agreement before the mint letter.
UnlikeSwapped(k, n) ==
  LET miss(t) == IF t \in listing[n].agrees THEN 0 ELSE 1
  IN 8 * miss("replacement") + 4 * miss("mint") + 2 * miss("text")
       + (IF listing[n].nd = k.nd THEN 0 ELSE 1)

\* Compared trait by trait; ND agreement is the last.
Unlike(k, n) ==
  LET miss(t) == IF t \in listing[n].agrees THEN 0 ELSE 1
  IN 8 * miss("mint") + 4 * miss("replacement") + 2 * miss("text")
       + (IF listing[n].nd = k.nd THEN 0 ELSE 1)

Better(k, m, n) == Unlike(k, m) < Unlike(k, n) \/ (Unlike(k, m) = Unlike(k, n) /\ m < n)

\* _ranked, of the issues that have an id, cut to those that are tried.
Askable(k) == {n \in Pooled(k) : listing[n].named}
Place(k, n) == Cardinality({m \in Askable(k) : m = n \/ Better(k, m, n)})
Candidates(k) ==
  [t \in 1..Min({MaxCandidates, Cardinality(Askable(k))}) |-> CHOOSE n \in Askable(k) : Place(k, n) = t]

Apart(g, wanted) == IF g < wanted THEN wanted - g ELSE g - wanted

\* resolve_grade: the wanted bucket or the nearest, the lower of two.
Resolved(priced, wanted) ==
  CHOOSE g \in priced : \A h \in priced :
    Apart(g, wanted) < Apart(h, wanted) \/ (Apart(g, wanted) = Apart(h, wanted) /\ g <= h)

-----------------------------------------------------------------------------
\* run_adapter: whatever comes of it is the piece's latest attempt.
EndsAs(outcome) ==
  /\ quote' = [NoQuote EXCEPT !.at = "done"] /\ attempt' = outcome

Fruitless(outcome) == EndsAs(outcome) /\ UNCHANGED <<quoteFrom, estimated, listing, sold, quoted>>

Makes(e) == quoted' = e /\ EndsAs("ok") /\ UNCHANGED <<quoteFrom, listing, sold>>

\* matching_sales: older ones only where too few are of late.
Widened == sold.late < MinRecent /\ sold.old > 0
Matching == Min({sold.late + (IF Widened THEN sold.old ELSE 0), SalesWindow})

\* Without a key, a reference, a grade, or a strike Numista prices there is no
\* request; with a cert, PCGS needs its token only.  Comps need a sale.
LacksForNumista == quoteFrom = "numista" /\ quote.at = "asked" /\ Fruitless("not_applicable")
LacksForPcgs == quoteFrom = "pcgs" /\ quote.at = "asked" /\ Fruitless("not_applicable")
LacksSales ==
  quoteFrom = "comps" /\ quote.at = "asked" /\ Matching = 0 /\ Fruitless("not_applicable")

\* What is read at once: the wanted grade, and PCGS's cert.
StartsQuote ==
  /\ quote.at = "asked" /\ quoteFrom # "comps"
  /\ quote' = [quote EXCEPT !.at = "lists", !.known = estimated, !.wanted = estimated.grade,
                            !.cert = estimated.cert]
  /\ UNCHANGED <<quoteFrom, estimated, listing, sold, quoted, attempt>>

\* An answer in its window is no request and no commit; one that was asked for
\* is committed, and the piece is read again.
ReadsAgain == {quote.known, estimated}

\* The request failed and no older answer covers it, or its key was refused.
Unavailable == quote.at \in {"lists", "tries"} /\ Fruitless("unavailable")

\* "No such type", or an answer that PCGS marks invalid or empty.
NoSuch == quote.at = "lists" /\ Fruitless("not_applicable")

ListsIssues(known) ==
  /\ quoteFrom = "numista" /\ quote.at = "lists"
  /\ IF Candidates(known) = <<>> THEN Fruitless("not_applicable")
     ELSE /\ quote' = [quote EXCEPT !.at = "tries", !.known = known, !.ranked = Candidates(known),
                                    !.mismatch = GivesUpYear(known)]
          /\ UNCHANGED <<quoteFrom, estimated, listing, sold, quoted, attempt>>

Tried == Len(quote.replies) + 1

\* The next candidate's prices: no such issue, or the buckets that are priced.
\* The first candidate with a price is the answer.
TriesIssue(priced) ==
  /\ quote.at = "tries"
  /\ IF priced # {}
       THEN /\ UNCHANGED estimated
            /\ Makes([is |-> "numista", of |-> quote.known, issue |-> quote.ranked[Tried],
                       tried |-> {quote.ranked[j] : j \in 1..(Tried - 1)}, priced |-> priced,
                       wanted |-> quote.wanted, used |-> Resolved(priced, quote.wanted),
                       mismatch |-> quote.mismatch])
     ELSE IF Tried = Len(quote.ranked) THEN Fruitless("not_applicable")
     ELSE /\ quote' = [quote EXCEPT !.replies = Append(@, priced)]
          /\ UNCHANGED <<quoteFrom, estimated, listing, sold, quoted, attempt>>

-----------------------------------------------------------------------------
\* recent_lots: the newest dated lots, and undated ones where room is left.
LateLots == Min({sold.late, SalesWindow})
OtherLots ==
  LET old == Min({sold.old, SalesWindow - LateLots})
  IN old + Min({sold.undated, SalesWindow - LateLots - old})

\* Sales of the last years, else the price guide, else what else there is.
Basis == IF LateLots > 0 THEN "apr" ELSE IF sold.guide THEN "guide"
         ELSE IF OtherLots > 0 THEN "apr_old" ELSE "none"

\* pcgs_estimate: the population of the answer goes onto the piece as it is by
\* now, when the answer has one.
PcgsAnswers(population) ==
  /\ quoteFrom = "pcgs" /\ quote.at = "lists"
  /\ IF Basis = "none" THEN Fruitless("not_applicable")
     ELSE /\ Makes([is |-> "pcgs", basis |-> Basis,
                     lots |-> IF Basis = "apr" THEN LateLots ELSE IF Basis = "guide" THEN 0 ELSE OtherLots])
          /\ estimated' = IF population THEN [estimated EXCEPT !.population = quote.cert] ELSE estimated

\* comps_estimate: no request; a sale that cannot be converted is left out.
Compares(converted) ==
  /\ quoteFrom = "comps" /\ quote.at = "asked" /\ Matching > 0 /\ converted \in 0..Matching
  /\ IF converted = 0 THEN Fruitless("not_applicable")
     ELSE /\ Makes([is |-> "comps", basis |-> IF Widened THEN "older" ELSE "late", lots |-> converted])
          /\ UNCHANGED estimated

-----------------------------------------------------------------------------
\* update_item, beside the requests: what the source reads of the piece is
\* changed; bound: once between two readings.
Revised ==
  IF quoteFrom = "pcgs" THEN {[estimated EXCEPT !.cert = c] : c \in Certs}
  ELSE {[estimated EXCEPT !.year = 1 - @], [estimated EXCEPT !.nd = ~@]}
         \union {[estimated EXCEPT !.grade = g] : g \in Graded}

Revises(to) ==
  /\ quote.at \in {"lists", "tries"} /\ estimated = quote.known /\ to # estimated
  /\ estimated' = to
  /\ UNCHANGED <<quoteFrom, listing, sold, quote, quoted, attempt>>

QuotesNext ==
  \/ LacksForNumista \/ LacksForPcgs \/ LacksSales \/ StartsQuote \/ Unavailable \/ NoSuch
  \/ \E known \in ReadsAgain : ListsIssues(known)
  \/ \E priced \in SUBSET Graded : TriesIssue(priced)
  \/ \E b \in BOOLEAN : PcgsAnswers(b)
  \/ \E n \in 0..SalesWindow : Compares(n)
  \/ \E to \in Revised : Revises(to)

QuotesSpec == QuotesInit /\ [][QuotesNext]_quotes

-----------------------------------------------------------------------------
(* Properties.                                                             *)

Weightiest == <<"mint", "replacement", "text">>

\* One issue is the likelier one for a piece: the weightiest trait in which two
\* differ is its own.
Likelier(m, n) ==
  \E j \in DOMAIN Weightiest :
    /\ Weightiest[j] \in listing[m].agrees \ listing[n].agrees
    /\ \A h \in 1..(j - 1) :
         Weightiest[h] \in listing[m].agrees <=> Weightiest[h] \in listing[n].agrees

\* An estimate rests on the best there was, however the piece was edited while
\* it was made.  Numista: every likelier issue of that year (or ND) was asked
\* for and had no price; the issue is of another year only if it is the type's
\* only one and the estimate says so; no priced bucket is nearer to the grade,
\* and a higher one is not used where a lower one is as near.  PCGS and comps:
\* sales of another age stand in only where those of late are too few.
BestPriced ==
  /\ quoted.is = "numista" =>
       LET k == quoted.of
           chosen == quoted.issue
           fits(n) == listing[n].year = k.year \/ (k.nd /\ listing[n].nd)
       IN /\ \A n \in DOMAIN listing :
               /\ listing[n].named /\ Likelier(n, chosen)
               /\ listing[n].year = k.year \/ (listing[chosen].year # k.year /\ fits(n))
               => n \in quoted.tried
          /\ quoted.mismatch <=> ~fits(chosen)
          /\ quoted.mismatch => Len(listing) = 1
          /\ \A g \in quoted.priced :
               /\ Apart(g, quoted.wanted) >= Apart(quoted.used, quoted.wanted)
               /\ quoted.used > quoted.wanted =>
                    g >= quoted.used \/ Apart(g, quoted.wanted) > Apart(quoted.used, quoted.wanted)
  /\ quoted.is = "pcgs" => /\ quoted.basis # "apr" => sold.late = 0
                           /\ quoted.basis = "apr_old" => ~sold.guide
                           /\ quoted.lots <= SalesWindow
  /\ quoted.is = "comps" /\ quoted.basis = "older" => sold.late < MinRecent
=============================================================================
