------------------------------- MODULE Caches -------------------------------
(***************************************************************************)
(* What the upstreams said, kept so that a request is spent only once: the *)
(* responses of Numista and PCGS (source_cache), spot prices, exchange     *)
(* rates, and the discovery documents of sign-in providers.  An entry is   *)
(* used within its window, a stale one beats a failed request, and what is *)
(* kept says when it was fetched.  Requests overlap: each reads the entry, *)
(* asks, and writes the whole entry back.  What an upstream says is named  *)
(* by the hour it changed to that, and it never returns to what it said.   *)
(***************************************************************************)
EXTENDS Naturals

LOCAL INSTANCE FiniteSetsExt

CONSTANTS
  Callers,       \* requests at work at one time
  Window,        \* CACHE_TTL, NUMISTA_TTL, CATALOG_TTL, COLLECTION_TTL, DISCOVERY_TTL
  Retry,         \* DISCOVERY_RETRY
  MaxHours       \* bound: time

ASSUME CachesAssumption == Window \in Nat /\ Retry \in 0..Window /\ MaxHours \in Nat

VARIABLES
  cachedAs,  \* which cache it is
  hour,      \* now
  changes,   \* the hours the upstream changed what it says
  entry,     \* what is kept: what was said, and the hour it claims for it
  call,      \* what each request is at
  served     \* the last answer that was given

caches == <<cachedAs, hour, changes, entry, call, served>>

Caches4 == {"source", "spot", "rate", "discovery"}
Saying(t) == Max({0} \union {c \in changes : c <= t})

NoEntry == [is |-> "none", says |-> 0, asOf |-> 0]
NoCall == [at |-> "rests", begun |-> 0, says |-> 0, had |-> NoEntry]

CachesInit ==
  /\ cachedAs \in Caches4 /\ hour = 0 /\ changes = {} /\ entry = NoEntry
  /\ call = [c \in Callers |-> NoCall] /\ served = NoEntry

Recent(e, span) == hour < e.asOf + span
InWindow(e) == e.is = "kept" /\ Recent(e, Window)

Serves(e) == served' = e
Ends(c) == call' = [call EXCEPT ![c] = NoCall]

\* An entry within its window is the answer, and a failure to discover is one
\* for a shorter time; a dry run of a provider's settings asks in any case.
Consults(c, fresh) ==
  /\ call[c] = NoCall /\ (fresh => cachedAs = "discovery")
  /\ IF InWindow(entry) /\ ~fresh
       THEN Serves(entry) /\ UNCHANGED call
       ELSE /\ fresh \/ entry.is # "failed" \/ ~Recent(entry, Retry)
            /\ call' = [call EXCEPT ![c] = [at |-> "asks", begun |-> hour, says |-> 0, had |-> entry]]
            /\ UNCHANGED served
  /\ UNCHANGED <<cachedAs, hour, changes, entry>>

\* get_rate(fetch=False), for the share view: a rate of any age.
Peeks ==
  /\ cachedAs = "rate" /\ entry.is = "kept" /\ Serves(entry)
  /\ UNCHANGED <<cachedAs, hour, changes, entry, call>>

Replies(c) ==
  /\ call[c].at = "asks" /\ call' = [call EXCEPT ![c].at = "stores", ![c].says = Saying(hour)]
  /\ UNCHANGED <<cachedAs, hour, changes, entry, served>>

\* The entry read before is the answer, however old; discovery remembers that
\* it failed, as of when it began.
RequestFails(c) ==
  /\ call[c].at = "asks" /\ Ends(c)
  /\ LET had == call[c].had IN
       IF cachedAs = "discovery"
         THEN entry' = [is |-> "failed", says |-> 0, asOf |-> call[c].begun] /\ UNCHANGED served
         ELSE (IF had.is = "kept" THEN Serves(had) ELSE UNCHANGED served) /\ UNCHANGED entry
  /\ UNCHANGED <<cachedAs, hour, changes>>

\* Numista's "no such type" is passed on, and nothing is kept of it.
NotThere(c) ==
  /\ cachedAs = "source" /\ call[c].at = "asks" /\ Ends(c)
  /\ UNCHANGED <<cachedAs, hour, changes, entry, served>>

\* Mutant of Told: stamped when the answer is written.
ToldNow(c) == [is |-> "kept", says |-> call[c].says, asOf |-> hour]

\* Stamped with the time read before the request.
Told(c) == [is |-> "kept", says |-> call[c].says, asOf |-> call[c].begun]

\* The second insert of one key fails, and the request with it.
Clashes(c) == cachedAs # "discovery" /\ call[c].had = NoEntry /\ entry # NoEntry

Unflushed == \A c \in Callers : call[c].at # "flushed"

\* A source's answer and a rate are committed at once and discovery is a
\* dictionary; a spot price is only flushed, and holds its row until the
\* request commits or fails.
Keeps(c) ==
  /\ call[c].at = "stores" /\ Unflushed
  /\ IF Clashes(c) THEN Ends(c) /\ UNCHANGED <<entry, served>>
     ELSE /\ Serves(Told(c))
          /\ IF cachedAs = "spot" THEN call' = [call EXCEPT ![c].at = "flushed"] /\ UNCHANGED entry
             ELSE entry' = Told(c) /\ Ends(c)
  /\ UNCHANGED <<cachedAs, hour, changes>>

Settles(c, commits) ==
  /\ call[c].at = "flushed" /\ Ends(c)
  /\ entry' = IF commits THEN Told(c) ELSE entry
  /\ UNCHANGED <<cachedAs, hour, changes, served>>

\* External: time passes, and the upstream may say something new.
HourPasses ==
  /\ hour < MaxHours /\ hour' = hour + 1 /\ changes' \in {changes, changes \union {hour + 1}}
  /\ UNCHANGED <<cachedAs, entry, call, served>>

CachesNext ==
  \/ \E c \in Callers : \/ \E b \in BOOLEAN : Consults(c, b) \/ Settles(c, b)
                        \/ Replies(c) \/ RequestFails(c) \/ NotThere(c) \/ Keeps(c)
  \/ Peeks \/ HourPasses

CachesSpec == CachesInit /\ [][CachesNext]_caches

-----------------------------------------------------------------------------
(* Properties.                                                             *)

\* An answer is at least as new as the time it claims: whatever the upstream
\* changed to by then it has, however requests overlap, fail, or write an older
\* answer over a newer one (pricing.freshness's data_as_of is the entry's time).
AsOf ==
  /\ served.is = "kept" => served.says >= Saying(served.asOf)
  /\ entry.is = "kept" => entry.says >= Saying(entry.asOf)
=============================================================================
