----------------------------- MODULE Providers ------------------------------
(***************************************************************************)
(* The sign-in providers that are configured (routers/sso.py,              *)
(* auth/config.py): rows that are added, repointed at another issuer,      *)
(* switched on and off and removed, the identities linked through them,    *)
(* and the callbacks that link one.  A request reads a provider, checks or *)
(* asks, and commits later; any other may commit between.  Signing in by a *)
(* linked identity, sessions and what ends them are in Sso.tla.  One       *)
(* account is there to link to, and one client id per issuer stands for    *)
(* all.                                                                    *)
(***************************************************************************)
EXTENDS Naturals, FiniteSets

CONSTANTS
  Rows,           \* the ids of provider rows, none used twice
  Issuers,
  Subjects,       \* the people at an issuer
  Requesters,     \* requests at work at one time
  MaxProviders    \* MAX_PROVIDERS

ASSUME ProvidersAssumption == MaxProviders \in Nat

VARIABLES
  configured,     \* each row: its issuer, and whether it is on
  spent,          \* rows that were removed
  identities,     \* linked: through which row, and whom at which issuer
  requester,      \* what each request is at
  crossed         \* ghost: rows a request wrote to after another had overtaken it

providers == <<configured, spent, identities, requester, crossed>>

NoProvider == [is |-> "none", issuer |-> "-"]
\* late, a ghost: a link and a repointing of one row, and the other committed first.
NoRequest == [at |-> "rests", row |-> 0, issuer |-> "-", subject |-> "-", late |-> FALSE]

ProvidersInit ==
  /\ configured = [r \in Rows |-> NoProvider] /\ spent = {} /\ identities = {}
  /\ requester = [q \in Requesters |-> NoRequest] /\ crossed = {}

Present == {r \in Rows : configured[r].is # "none"}
LinkedThrough(r) == {i \in identities : i.row = r}
Goes(q, at, r, i, s) ==
  requester' = [requester EXCEPT ![q] = [at |-> at, row |-> r, issuer |-> i, subject |-> s, late |-> FALSE]]
Rest(q) == requester' = [requester EXCEPT ![q] = NoRequest]

\* q has written to its row: the requests at the other work on it are late.
Writing(q, at) ==
  /\ requester' = [p \in Requesters |->
       IF p = q THEN NoRequest
       ELSE IF requester[p].at = at /\ requester[p].row = requester[q].row THEN [requester[p] EXCEPT !.late = TRUE]
       ELSE requester[p]]
  /\ crossed' = IF requester[q].late THEN crossed \union {requester[q].row} ELSE crossed

\* add_provider: the count is read before the row is added.
Counts(q, r, i) ==
  /\ requester[q] = NoRequest /\ r \notin Present \union spent
  /\ \A p \in Requesters : requester[p].at = "adds" => requester[p].row # r
  /\ Cardinality(Present) < MaxProviders /\ Goes(q, "adds", r, i, "-")
  /\ UNCHANGED <<configured, spent, identities, crossed>>

\* uq_auth_providers_issuer_client.
Taken(r, i) == \E p \in Present \ {r} : configured[p].issuer = i

AddsProvider(q, enabled) ==
  /\ requester[q].at = "adds" /\ Rest(q)
  /\ LET r == requester[q].row
         i == requester[q].issuer IN
       configured' = IF Taken(r, i) THEN configured
                     ELSE [configured EXCEPT ![r] = [is |-> IF enabled THEN "on" ELSE "off", issuer |-> i]]
  /\ UNCHANGED <<spent, identities, crossed>>

\* Mutant of LooksForLinks: only a provider that is on is looked at.
LooksIfOn(q, r, i) ==
  /\ requester[q] = NoRequest /\ r \in Present /\ configured[r].issuer # i
  /\ configured[r].is = "on" => LinkedThrough(r) = {}
  /\ Goes(q, "repoints", r, i, "-")
  /\ UNCHANGED <<configured, spent, identities, crossed>>

\* change_provider, update_provider: what is PINNED cannot change while an
\* identity is linked through the provider, as the check found it.
LooksForLinks(q, r, i) ==
  /\ requester[q] = NoRequest /\ r \in Present /\ configured[r].issuer # i
  /\ LinkedThrough(r) = {} /\ Goes(q, "repoints", r, i, "-")
  /\ UNCHANGED <<configured, spent, identities, crossed>>

\* The commit: a row that was removed cannot be written, nor a pair that is taken.
Repoints(q) ==
  /\ requester[q].at = "repoints"
  /\ LET r == requester[q].row
         i == requester[q].issuer IN
       IF r \notin Present \/ Taken(r, i) THEN Rest(q) /\ UNCHANGED <<configured, crossed>>
       ELSE configured' = [configured EXCEPT ![r].issuer = i] /\ Writing(q, "link")
  /\ UNCHANGED <<spent, identities>>

Toggles(r) ==
  /\ r \in Present
  /\ configured' = [configured EXCEPT ![r].is = IF @ = "on" THEN "off" ELSE "on"]
  /\ UNCHANGED <<spent, identities, requester, crossed>>

\* delete_provider: the identities linked through it go with it.
Removes(r) ==
  /\ r \in Present /\ configured' = [configured EXCEPT ![r] = NoProvider]
  /\ spent' = spent \union {r} /\ identities' = identities \ LinkedThrough(r)
  /\ UNCHANGED <<requester, crossed>>

Unlinks(i) ==
  /\ i \in identities /\ identities' = identities \ {i}
  /\ UNCHANGED <<configured, spent, requester, crossed>>

\* complete: the issuer the provider had when the callback read it vouches
\* for whoever came back from there.
Vouches(q, r, s) ==
  /\ requester[q] = NoRequest /\ configured[r].is = "on"
  /\ Goes(q, "link", r, configured[r].issuer, s)
  /\ UNCHANGED <<configured, spent, identities, crossed>>

\* _link: a row that was removed meanwhile fails the foreign key; a second
\* identity through one provider is refused.
LinksIdentity(q) ==
  /\ requester[q].at = "link"
  /\ LET c == requester[q] IN
       IF c.row \notin Present \/ LinkedThrough(c.row) # {} THEN Rest(q) /\ UNCHANGED <<identities, crossed>>
       ELSE /\ identities' = identities \union {[row |-> c.row, issuer |-> c.issuer, subject |-> c.subject]}
            /\ Writing(q, "repoints")
  /\ UNCHANGED <<configured, spent>>

ProvidersNext ==
  \/ \E q \in Requesters :
       \/ \E r \in Rows, i \in Issuers : Counts(q, r, i) \/ LooksForLinks(q, r, i)
       \/ \E r \in Rows, s \in Subjects : Vouches(q, r, s)
       \/ \E b \in BOOLEAN : AddsProvider(q, b)
       \/ Repoints(q) \/ LinksIdentity(q)
  \/ \E r \in Rows : Toggles(r) \/ Removes(r)
  \/ \E i \in identities : Unlinks(i)

ProvidersSpec == ProvidersInit /\ [][ProvidersNext]_providers

-----------------------------------------------------------------------------
(* Properties.                                                             *)

AtIssuer(i) == i.row \in Present /\ configured[i.row].issuer = i.issuer

\* An identity stays linked through a provider of the issuer that vouched for
\* it, through every repointing, switching off and removal: the subject of one
\* issuer is not that of another (auth/config.update_provider).  Excepted are
\* the rows that a link and a repointing, each begun before the other's
\* commit, have both written to.
LinkedAtIssuer == \A i \in identities : i.row \in crossed \/ AtIssuer(i)

\* "`issuer`, `client_id`, `kind`, and `preset` can't change while an identity
\* is linked through it" (routers/sso.change_provider), without that exception.
PinnedWhileLinked == \A i \in identities : AtIssuer(i)
=============================================================================
