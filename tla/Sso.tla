-------------------------------- MODULE Sso ---------------------------------
(***************************************************************************)
(* Single sign-on on top of Accounts.tla (auth/oidc.py, auth/config.py,    *)
(* routers/sso.py): one provider and the trusted header, the identities    *)
(* linked through them, the flow cookie and the states the process has     *)
(* accepted, and the ways in being cut: an identity unlinked, a provider   *)
(* switched off or removed, the header mode switched off.  A cut reads the *)
(* sessions it ends before it commits, so a sign-in that commits between   *)
(* is not among them; `late` marks the sessions of such sign-ins.          *)
(***************************************************************************)
EXTENDS Accounts

CONSTANTS
  MaxLinks,  \* identities ever linked
  MaxFlows   \* flows in progress at once

ASSUME SsoAssumption == MaxLinks \in Nat /\ MaxFlows \in Nat

VARIABLES
  provider, \* the provider's row: "none", "off", "on"
  header,   \* the trusted-header switch
  linked,   \* the identity row of each way, 0 for none
  links,
  flow,     \* the flow cookie of each browser, NoFlow for none
  accepted, \* oidc._consumed: the states accepted by this process
  landed    \* sessions opened or confirmed by each flow in this process

ssoRows == <<provider, header, linked, links>>
flowVars == <<flow, accepted, landed>>
ssoVars == <<accountVars, ssoRows, flowVars>>

Ways == {"provider", "header"}
NoFlow == [id |-> 0, intent |-> "login", s |-> 0]
Intents == {"login", "link", "confirm"}
NoneLanded == [f \in 1..MaxFlows |-> 0]

On(way) == IF way = "provider" THEN provider = "on" ELSE header
\* The sessions that came through this way's linked identity.
Through(way) == {s \in Ids : /\ sessions[s].state = "live" /\ sessions[s].via = way
                             /\ linked[way] # 0 /\ sessions[s].link = linked[way]}
External(set) == {s \in Ids : sessions[s].state = "live" /\ sessions[s].via \in set}

Cuts == {"unlink", "unlinkHeader", "providerOff", "providerGone", "headerOff", "allOff"}
CutWays(cut) == IF cut = "allOff" THEN Ways
                ELSE IF cut \in {"unlinkHeader", "headerOff"} THEN {"header"} ELSE {"provider"}

SsoInit ==
  /\ AccountInit
  /\ provider = "none" /\ header = TRUE /\ linked = [w \in Ways |-> 0] /\ links = 0
  /\ flow = [b \in Browsers |-> NoFlow] /\ accepted = {} /\ landed = NoneLanded

-----------------------------------------------------------------------------
(* A flow: start, the provider's redirect back, and its end.               *)

\* A state is a fresh random value: a number is used again when nothing has it.
Unused == {f \in 1..MaxFlows : /\ \A b \in Browsers : flow[b].id # f
                               /\ \A h \in Handlers : req[h].at = "callback" => req[h].f.id # f}

\* A link needs the window, a confirm a session of this provider.
FlowStarts(b, intent) ==
  /\ Up /\ provider = "on"
  /\ intent \in {"link", "confirm"} => Valid(cookie[b])
  /\ intent = "link" => sessions[cookie[b]].window
  /\ intent = "confirm" => /\ sessions[cookie[b]].via = "provider"
                           /\ sessions[cookie[b]].link = linked["provider"]
  /\ \E f \in Unused :
       /\ flow' = [flow EXCEPT ![b] = [id |-> f, intent |-> intent,
                                       s |-> IF intent = "login" THEN 0 ELSE cookie[b]]]
       /\ accepted' = accepted \ {f} /\ landed' = [landed EXCEPT ![f] = 0]
  /\ UNCHANGED <<accountVars, ssoRows>>

\* Mutant of Callback: a state accepted before is accepted again.
CallbackAgain(h, b) ==
  /\ Up /\ flow[b] # NoFlow
  /\ accepted' = accepted \union {flow[b].id}
  /\ IF provider = "on"
     THEN Take(h, [at |-> "callback", b |-> b, f |-> flow[b], ok |-> TRUE])
     ELSE req[h] = Idle /\ UNCHANGED req
  /\ UNCHANGED <<memory, rows, cookie, ssoRows, flow, landed>>

\* read_flow, consume, and the provider still on; the exchange follows.  The
\* redirect may be delivered twice: the cookie goes only with the answer.
Callback(h, b) ==
  /\ Up /\ flow[b] # NoFlow /\ flow[b].id \notin accepted
  /\ accepted' = accepted \union {flow[b].id}
  /\ IF provider = "on"
     THEN Take(h, [at |-> "callback", b |-> b, f |-> flow[b], ok |-> TRUE])
     ELSE req[h] = Idle /\ UNCHANGED req
  /\ UNCHANGED <<memory, rows, cookie, ssoRows, flow, landed>>

Cleared(h) == flow' = [flow EXCEPT ![req[h].b] = NoFlow]
Back(h, intent) == Busy(h, "callback") /\ req[h].f.intent = intent
Lands(f) == landed' = [landed EXCEPT ![f] = @ + 1]

\* The provider refused, could not be reached, or its token did not verify.
FlowFails(h) ==
  /\ Busy(h, "callback") /\ Cleared(h) /\ Done(h)
  /\ UNCHANGED <<memory, rows, cookie, ssoRows, accepted, landed>>

\* The flow cookie's ten minutes are over.
FlowExpires(b) ==
  /\ flow[b] # NoFlow /\ flow' = [flow EXCEPT ![b] = NoFlow]
  /\ UNCHANGED <<accountVars, ssoRows, accepted, landed>>

\* A cut of this way began or ended since the request looked.
Late(h, way) ==
  ~req[h].ok \/ \E g \in Handlers : req[g].at = "cutting" /\ way \in CutWays(req[g].cut)

\* start_external: the session this browser held ends, a new one begins, in
\* one commit; the identity must still be linked.
Externally(h, way) ==
  /\ linked[way] # 0 /\ Claimed /\ Free # {}
  /\ sessions' = [End(IF Valid(cookie[req[h].b]) THEN {cookie[req[h].b]} ELSE {})
                    EXCEPT ![Fresh] = Opened(way, linked[way], Late(h, way))]
  /\ cookie' = [cookie EXCEPT ![req[h].b] = Fresh]
  /\ Done(h) /\ UNCHANGED <<memory, users, tokens, ssoRows>>

SignInThrough(h) ==
  /\ Back(h, "login") /\ Externally(h, "provider")
  /\ Cleared(h) /\ Lands(req[h].f.id) /\ UNCHANGED <<accepted>>

\* _bound_session: the live session the flow was started from.
Bound(h) == Valid(cookie[req[h].b]) /\ cookie[req[h].b] = req[h].f.s

\* The same subject links once, and one identity links to a provider.
Link(h) ==
  /\ Back(h, "link") /\ Bound(h) /\ provider # "none"
  /\ linked["provider"] = 0 /\ links < MaxLinks
  /\ links' = links + 1 /\ linked' = [linked EXCEPT !["provider"] = links + 1]
  /\ Cleared(h) /\ Lands(req[h].f.id) /\ Done(h)
  /\ UNCHANGED <<memory, rows, cookie, provider, header, accepted>>

\* Only the identity the session came through confirms it.
ConfirmThrough(h) ==
  /\ Back(h, "confirm") /\ Bound(h)
  /\ LET s == req[h].f.s IN
       /\ sessions[s].via = "provider" /\ sessions[s].link = linked["provider"]
       /\ sessions' = [sessions EXCEPT ![s].window = TRUE, ![s].proven = TRUE]
  /\ Cleared(h) /\ Lands(req[h].f.id) /\ Done(h)
  /\ UNCHANGED <<memory, users, tokens, cookie, ssoRows, accepted>>

-----------------------------------------------------------------------------
(* The trusted header: the mode is asked, the assertion verified.          *)

HeaderCheck(h, b) ==
  /\ Up /\ header /\ Take(h, [at |-> "header", b |-> b, ok |-> TRUE])
  /\ UNCHANGED <<memory, rows, cookie, ssoRows, flowVars>>

SignInByHeader(h) ==
  /\ Busy(h, "header")
  /\ IF linked["header"] # 0 THEN Externally(h, "header")
     ELSE Done(h) /\ UNCHANGED <<memory, rows, cookie, ssoRows>>
  /\ UNCHANGED flowVars

LinkHeader(b) ==
  /\ Proven(b) /\ header
  /\ linked["header"] = 0 /\ links < MaxLinks
  /\ links' = links + 1 /\ linked' = [linked EXCEPT !["header"] = links + 1]
  /\ UNCHANGED <<accountVars, provider, header, flowVars>>

-----------------------------------------------------------------------------
(* Configuration, and the ways in being cut.                               *)

ProviderOn(b) ==
  /\ Proven(b) /\ provider' = "on"
  /\ UNCHANGED <<accountVars, header, linked, links, flowVars>>

HeaderOn(b) ==
  /\ Proven(b) /\ header' = TRUE
  /\ UNCHANGED <<accountVars, provider, linked, links, flowVars>>

\* Mutant of Ended: the sessions are left to lapse.
EndedNone(cut) == {}

\* The sessions each of them looks for: by identity, or by the kind of way.
Ended(cut) == IF cut = "allOff" THEN External(Ways)
              ELSE IF cut = "headerOff" THEN External({"header"})
              ELSE UNION {Through(w) : w \in CutWays(cut)}

\* A sign-in in progress while its way is being cut is marked.
Overtaken(cut, r) ==
  [h \in Handlers |-> IF \/ r[h].at = "callback" /\ "provider" \in CutWays(cut)
                         \/ r[h].at = "header" /\ "header" \in CutWays(cut)
                      THEN [r[h] EXCEPT !.ok = FALSE] ELSE r[h]]

Something(cut) ==
  CASE cut \in {"unlink", "unlinkHeader"} -> \A w \in CutWays(cut) : linked[w] # 0
    [] cut = "providerOff" -> provider = "on"
    [] cut = "providerGone" -> provider # "none"
    [] cut = "headerOff" -> header
    [] cut = "allOff" -> provider = "on" \/ header \/ External(Ways) # {}

\* The session rows the update sees; asked by a browser, or by a command of
\* the container, which works beside the backend.
Cut(h, cut) ==
  /\ Up /\ req[h] = Idle /\ Something(cut)
  /\ \/ cut # "allOff" /\ \E b \in Browsers : Proven(b)
     \/ cut \in {"unlink", "unlinkHeader", "allOff"} /\ Claimed
  /\ req' = [Overtaken(cut, req) EXCEPT ![h] = [at |-> "cutting", cut |-> cut, ends |-> Ended(cut), was |-> linked]]
  /\ UNCHANGED <<memory, rows, cookie, ssoRows, flowVars>>

\* Its commit, unless another took the row away first; a session row keeps
\* no reference to an identity deleted.
Overtook(c) ==
  \/ c.cut \in {"unlink", "unlinkHeader"} /\ \E w \in CutWays(c.cut) : linked[w] # c.was[w]
  \/ c.cut = "providerGone" /\ provider = "none"

CutCommits(h) ==
  /\ Busy(h, "cutting")
  /\ LET c == req[h] IN
       IF Overtook(c)
       THEN Done(h) /\ UNCHANGED <<sessions, provider, header, linked>>
       ELSE /\ sessions' = End(c.ends)
            /\ provider' = IF c.cut = "providerGone" THEN "none"
                           ELSE IF c.cut \in {"providerOff", "allOff"} /\ provider = "on" THEN "off"
                           ELSE provider
            /\ header' = (header /\ c.cut \notin {"headerOff", "allOff"})
            /\ linked' = [w \in Ways |-> IF /\ c.cut \in {"unlink", "unlinkHeader", "providerGone"}
                                             /\ w \in CutWays(c.cut) THEN 0 ELSE linked[w]]
            /\ req' = [Overtaken(c.cut, req) EXCEPT ![h] = Idle]
  /\ UNCHANGED <<memory, users, tokens, cookie, links, flowVars>>

-----------------------------------------------------------------------------
OfAccount ==
  \/ Start \/ LoseDatabase \/ ResetPassword \/ RevokeTokens \/ TokenEnds
  \/ \E s \in Ids : SessionLapses(s) \/ WindowCloses(s)
  \/ \E b \in Browsers : SignOut(b) \/ SignOutEverywhere(b) \/ \E s \in Ids : EndOther(b, s)
  \/ \E h \in Handlers :
       \/ \E b \in Browsers : SetupCheck(h, b) \/ SignInCheck(h, b) \/ \E op \in Slow : Gate(h, b, op)
       \/ Claim(h) \/ CodeEnds(h) \/ SignInCommit(h) \/ Rotate(h)
       \/ \E op \in {"confirm", "password"} : Pruned(h, op)
       \/ Confirm(h) \/ ChangePassword(h) \/ TokenLook(h) \/ TokenAdd(h)

SsoNext ==
  \/ OfAccount /\ UNCHANGED <<ssoRows, flowVars>>
  \/ Stop /\ accepted' = {} /\ landed' = NoneLanded /\ UNCHANGED <<ssoRows, flow>>
  \/ \E b \in Browsers : \/ FlowExpires(b) \/ \E i \in Intents : FlowStarts(b, i)
                         \/ LinkHeader(b) \/ ProviderOn(b) \/ HeaderOn(b)
  \/ \E h \in Handlers :
       \/ \E b \in Browsers : Callback(h, b) \/ HeaderCheck(h, b)
       \/ FlowFails(h) \/ SignInThrough(h) \/ Link(h) \/ ConfirmThrough(h) \/ SignInByHeader(h)
       \/ \E c \in Cuts : Cut(h, c)
       \/ CutCommits(h)

SsoSpec == SsoInit /\ [][SsoNext]_ssoVars

-----------------------------------------------------------------------------
(* Of two browsers that claim at once one wins, and the other leaves       *)
(* nothing (accounts.create_admin): one account, and no session or         *)
(* token of nobody.                                                        *)
OneWins ==
  /\ users <= 1
  /\ ~Claimed => tokens = 0 /\ \A s \in Ids : sessions[s].state = "none"

(* Once the claim is marked, no supplied setup code works again, whatever  *)
(* stops, restarts and losses of the database come after (setup.prepare).  *)
CodeSpent == code = "supplied" => ~marker

(* A session with an open window had the password, or its own provider,    *)
(* asked in it: never another session's (accounts.confirm, sso._confirm).  *)
FreshIsOwn == \A s \in Ids : sessions[s].window => sessions[s].proven

(* A session that came through a way in that was cut (unlinked, switched   *)
(* off, removed) has ended, unless its sign-in was in progress then.       *)
WaysOut ==
  \A s \in External(Ways) :
    \/ On(sessions[s].via) /\ sessions[s].link = linked[sessions[s].via]
    \/ sessions[s].late

(* However often the provider's redirect is delivered, a flow has its      *)
(* effect once in the life of a process (oidc.consume).                    *)
FlowOnce == \A f \in 1..MaxFlows : landed[f] <= 1

=============================================================================
