------------------------------- MODULE Alerts -------------------------------
(***************************************************************************)
(* The alerts of services/alerts.py: each watched condition is failing or  *)
(* not, the states of all of them are one JSON value in one row, and the   *)
(* loops and the requests that find something failing or working again     *)
(* read it, change it and write it back whole.                             *)
(***************************************************************************)
EXTENDS Naturals

CONSTANTS
  Conditions,   \* backup, a source's key or quota, a refresh, a provider
  Watchers,     \* the loops and the requests
  MaxNews       \* bound: outcomes reported

ASSUME AlertsAssumption == MaxNews \in Nat

VARIABLES
  conditions,   \* the alert_state setting: what each condition failed with, "ok", or "none" for no entry
  told,         \* the last alert of each, and how many there were
  astray,       \* ghost: those whose last alert may not say what is recorded
  watch,        \* what each watcher is at
  news          \* outcomes reported

alerts == <<conditions, told, astray, watch, news>>

-----------------------------------------------------------------------------
Messages == {"one", "other"}   \* what a condition may fail with
Idle == [at |-> "idle", of |-> {}, read |-> [c \in {} |-> "none"], put |-> "none"]

NothingTold == [kind |-> "recovered", times |-> 0]

AlertsInit ==
  /\ conditions = [c \in Conditions |-> "none"] /\ told = [c \in Conditions |-> NothingTold]
  /\ astray = {} /\ watch = [w \in Watchers |-> Idle] /\ news = 0

Failing(m) == m \in Messages
Verdict(m) == IF Failing(m) THEN "failing" ELSE "recovered"

\* Watchers with an alert of c on its way.
Telling(c) == {v \in Watchers : watch[v].at = "tell" /\ watch[v].of = {c}}

Looks(w, c, at, m) ==
  /\ watch[w].at = "idle"
  /\ watch' = [watch EXCEPT ![w] = [at |-> at, of |-> {c}, read |-> conditions, put |-> m]]
  /\ UNCHANGED <<conditions, told, astray>>

\* fail, recover: nothing is written when nothing changed.
Hears(w, c, m) ==
  /\ Failing(conditions[c]) \/ Failing(m)
  /\ conditions[c] # m /\ Looks(w, c, "write", m)
  /\ news < MaxNews /\ news' = news + 1

\* forget: a provider is deleted and takes its condition with it.
Forgets(w, c) == conditions[c] # "none" /\ Looks(w, c, "forget", "none") /\ UNCHANGED news

\* Mutant of Changes: a failure alerts although it was failing before.
ChangesText(was, is) == was # is

\* A new message of what was failing already is written without an alert.
Changes(was, is) == Verdict(was) # Verdict(is)

\* What the value that was read has otherwise than it is by now.
SetBack(s) == {d \in Conditions : Verdict(s.read[d]) # Verdict(conditions[d])}

\* set_setting and the commit: the whole value as it was read, with its own
\* condition changed.
WritesBack(s, c) == conditions' = [s.read EXCEPT ![c] = s.put]

Writes(w, c) ==
  LET s == watch[w]  turns == Changes(s.read[c], s.put) IN
    /\ s.at = "write" /\ s.of = {c} /\ WritesBack(s, c)
    /\ watch' = [watch EXCEPT ![w] = IF turns THEN [s EXCEPT !.at = "tell"] ELSE Idle]
    /\ astray' = astray \union SetBack(s) \union (IF turns /\ Telling(c) # {} THEN {c} ELSE {})
    /\ UNCHANGED <<told, news>>

\* A deleted provider's alerts begin anew, without a message.
WritesForgotten(w, c) ==
  LET s == watch[w] IN
    /\ s.at = "forget" /\ s.of = {c} /\ WritesBack(s, c)
    /\ watch' = [watch EXCEPT ![w] = Idle]
    /\ told' = [told EXCEPT ![c] = NothingTold]
    /\ astray' = IF Telling(c) = {} THEN (astray \union SetBack(s)) \ {c}
                 ELSE astray \union SetBack(s) \union {c}
    /\ UNCHANGED news

\* _notify, after the commit: on a thread of its own, so another of Watchers
\* stands for what this one does meanwhile.
Tells(w, c) ==
  LET s == watch[w] IN
    /\ s.at = "tell" /\ s.of = {c}
    /\ told' = [told EXCEPT ![c].times = @ + 1, ![c].kind = Verdict(s.put)]
    /\ watch' = [watch EXCEPT ![w] = Idle]
    /\ astray' = IF Telling(c) = {w} /\ Verdict(s.put) = Verdict(conditions[c]) THEN astray \ {c} ELSE astray
    /\ UNCHANGED <<conditions, news>>

\* The process stops, or the webhook does not answer or is not saved.
StopsShort(w) ==
  /\ watch[w].at # "idle" /\ watch' = [watch EXCEPT ![w] = Idle]
  /\ astray' = astray \union {c \in watch[w].of : watch[w].at = "tell"}
  /\ UNCHANGED <<conditions, told, news>>

AlertsNext ==
  \E w \in Watchers, c \in Conditions :
    \/ \E m \in Messages \union {"ok"} : Hears(w, c, m)
    \/ Forgets(w, c) \/ Writes(w, c) \/ WritesForgotten(w, c) \/ Tells(w, c) \/ StopsShort(w)

AlertsSpec == AlertsInit /\ [][AlertsNext]_alerts

-----------------------------------------------------------------------------
(* Properties.                                                             *)

ToldAgain(c) == told'[c].times = told[c].times + 1 /\ told'[c].kind = told[c].kind

\* "an alert fires on the change only: a rejected key doesn't re-alert every
\* refresh" (alerts.py:6): a condition alerts as failing and as recovered in
\* turn, through any turns of it and of the others in the same value.
\* Excepted is a condition that has lost an alert between its commit and the
\* webhook, had two on their way at once, or was set back by a write that had
\* read it before, and only until an alert tells again what is recorded.
InTurn == [][\A c \in Conditions : ToldAgain(c) => c \in astray]_alerts

\* The same, of a condition that stays failing, without that exception.
FailsOnce == [][\A c \in Conditions : ~(ToldAgain(c) /\ told[c].kind = "failing")]_alerts
=============================================================================
