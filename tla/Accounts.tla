------------------------------ MODULE Accounts ------------------------------
(***************************************************************************)
(* The one account (auth/accounts.py, sessions.py, tokens.py, setup.py and *)
(* the routes of routers/auth.py): the claim and its setup code, sessions  *)
(* and their recent-password window, API tokens, and the container's       *)
(* commands.  A request is a chain of steps, since what it reads before a  *)
(* password is checked may have changed when it commits; each commit is    *)
(* one step.  Accounts and tokens are counted: a name refused changes      *)
(* nothing.  Passwords are told apart only as the one that is right when   *)
(* it is read: a wrong one ends the request (Throttle.tla has the counts,  *)
(* and the known devices).  Lifetimes are steps of the environment.        *)
(***************************************************************************)
EXTENDS Naturals, FiniteSets

CONSTANTS
  Handlers,    \* requests the backend works on at once
  Browsers,
  MaxSessions, \* sessions ever opened
  MaxLive,     \* tokens.MAX_LIVE
  MaxStarts,   \* starts of the process
  Supplied     \* SETUP_CODE or SETUP_CODE_FILE is set

ASSUME AccountsAssumption ==
  /\ MaxSessions \in Nat /\ MaxLive \in Nat /\ MaxStarts \in Nat
  /\ Supplied \in BOOLEAN

VARIABLES
  code,     \* the process is "down", or the setup code it expects
  marker,   \* auth_claimed exists on the state volume
  starts,
  users,    \* accounts with a claim row
  sessions, \* session rows; what an ended one held is not kept
  tokens,   \* live API tokens
  cookie,   \* the session each browser's cookie names, 0 for none
  req       \* what each handler works on

memory == <<code, marker, starts>>
rows == <<users, sessions, tokens>>
accountVars == <<memory, rows, cookie, req>>

Ids == 1..MaxSessions
Row == [state : {"none", "live", "over"}, via : {"password", "provider", "header"},
        link : Nat, window : BOOLEAN, proven : BOOLEAN, late : BOOLEAN]
NoRow == [state |-> "none", via |-> "password", link |-> 0, window |-> FALSE,
          proven |-> FALSE, late |-> FALSE]
Idle == [at |-> "idle"]

Up == code # "down"
Claimed == users > 0
Valid(s) == s # 0 /\ sessions[s].state = "live" /\ Claimed
Free == {s \in Ids : sessions[s].state = "none"}
Fresh == CHOOSE s \in Free : \A t \in Free : s <= t
Busy(h, at) == Up /\ req[h].at = at
Take(h, r) == req[h] = Idle /\ req' = [req EXCEPT ![h] = r]
Goto(h, r) == req' = [req EXCEPT ![h] = r]
Done(h) == Goto(h, Idle)

\* sessions.create: a session row for a sign-in of this kind.
Opened(via, link, late) ==
  [NoRow EXCEPT !.state = "live", !.via = via, !.link = link, !.late = late]
\* sessions.revoke and its bulk forms: over for good, the window with it.
\* prune() may delete an ended row at any time.
Over == [NoRow EXCEPT !.state = "over"]
End(set) == [s \in Ids |-> IF s \in set /\ sessions[s].state = "live" THEN Over ELSE sessions[s]]

-----------------------------------------------------------------------------
(* The process: prepare() decides the setup code, or writes the marker.    *)

CodeAtStart == IF Claimed THEN "none"
               ELSE IF Supplied /\ ~marker THEN "supplied" ELSE "generated"

AccountInit ==
  /\ code = "down" /\ marker = FALSE /\ starts = 0
  /\ users = 0 /\ sessions = [s \in Ids |-> NoRow] /\ tokens = 0
  /\ cookie = [b \in Browsers |-> 0] /\ req = [h \in Handlers |-> Idle]

Start ==
  /\ ~Up /\ starts < MaxStarts /\ starts' = starts + 1
  /\ code' = CodeAtStart /\ marker' = (marker \/ Claimed)
  /\ UNCHANGED <<rows, cookie, req>>

\* The process stops: requests are lost where they are, and the memory.
Stop ==
  /\ Up /\ code' = "down" /\ req' = [h \in Handlers |-> Idle]
  /\ UNCHANGED <<marker, starts, rows, cookie>>

\* The sign-in schema is lost while the process is down; the volume stays.
LoseDatabase ==
  /\ ~Up /\ Claimed /\ marker
  /\ users' = 0 /\ sessions' = [s \in Ids |-> NoRow] /\ tokens' = 0
  /\ UNCHANGED <<memory, cookie, req>>

-----------------------------------------------------------------------------
(* Setup: the code, the claim, and the code's end.                         *)

\* claimed? is asked, then the code compared; a right one is never throttled.
SetupCheck(h, b) ==
  /\ Up /\ ~Claimed /\ code # "none"
  /\ Take(h, [at |-> "setup", b |-> b])
  /\ UNCHANGED <<memory, rows, cookie>>

Adds(h) ==
  /\ Free # {} /\ users' = users + 1
  /\ sessions' = [sessions EXCEPT ![Fresh] = Opened("password", 0, FALSE)]
  /\ Goto(h, [at |-> "claimed", b |-> req[h].b, new |-> Fresh])

\* User and Claim(id=1) in one transaction: of two, one meets the constraint.
Claim(h) ==
  /\ Busy(h, "setup")
  /\ IF Claimed THEN Done(h) /\ UNCHANGED <<users, sessions>> ELSE Adds(h)
  /\ UNCHANGED <<tokens, memory, cookie>>

\* setup.claimed: the code ends first; the marker may fail to be written.
CodeEnds(h) ==
  /\ Busy(h, "claimed")
  /\ code' = "none" /\ marker' \in {marker, TRUE}
  /\ cookie' = [cookie EXCEPT ![req[h].b] = req[h].new]
  /\ Done(h) /\ UNCHANGED <<starts, rows>>

-----------------------------------------------------------------------------
(* Sign-in with the password, in two commits.                              *)

SignInCheck(h, b) ==
  /\ Up /\ Claimed
  /\ Take(h, [at |-> "signIn", b |-> b, held |-> cookie[b]])
  /\ UNCHANGED <<memory, rows, cookie>>

SignInCommit(h) ==
  /\ Busy(h, "signIn") /\ Free # {}
  /\ sessions' = [sessions EXCEPT ![Fresh] = Opened("password", 0, FALSE)]
  /\ Goto(h, [at |-> "rotate", b |-> req[h].b, held |-> req[h].held, new |-> Fresh])
  /\ UNCHANGED <<memory, users, tokens, cookie>>

\* The session the browser came with ends in a commit of its own.
Rotate(h) ==
  /\ Busy(h, "rotate")
  /\ sessions' = IF Valid(req[h].held) THEN End({req[h].held}) ELSE sessions
  /\ cookie' = [cookie EXCEPT ![req[h].b] = req[h].new]
  /\ Done(h) /\ UNCHANGED <<memory, users, tokens>>

-----------------------------------------------------------------------------
(* What a signed-in browser asks.  The gate finds the session and whether  *)
(* its window is open.  What uses nothing the gate found but the session's *)
(* number is one step; confirming, a new password and a new token are      *)
(* several, the gate's look the first.                                     *)

Signed(b) == Up /\ Valid(cookie[b])
Proven(b) == Signed(b) /\ sessions[cookie[b]].window
Slow == {"confirm", "password", "token"}

Gate(h, b, op) ==
  /\ op \in Slow /\ IF op = "token" THEN Proven(b) ELSE Signed(b)
  /\ Take(h, [at |-> op, b |-> b, s |-> cookie[b]])
  /\ UNCHANGED <<memory, rows, cookie>>

\* _current: an ended row may have been pruned; that it ended is not asked.
Pruned(h, op) ==
  /\ Busy(h, op) /\ sessions[req[h].s].state # "live"
  /\ Done(h) /\ UNCHANGED <<memory, rows, cookie>>

\* The right password opens this session's window: an ended one's is no use.
Confirms(h, set) ==
  /\ sessions' = [s \in Ids |-> IF s \in set /\ sessions[s].state = "live"
                    THEN [sessions[s] EXCEPT !.window = TRUE, !.proven = @ \/ s = req[h].s]
                    ELSE sessions[s]]
  /\ Done(h) /\ UNCHANGED <<memory, users, tokens, cookie>>

\* Mutant of Confirm: every session of the account is confirmed.
ConfirmAll(h) == Busy(h, "confirm") /\ Confirms(h, Ids)

Confirm(h) == Busy(h, "confirm") /\ Confirms(h, {req[h].s})

\* _end_everything and the new session of this browser, in one commit.
ChangePassword(h) ==
  /\ Busy(h, "password") /\ Free # {}
  /\ sessions' = [End(Ids) EXCEPT ![Fresh] = Opened("password", 0, FALSE)]
  /\ tokens' = 0 /\ cookie' = [cookie EXCEPT ![req[h].b] = Fresh]
  /\ Done(h) /\ UNCHANGED <<memory, users>>

SignOut(b) ==
  /\ Signed(b)
  /\ sessions' = End({cookie[b]}) /\ cookie' = [cookie EXCEPT ![b] = 0]
  /\ UNCHANGED <<memory, users, tokens, req>>

EndOther(b, s) ==
  /\ Proven(b) /\ s # cookie[b] /\ Valid(s) /\ sessions' = End({s})
  /\ UNCHANGED <<memory, users, tokens, cookie, req>>

SignOutEverywhere(b) ==
  /\ Proven(b) /\ sessions' = End(Ids) /\ cookie' = [cookie EXCEPT ![b] = 0]
  /\ UNCHANGED <<memory, users, tokens, req>>

-----------------------------------------------------------------------------
(* Tokens: the limit and the name are looked at, then the row is added.    *)

TokenLook(h) ==
  /\ Busy(h, "token") /\ Goto(h, IF tokens < MaxLive THEN [at |-> "tokenAdd"] ELSE Idle)
  /\ UNCHANGED <<memory, rows, cookie>>

TokenAdd(h) ==
  /\ Busy(h, "tokenAdd") /\ tokens' = tokens + 1
  /\ Done(h) /\ UNCHANGED <<memory, users, sessions, cookie>>

\* A token is revoked by its owner, or its own end comes.
TokenEnds ==
  /\ tokens > 0 /\ tokens' = tokens - 1
  /\ UNCHANGED <<memory, users, sessions, cookie, req>>

-----------------------------------------------------------------------------
(* The container's commands, and time.                                     *)

ResetPassword ==
  /\ Claimed /\ sessions' = End(Ids) /\ tokens' = 0
  /\ UNCHANGED <<memory, users, cookie, req>>

RevokeTokens ==
  /\ Claimed /\ tokens > 0 /\ tokens' = 0
  /\ UNCHANGED <<memory, users, sessions, cookie, req>>

\* Unused for a day, or opened seven days ago.
SessionLapses(s) ==
  /\ Valid(s) /\ sessions' = End({s})
  /\ UNCHANGED <<memory, users, tokens, cookie, req>>

\* Five minutes after the proof, which is worth nothing then.
WindowCloses(s) ==
  /\ sessions[s].window
  /\ sessions' = [sessions EXCEPT ![s].window = FALSE, ![s].proven = FALSE]
  /\ UNCHANGED <<memory, users, tokens, cookie, req>>

=============================================================================
