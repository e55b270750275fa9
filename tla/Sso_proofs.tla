----------------------------- MODULE Sso_proofs ------------------------------
(***************************************************************************)
(* Sso, with the Accounts under it, for any handlers, browsers and bounds: *)
(* SsoInv is preserved by each action.  To the single sign-on an account's *)
(* step is one that at most ends sessions, or opens one with a password    *)
(* (Aside), so those come first, by what each does to the rows.  A way in  *)
(* that is cut rests on two facts: a request that no cut has overtaken     *)
(* finds its way open (StillOpen), and the update of a cut has seen every  *)
(* session that is not marked (FindsAll).                                  *)
(***************************************************************************)
EXTENDS Sso, TLAPS

OfAccounts == {"setup", "claimed", "signIn", "rotate", "confirm", "password", "token", "tokenAdd"}
OfSsos == {"callback", "header", "cutting"}

\* What is kept of each request is what its step reads of it.
Shapes ==
  /\ req = [h \in Handlers |-> req[h]]
  /\ \A h \in Handlers :
       /\ req[h].at \in {"idle"} \union OfAccounts \union OfSsos
       /\ req[h].at = "callback" =>
            /\ req[h] = [at |-> "callback", b |-> req[h].b, f |-> req[h].f, ok |-> req[h].ok]
            /\ req[h].f.id \in 1 .. MaxFlows /\ req[h].ok \in BOOLEAN
       /\ req[h].at = "header" =>
            req[h] = [at |-> "header", b |-> req[h].b, ok |-> req[h].ok] /\ req[h].ok \in BOOLEAN
       /\ req[h].at = "cutting" => req[h].cut \in Cuts

SsoShapes ==
  /\ sessions \in [Ids -> Row]
  /\ provider \in {"none", "off", "on"} /\ header \in BOOLEAN
  /\ linked \in [Ways -> Nat] /\ links \in Nat
  /\ flow = [b \in Browsers |-> flow[b]]
  /\ \A b \in Browsers : flow[b] # NoFlow => flow[b].id \in 1 .. MaxFlows
  /\ landed \in [1 .. MaxFlows -> Nat]
  /\ users \in Nat

\* A password, a token or a session is asked for of an account that is there.
OfSomeone ==
  /\ users <= 1
  /\ ~Up => \A h \in Handlers : req[h].at = "idle"
  /\ \A h \in Handlers : req[h].at \in OfAccounts \ {"setup"} => Claimed

\* A session that came through an identity names it.
Named == \A s \in External(Ways) : sessions[s].late \/ sessions[s].link # 0

\* A sign-in that no cut has overtaken finds its way in still open, and a cut
\* has found every session that it is to end.
StillOpen ==
  \A h \in Handlers :
    /\ req[h].at = "callback" /\ req[h].ok => provider = "on"
    /\ req[h].at = "header" /\ req[h].ok => header

FindsAll ==
  \A h \in Handlers : req[h].at = "cutting" =>
    \A w \in CutWays(req[h].cut) : \A s \in External({w}) :
      s \in req[h].ends \/ sessions[s].late

\* A state that is accepted is one request's, until that request has landed it.
OneEach ==
  /\ \A h \in Handlers : req[h].at = "callback" =>
       req[h].f.id \in accepted /\ landed[req[h].f.id] = 0
  /\ \A g, h \in Handlers : req[g].at = "callback" /\ req[h].at = "callback" /\ req[g].f.id = req[h].f.id => g = h
  /\ \A f \in 1 .. MaxFlows : landed[f] # 0 => landed[f] = 1 /\ f \in accepted

SsoInv ==
  /\ Shapes /\ SsoShapes /\ OfSomeone /\ OneWins /\ FreshIsOwn
  /\ Named /\ WaysOut /\ StillOpen /\ FindsAll /\ OneEach

-----------------------------------------------------------------------------
\* The sessions' rows, one by one.

LEMMA EndRows ==
  ASSUME sessions \in [Ids -> Row], NEW S
  PROVE  /\ End(S) \in [Ids -> Row]
         /\ \A s \in Ids : End(S)[s] = sessions[s] \/ (sessions[s].state = "live" /\ End(S)[s] = Over)
  BY DEF End, Over, NoRow, Row

LEMMA OverRow == Over \in Row /\ NoRow \in Row /\ ~Over.window /\ ~NoRow.window /\ Over.state = "over" /\ NoRow.state = "none"
  BY DEF Over, NoRow, Row

LEMMA OpenedRow ==
  ASSUME NEW via \in {"password", "provider", "header"}, NEW link \in Nat, NEW late \in BOOLEAN
  PROVE  /\ Opened(via, link, late) \in Row /\ Opened(via, link, late).state = "live"
         /\ Opened(via, link, late).via = via /\ Opened(via, link, late).link = link
         /\ Opened(via, link, late).late = late /\ ~Opened(via, link, late).window
  BY DEF Opened, NoRow, Row

\* What a step of the account may do to the sessions of a way in: end them.
Stays(s) ==
  /\ sessions'[s] \in Row
  /\ sessions'[s].window => sessions'[s].proven
  /\ sessions'[s].state = "live" /\ sessions'[s].via \in Ways =>
       /\ sessions[s].state = "live" /\ sessions'[s].via = sessions[s].via
       /\ sessions'[s].link = sessions[s].link /\ sessions'[s].late = sessions[s].late

\* A step of the account, as single sign-on sees it.
Aside ==
  /\ req' = [h \in Handlers |-> req'[h]]
  /\ \A h \in Handlers : req'[h] = req[h] \/ req'[h].at \in {"idle"} \union OfAccounts
  /\ sessions' = [s \in Ids |-> sessions'[s]] /\ \A s \in Ids : Stays(s)
  /\ users' \in Nat /\ OfSomeone' /\ OneWins'

LEMMA AsideKeeps ==
  ASSUME SsoInv, Aside, UNCHANGED <<ssoRows, flowVars>>
  PROVE  SsoInv'
<1>1. Shapes'
  BY DEF SsoInv, Aside, Shapes, OfAccounts
<1>2. \A h \in Handlers : req'[h].at \in OfSsos => req'[h] = req[h]
  BY DEF Aside, OfSsos, OfAccounts
<1>3. SsoShapes'
  BY DEF SsoInv, Aside, Stays, SsoShapes, ssoRows, flowVars
<1>4. FreshIsOwn'
  BY DEF Aside, Stays, FreshIsOwn
<1>5. ASSUME NEW W \in SUBSET Ways, NEW s \in External(W)'
      PROVE  /\ s \in External(W) /\ sessions'[s].via = sessions[s].via /\ sessions[s].via \in Ways
             /\ sessions'[s].link = sessions[s].link /\ sessions'[s].late = sessions[s].late
  BY <1>5 DEF Aside, Stays, External
<1>6. Named' /\ WaysOut'
  BY <1>5 DEF SsoInv, Named, WaysOut, On, ssoRows
<1>7. StillOpen'
  BY <1>2 DEF SsoInv, StillOpen, ssoRows, OfSsos
<1>8. FindsAll'
  <2>1. \A c \in Cuts : CutWays(c) \subseteq Ways
    BY DEF Cuts, CutWays, Ways
  <2>2. \A h \in Handlers : req[h].at = "cutting" => req[h].cut \in Cuts
    BY DEF SsoInv, Shapes
  <2>3. ASSUME NEW h \in Handlers, req'[h].at = "cutting", NEW w \in CutWays(req'[h].cut), NEW s \in External({w})'
        PROVE  s \in req'[h].ends \/ sessions'[s].late
    <3>1. req'[h] = req[h] /\ {w} \in SUBSET Ways
      BY <1>2, <2>1, <2>2, <2>3 DEF OfSsos
    <3>2. QED BY <3>1, <1>5, <2>3 DEF SsoInv, FindsAll
  <2>4. QED BY <2>3 DEF FindsAll
<1>9. OneEach'
  BY <1>2 DEF SsoInv, OneEach, flowVars, OfSsos
<1>10. QED BY <1>1, <1>3, <1>4, <1>6, <1>7, <1>8, <1>9 DEF SsoInv, Aside

-----------------------------------------------------------------------------
\* What is the same in every step of the account: whose request moves, and
\* which rows may change.

\* One request moves, to a step of the account or to its end.
Moves(h) == \E r : r.at \in {"idle"} \union OfAccounts /\ req' = [req EXCEPT ![h] = r]

LEMMA MovesAside ==
  ASSUME SsoInv, NEW h \in Handlers, Moves(h)
  PROVE  /\ req' = [g \in Handlers |-> req'[g]]
         /\ \A g \in Handlers : req'[g] = req[g] \/ req'[g].at \in {"idle"} \union OfAccounts
         /\ \A g \in Handlers : g # h => req'[g] = req[g]
         /\ req'[h].at \in {"idle"} \union OfAccounts
<1>1. PICK r : r.at \in {"idle"} \union OfAccounts /\ req' = [req EXCEPT ![h] = r]
  BY DEF Moves
<1>2. req' = [g \in Handlers |-> IF g = h THEN r ELSE req[g]]
  BY <1>1 DEF SsoInv, Shapes
<1>3. QED BY <1>1, <1>2

\* The rows are left as they are, or ended.
Ends ==
  /\ sessions' \in [Ids -> Row] /\ users' = users
  /\ \A s \in Ids : sessions'[s] = sessions[s] \/ (sessions[s].state = "live" /\ sessions'[s] = Over)

LEMMA EndsStay ==
  ASSUME SsoInv, Ends, tokens' = 0 \/ tokens' = tokens \/ Claimed
  PROVE  /\ sessions' = [s \in Ids |-> sessions'[s]] /\ \A s \in Ids : Stays(s)
         /\ users' \in Nat /\ OneWins'
<1>1. \A s \in Ids : Stays(s)
  BY OverRow DEF Ends, Stays, SsoInv, FreshIsOwn
<1>2. ASSUME ~Claimed' PROVE tokens' = 0 /\ \A s \in Ids : sessions'[s].state = "none"
  <2>1. ~Claimed
    BY <1>2 DEF Claimed, Ends
  <2>2. tokens = 0 /\ \A s \in Ids : sessions[s].state = "none"
    BY <2>1 DEF SsoInv, OneWins
  <2>3. QED BY <2>1, <2>2 DEF Ends
<1>3. users' \in Nat /\ users' <= 1
  BY DEF Ends, SsoInv, SsoShapes, OneWins
<1>4. QED BY <1>1, <1>2, <1>3 DEF Ends, OneWins

\* A new session, with the rows that end at the same time.
LEMMA OpensStay ==
  ASSUME SsoInv, NEW rest \in [Ids -> Row], users' \in Nat, users' = 1, 
         \A s \in Ids : rest[s] = sessions[s] \/ rest[s] = Over,
         NEW n, sessions' = [rest EXCEPT ![n] = Opened("password", 0, FALSE)]
  PROVE  /\ sessions' = [s \in Ids |-> sessions'[s]] /\ \A s \in Ids : Stays(s)
         /\ users' \in Nat /\ OneWins'
<1>1. /\ Opened("password", 0, FALSE) \in Row /\ ~Opened("password", 0, FALSE).window
      /\ Opened("password", 0, FALSE).via = "password"
  BY DEF Opened, NoRow, Row
<1>2. ASSUME NEW s \in Ids PROVE Stays(s)
  <2>1. sessions'[s] = sessions[s] \/ sessions'[s] = Over \/ sessions'[s] = Opened("password", 0, FALSE)
    OBVIOUS
  <2>2. QED BY <1>1, <2>1, OverRow DEF Stays, SsoInv, SsoShapes, FreshIsOwn, Ways
<1>3. sessions' = [s \in Ids |-> sessions'[s]]
  OBVIOUS
<1>4. QED BY <1>2, <1>3 DEF OneWins, Claimed

\* Nobody's step is at work without an account.
LEMMA MovesOfSomeone ==
  ASSUME SsoInv, NEW h \in Handlers, Moves(h), Up', users' \in Nat, users' <= 1,
         Claimed => Claimed', req'[h].at \in {"idle", "setup"} \/ Claimed'
  PROVE  OfSomeone'
<1>1. \A g \in Handlers : g # h => req'[g] = req[g]
  BY MovesAside
<1>2. QED BY <1>1 DEF SsoInv, OfSomeone, OfAccounts

LEMMA StillOfSomeone ==
  ASSUME SsoInv, UNCHANGED <<req, users, code>>
  PROVE  OfSomeone'
  BY DEF SsoInv, OfSomeone, Up, Claimed

-----------------------------------------------------------------------------
\* Each step of the account.

LEMMA StartAside == ASSUME SsoInv, Start PROVE Aside
<1>1. req' = [h \in Handlers |-> req'[h]] /\ \A h \in Handlers : req'[h] = req[h]
  BY DEF Start, SsoInv, Shapes
<1>2. OfSomeone'
  <2>1. \A h \in Handlers : req'[h].at = "idle"
    BY <1>1 DEF Start, SsoInv, OfSomeone
  <2>2. QED BY <2>1 DEF Start, rows, SsoInv, OfSomeone, OfAccounts
<1>3. Ends /\ tokens' = tokens
  BY DEF Start, rows, Ends, SsoInv, SsoShapes
<1>4. QED BY <1>1, <1>2, <1>3, EndsStay DEF Aside

LEMMA LoseAside == ASSUME SsoInv, LoseDatabase PROVE Aside
<1>1. req' = [h \in Handlers |-> req'[h]] /\ \A h \in Handlers : req'[h] = req[h] /\ req'[h].at = "idle"
  BY DEF LoseDatabase, SsoInv, Shapes, OfSomeone
<1>2. OfSomeone'
  BY <1>1 DEF LoseDatabase, OfSomeone, OfAccounts
<1>3. sessions' = [s \in Ids |-> NoRow]
  BY DEF LoseDatabase
<1>4. (\A s \in Ids : Stays(s)) /\ OneWins'
  BY <1>3, OverRow DEF LoseDatabase, Stays, OneWins
<1>5. QED BY <1>1, <1>2, <1>3, <1>4 DEF Aside, LoseDatabase

\* Requests that change no row.
LEMMA ReadsAside ==
  ASSUME SsoInv, NEW h \in Handlers, Moves(h), UNCHANGED rows, Up', req'[h].at \in {"idle", "setup"} \/ Claimed
  PROVE  Aside
<1>1. Ends /\ tokens' = tokens /\ users' = users
  BY DEF rows, Ends, SsoInv, SsoShapes
<1>2. OfSomeone'
  BY <1>1, MovesOfSomeone DEF Claimed, SsoInv, OfSomeone, SsoShapes
<1>3. QED BY <1>1, <1>2, EndsStay, MovesAside DEF Aside

LEMMA SetupCheckAside ==
  ASSUME SsoInv, NEW h \in Handlers, NEW b \in Browsers, SetupCheck(h, b)
  PROVE  Aside
<1>1. Moves(h)
  BY DEF SetupCheck, Take, Moves, OfAccounts
<1>2. req'[h].at = "setup" /\ UNCHANGED rows /\ Up'
  BY DEF SetupCheck, Take, SsoInv, Shapes, Up, memory
<1>3. QED BY <1>1, <1>2, ReadsAside
LEMMA SignInCheckAside ==
  ASSUME SsoInv, NEW h \in Handlers, NEW b \in Browsers, SignInCheck(h, b)
  PROVE  Aside
<1>1. Moves(h)
  BY DEF SignInCheck, Take, Moves, OfAccounts
<1>2. QED BY <1>1, ReadsAside DEF SignInCheck, Up, memory

LEMMA GateAside ==
  ASSUME SsoInv, NEW h \in Handlers, NEW b \in Browsers, NEW op \in Slow, Gate(h, b, op)
  PROVE  Aside
<1>1. Moves(h)
  BY DEF Gate, Take, Moves, OfAccounts, Slow
<1>2. Claimed /\ Up
  BY DEF Gate, Proven, Signed, Valid
<1>3. QED BY <1>1, <1>2, ReadsAside DEF Gate, Up, memory

\* Those that come to their end, or go on with an account there.
LEMMA DoneMoves ==
  ASSUME SsoInv, NEW h \in Handlers, Done(h)
  PROVE  Moves(h) /\ req'[h].at = "idle"
  BY DEF Done, Goto, Moves, Idle, SsoInv, Shapes

LEMMA PrunedAside ==
  ASSUME SsoInv, NEW h \in Handlers, NEW op, Pruned(h, op)
  PROVE  Aside
  BY DoneMoves, ReadsAside DEF Pruned, Busy, Up, memory

LEMMA CodeEndsAside ==
  ASSUME SsoInv, NEW h \in Handlers, CodeEnds(h)
  PROVE  Aside
  BY DoneMoves, ReadsAside DEF CodeEnds, Up

LEMMA TokenLookAside ==
  ASSUME SsoInv, NEW h \in Handlers, TokenLook(h)
  PROVE  Aside
<1>1. Moves(h)
  <2>1. CASE tokens < MaxLive BY <2>1 DEF TokenLook, Goto, Moves, OfAccounts
  <2>2. CASE ~(tokens < MaxLive) BY <2>2 DEF TokenLook, Goto, Moves, Idle
  <2>3. QED BY <2>1, <2>2
<1>2. Claimed
  BY DEF TokenLook, Busy, SsoInv, OfSomeone, OfAccounts
<1>3. QED BY <1>1, <1>2, ReadsAside DEF TokenLook, Busy, Up, memory

LEMMA TokenAddAside ==
  ASSUME SsoInv, NEW h \in Handlers, TokenAdd(h)
  PROVE  Aside
<1>1. Claimed
  BY DEF TokenAdd, Busy, SsoInv, OfSomeone, OfAccounts
<1>2. Moves(h) /\ req'[h].at = "idle"
  BY DoneMoves DEF TokenAdd
<1>3. Ends
  BY DEF TokenAdd, Ends, SsoInv, SsoShapes
<1>4. OfSomeone'
  BY <1>2, MovesOfSomeone DEF TokenAdd, Busy, Up, memory, Claimed, SsoInv, SsoShapes, OfSomeone
<1>5. QED BY <1>1, <1>2, <1>3, <1>4, EndsStay, MovesAside DEF Aside

LEMMA ClaimAside ==
  ASSUME SsoInv, NEW h \in Handlers, Claim(h)
  PROVE  Aside
<1>1. CASE Claimed
  <2>1. Done(h) /\ UNCHANGED rows /\ Up'
    BY <1>1 DEF Claim, Busy, Up, memory, rows
  <2>2. QED BY <2>1, DoneMoves, ReadsAside
<1>2. CASE ~Claimed
  <2>1. Adds(h) /\ Up'
    BY <1>2 DEF Claim, Busy, Up, memory
  <2>2. users' = 1
    BY <1>2, <2>1 DEF Adds, Claimed, SsoInv, SsoShapes
  <2>3. Moves(h)
    BY <2>1 DEF Adds, Goto, Moves, OfAccounts
  <2>4. OfSomeone'
    BY <1>2, <2>1, <2>2, <2>3, MovesOfSomeone DEF Claimed
  <2>5. sessions \in [Ids -> Row] /\ sessions' = [sessions EXCEPT ![Fresh] = Opened("password", 0, FALSE)]
    BY <2>1 DEF Adds, SsoInv, SsoShapes
  <2>6. QED BY <2>2, <2>3, <2>4, <2>5, OpensStay, MovesAside DEF Aside
<1>3. QED BY <1>1, <1>2

LEMMA OneUser == SsoInv /\ Claimed => users = 1
  BY DEF SsoInv, SsoShapes, OfSomeone, Claimed

LEMMA SignInCommitAside ==
  ASSUME SsoInv, NEW h \in Handlers, SignInCommit(h)
  PROVE  Aside
<1>1. Claimed /\ Up'
  BY DEF SignInCommit, Busy, SsoInv, OfSomeone, OfAccounts, Up, memory
<1>2. users' = 1
  BY <1>1, OneUser DEF SignInCommit
<1>3. Moves(h)
  BY DEF SignInCommit, Goto, Moves, OfAccounts
<1>4. OfSomeone'
  BY <1>1, <1>2, <1>3, MovesOfSomeone DEF Claimed
<1>5. sessions \in [Ids -> Row] /\ sessions' = [sessions EXCEPT ![Fresh] = Opened("password", 0, FALSE)]
  BY DEF SignInCommit, SsoInv, SsoShapes
<1>6. QED BY <1>2, <1>3, <1>4, <1>5, OpensStay, MovesAside DEF Aside

LEMMA ChangePasswordAside ==
  ASSUME SsoInv, NEW h \in Handlers, ChangePassword(h)
  PROVE  Aside
<1>1. Claimed /\ Up'
  BY DEF ChangePassword, Busy, SsoInv, OfSomeone, OfAccounts, Up, memory
<1>2. users' = 1
  BY <1>1, OneUser DEF ChangePassword
<1>3. Moves(h)
  BY DoneMoves DEF ChangePassword
<1>4. OfSomeone'
  BY <1>1, <1>2, <1>3, MovesOfSomeone DEF Claimed
<1>5. /\ End(Ids) \in [Ids -> Row] /\ \A s \in Ids : End(Ids)[s] = sessions[s] \/ End(Ids)[s] = Over
      /\ sessions' = [End(Ids) EXCEPT ![Fresh] = Opened("password", 0, FALSE)]
  BY EndRows DEF ChangePassword, SsoInv, SsoShapes
<1>6. QED BY <1>2, <1>3, <1>4, <1>5, OpensStay, MovesAside DEF Aside

LEMMA RotateAside ==
  ASSUME SsoInv, NEW h \in Handlers, Rotate(h)
  PROVE  Aside
<1>1. Ends /\ tokens' = tokens
  BY EndRows DEF Rotate, Ends, SsoInv, SsoShapes
<1>2. Moves(h) /\ req'[h].at = "idle"
  BY DoneMoves DEF Rotate
<1>3. OfSomeone'
  BY <1>2, MovesOfSomeone DEF Rotate, Busy, Up, memory, Claimed, SsoInv, SsoShapes, OfSomeone
<1>4. QED BY <1>1, <1>2, <1>3, EndsStay, MovesAside DEF Aside

\* Only the session that the password was asked in is confirmed.
LEMMA ConfirmAside ==
  ASSUME SsoInv, NEW h \in Handlers, Confirm(h)
  PROVE  Aside
<1>1. \A s \in Ids : sessions'[s] = IF s = req[h].s /\ sessions[s].state = "live"
                                    THEN [sessions[s] EXCEPT !.window = TRUE, !.proven = TRUE]
                                    ELSE sessions[s]
  BY DEF Confirm, Confirms, SsoInv, SsoShapes, Row
<1>2. sessions' = [s \in Ids |-> sessions'[s]] /\ users' = users /\ tokens' = tokens
  BY DEF Confirm, Confirms
<1>3. ASSUME NEW s \in Ids PROVE Stays(s) /\ sessions'[s].state = sessions[s].state
  <2>1. sessions[s] \in Row /\ (sessions[s].window => sessions[s].proven)
    BY DEF SsoInv, SsoShapes, FreshIsOwn
  <2>2. CASE s = req[h].s /\ sessions[s].state = "live"
    BY <1>1, <2>1, <2>2 DEF Stays, Row
  <2>3. CASE ~(s = req[h].s /\ sessions[s].state = "live")
    BY <1>1, <2>1, <2>3 DEF Stays
  <2>4. QED BY <2>2, <2>3
<1>4. OneWins'
  BY <1>2, <1>3 DEF OneWins, Claimed, SsoInv
<1>5. Moves(h) /\ req'[h].at = "idle"
  BY DoneMoves DEF Confirm, Confirms
<1>6. OfSomeone'
  BY <1>2, <1>5, MovesOfSomeone DEF Confirm, Confirms, Busy, Up, memory, Claimed, SsoInv, SsoShapes, OfSomeone
<1>7. QED BY <1>2, <1>3, <1>4, <1>5, <1>6, MovesAside DEF Aside, SsoInv, SsoShapes

\* What ends sessions or tokens and is one step.
LEMMA OneStepAside ==
  ASSUME SsoInv, NEW S, sessions' = End(S) \/ sessions' = sessions,
         tokens' = 0 \/ tokens' = tokens \/ Claimed, UNCHANGED <<memory, users, req>>
  PROVE  Aside
<1>1. Ends
  BY EndRows DEF Ends, SsoInv, SsoShapes
<1>2. OfSomeone'
  BY StillOfSomeone DEF memory
<1>3. req' = [h \in Handlers |-> req'[h]] /\ \A h \in Handlers : req'[h] = req[h]
  BY DEF SsoInv, Shapes
<1>4. QED BY <1>1, <1>2, <1>3, EndsStay DEF Aside

LEMMA WindowClosesAside ==
  ASSUME SsoInv, NEW s \in Ids, WindowCloses(s)
  PROVE  Aside
<1>1. ASSUME NEW t \in Ids PROVE Stays(t) /\ sessions'[t].state = sessions[t].state
  <2>1. sessions[t] \in Row /\ sessions'[t] = IF t = s THEN [sessions[t] EXCEPT !.window = FALSE, !.proven = FALSE] ELSE sessions[t]
    BY DEF WindowCloses, SsoInv, SsoShapes
  <2>2. QED BY <2>1 DEF Stays, Row, SsoInv, FreshIsOwn
<1>2. sessions' = [t \in Ids |-> sessions'[t]]
  BY DEF WindowCloses, SsoInv, SsoShapes
<1>3. OneWins'
  BY <1>1 DEF WindowCloses, OneWins, Claimed, SsoInv
<1>4. OfSomeone'
  BY StillOfSomeone DEF WindowCloses, memory
<1>5. QED BY <1>1, <1>2, <1>3, <1>4 DEF Aside, WindowCloses, SsoInv, Shapes, SsoShapes

LEMMA AccountAside == ASSUME SsoInv, OfAccount PROVE Aside
<1>1. CASE ResetPassword \/ RevokeTokens \/ TokenEnds
  <2>1. CASE ResetPassword BY <2>1, OneStepAside DEF ResetPassword
  <2>2. CASE RevokeTokens BY <2>2, OneStepAside DEF RevokeTokens
  <2>3. CASE TokenEnds
    <3>1. Claimed BY <2>3 DEF TokenEnds, SsoInv, OneWins
    <3>2. QED BY <2>3, <3>1, OneStepAside DEF TokenEnds
  <2>4. QED BY <1>1, <2>1, <2>2, <2>3
<1>2. CASE \E s \in Ids : SessionLapses(s)
  BY <1>2, OneStepAside DEF SessionLapses
<1>3. CASE \E b \in Browsers : SignOut(b) \/ SignOutEverywhere(b) \/ \E s \in Ids : EndOther(b, s)
  BY <1>3, OneStepAside DEF SignOut, SignOutEverywhere, EndOther
<1>4. QED
  BY <1>1, <1>2, <1>3, StartAside, LoseAside, WindowClosesAside, SetupCheckAside, SignInCheckAside,
     GateAside, ClaimAside, CodeEndsAside, SignInCommitAside, RotateAside, PrunedAside, ConfirmAside,
     ChangePasswordAside, TokenLookAside, TokenAddAside DEF OfAccount
-----------------------------------------------------------------------------
\* The process stops, and the steps that move no request.

LEMMA StopKeeps ==
  ASSUME SsoInv, Stop, accepted' = {}, landed' = NoneLanded, UNCHANGED <<ssoRows, flow>>
  PROVE  SsoInv'
<1>1. \A h \in Handlers : req'[h] = Idle /\ req'[h].at = "idle"
  BY DEF Stop, Idle
<1>2. Shapes'
  BY <1>1 DEF Stop, Shapes
<1>3. SsoShapes'
  BY DEF SsoInv, SsoShapes, Stop, ssoRows, rows, NoneLanded
<1>4. OfSomeone' /\ OneWins' /\ FreshIsOwn'
  BY <1>1 DEF SsoInv, OfSomeone, OneWins, FreshIsOwn, Stop, rows, Claimed, OfAccounts
<1>5. External(Ways)' = External(Ways)
  BY DEF External, Stop, rows
<1>6. Named' /\ WaysOut'
  BY <1>5 DEF SsoInv, Named, WaysOut, On, Stop, rows, ssoRows
<1>7. StillOpen' /\ FindsAll' /\ OneEach'
  BY <1>1 DEF StillOpen, FindsAll, OneEach, NoneLanded
<1>8. QED BY <1>2, <1>3, <1>4, <1>6, <1>7 DEF SsoInv

\* What holds of sessions, users and requests while all of them stay.
LEMMA AccountStays ==
  ASSUME SsoInv, UNCHANGED accountVars
  PROVE  Shapes' /\ OfSomeone' /\ OneWins' /\ FreshIsOwn' /\ Named' /\ UNCHANGED <<sessions, users, req>>
<1>1. UNCHANGED <<sessions, users, req, tokens, code>>
  BY DEF accountVars, rows, memory
<1>2. QED BY <1>1 DEF SsoInv, Shapes, OfSomeone, OneWins, FreshIsOwn, Named, External, Claimed, Up

LEMMA FlowExpiresKeeps ==
  ASSUME SsoInv, NEW b \in Browsers, FlowExpires(b)
  PROVE  SsoInv'
<1>1. UNCHANGED <<accountVars, ssoRows, accepted, landed>>
  BY DEF FlowExpires
<1>2. SsoShapes'
  BY <1>1, AccountStays DEF SsoInv, SsoShapes, FlowExpires, ssoRows
<1>3. WaysOut' /\ StillOpen' /\ FindsAll' /\ OneEach'
  BY <1>1, AccountStays DEF SsoInv, WaysOut, StillOpen, FindsAll, OneEach, ssoRows, On, External
<1>4. QED BY <1>1, <1>2, <1>3, AccountStays DEF SsoInv

\* A state that nobody has is nobody's request's.
LEMMA FlowStartsKeeps ==
  ASSUME SsoInv, NEW b \in Browsers, NEW i \in Intents, FlowStarts(b, i)
  PROVE  SsoInv'
<1>1. UNCHANGED <<accountVars, ssoRows>>
  BY DEF FlowStarts
<1>2. PICK f \in Unused :
        /\ flow' = [flow EXCEPT ![b] = [id |-> f, intent |-> i, s |-> IF i = "login" THEN 0 ELSE cookie[b]]]
        /\ accepted' = accepted \ {f} /\ landed' = [landed EXCEPT ![f] = 0]
  BY DEF FlowStarts
<1>3. f \in 1 .. MaxFlows /\ \A h \in Handlers : req[h].at = "callback" => req[h].f.id # f
  BY <1>2 DEF Unused
<1>4. SsoShapes'
  BY <1>1, <1>2, <1>3, AccountStays DEF SsoInv, SsoShapes, ssoRows
<1>5. WaysOut' /\ StillOpen' /\ FindsAll'
  BY <1>1, AccountStays DEF SsoInv, WaysOut, StillOpen, FindsAll, ssoRows, On, External
<1>6. OneEach'
  <2>1. \A g \in 1 .. MaxFlows : landed'[g] = IF g = f THEN 0 ELSE landed[g]
    BY <1>2 DEF SsoInv, SsoShapes
  <2>2. \A h \in Handlers : req[h].at = "callback" => req[h].f.id \in 1 .. MaxFlows
    BY DEF SsoInv, Shapes
  <2>3. req' = req
    BY <1>1, AccountStays
  <2>4. QED BY <1>2, <1>3, <2>1, <2>2, <2>3 DEF SsoInv, OneEach
<1>7. QED BY <1>1, <1>4, <1>5, <1>6, AccountStays DEF SsoInv

\* The first identity of a way finds no session that came through it.
LEMMA LinkedFirst ==
  ASSUME SsoInv, NEW w \in Ways, linked[w] = 0, links' = links + 1,
         linked' = [linked EXCEPT ![w] = links + 1], UNCHANGED <<sessions, provider, header>>
  PROVE  WaysOut'
<1>1. \A v \in Ways : v # w => linked'[v] = linked[v]
  BY DEF SsoInv, SsoShapes
<1>2. ASSUME NEW s \in External(Ways), ~sessions[s].late
      PROVE  On(sessions[s].via)' /\ sessions[s].link = linked'[sessions[s].via]
  <2>1. sessions[s].link # 0 /\ On(sessions[s].via) /\ sessions[s].link = linked[sessions[s].via]
    BY <1>2 DEF SsoInv, Named, WaysOut
  <2>2. sessions[s].via \in Ways
    BY DEF External
  <2>3. QED BY <1>1, <2>1, <2>2 DEF On
<1>3. External(Ways)' = External(Ways)
  BY DEF External
<1>4. QED BY <1>2, <1>3 DEF WaysOut

LEMMA LinkHeaderKeeps ==
  ASSUME SsoInv, NEW b \in Browsers, LinkHeader(b)
  PROVE  SsoInv'
<1>1. UNCHANGED <<accountVars, provider, header, flowVars>>
  BY DEF LinkHeader
<1>2. linked["header"] = 0 /\ links' = links + 1 /\ linked' = [linked EXCEPT !["header"] = links + 1]
  BY DEF LinkHeader
<1>3. WaysOut'
  <2>1. "header" \in Ways /\ UNCHANGED <<sessions, provider, header>>
    BY <1>1, AccountStays DEF Ways
  <2>2. QED BY <1>2, <2>1, LinkedFirst
<1>4. SsoShapes'
  <2>1. linked' \in [Ways -> Nat] /\ links' \in Nat
    <3>1. linked \in [Ways -> Nat] /\ links + 1 \in Nat
      BY DEF SsoInv, SsoShapes
    <3>2. QED BY <1>2, <3>1
  <2>2. UNCHANGED <<sessions, users, provider, header, flow, landed>>
    BY <1>1, AccountStays DEF flowVars
  <2>3. QED BY <2>1, <2>2 DEF SsoInv, SsoShapes
<1>5. StillOpen' /\ FindsAll' /\ OneEach'
  BY <1>1, AccountStays DEF SsoInv, StillOpen, FindsAll, OneEach, External, flowVars
<1>6. QED BY <1>1, <1>3, <1>4, <1>5, AccountStays DEF SsoInv

LEMMA SwitchOnKeeps ==
  ASSUME SsoInv, NEW b \in Browsers, ProviderOn(b) \/ HeaderOn(b)
  PROVE  SsoInv'
<1>1. UNCHANGED <<accountVars, linked, links, flowVars>>
  BY DEF ProviderOn, HeaderOn
<1>2. SsoShapes'
  <2>1. provider' \in {"none", "off", "on"} /\ header' \in BOOLEAN
    BY DEF ProviderOn, HeaderOn, SsoInv, SsoShapes
  <2>2. QED BY <1>1, <2>1, AccountStays DEF SsoInv, SsoShapes, flowVars
<1>3. (provider = "on" => provider' = "on") /\ (header => header')
  BY DEF ProviderOn, HeaderOn
<1>4. WaysOut' /\ StillOpen' /\ FindsAll' /\ OneEach'
  BY <1>1, <1>3, AccountStays DEF SsoInv, WaysOut, StillOpen, FindsAll, OneEach, External, flowVars, On
<1>5. QED BY <1>1, <1>2, <1>4, AccountStays DEF SsoInv
-----------------------------------------------------------------------------
\* The steps of a request.

\* A request that ends, or begins with a shape of its own.
LEMMA MovedReq ==
  ASSUME SsoInv, NEW h \in Handlers, NEW r, req' = [req EXCEPT ![h] = r]
  PROVE  \A g \in Handlers : req'[g] = IF g = h THEN r ELSE req[g]
  BY DEF SsoInv, Shapes

LEMMA DoneReq ==
  ASSUME SsoInv, NEW h \in Handlers, Done(h)
  PROVE  /\ req' = [req EXCEPT ![h] = Idle]
         /\ \A g \in Handlers : req'[g] = IF g = h THEN Idle ELSE req[g]
  BY MovedReq DEF Done, Goto

LEMMA DoneShapes ==
  ASSUME SsoInv, NEW h \in Handlers, Done(h)
  PROVE  Shapes'
<1>1. req' = [g \in Handlers |-> req'[g]] /\ \A g \in Handlers : req'[g] = IF g = h THEN Idle ELSE req[g]
  BY DoneReq DEF SsoInv, Shapes
<1>2. Idle.at = "idle"
  BY DEF Idle
<1>3. QED BY <1>1, <1>2 DEF SsoInv, Shapes

LEMMA DoneOfSomeone ==
  ASSUME SsoInv, NEW h \in Handlers, Done(h), UNCHANGED <<users, code>>
  PROVE  OfSomeone'
  BY DoneReq DEF SsoInv, OfSomeone, Idle, Up, Claimed, OfAccounts

\* An end of a request that leaves the sessions, the ways and the accepted states.
LEMMA DoneKeeps ==
  ASSUME SsoInv, NEW h \in Handlers, Done(h), UNCHANGED <<memory, rows, provider, header, linked, links, accepted, landed>>,
         flow' = flow \/ \E b : flow' = [flow EXCEPT ![b] = NoFlow]
  PROVE  SsoInv'
<1>1. \A g \in Handlers : req'[g] = req[g] \/ req'[g].at = "idle"
  BY DoneReq DEF Idle
<1>2. UNCHANGED <<sessions, users, tokens, code>>
  BY DEF rows, memory
<1>3. Shapes' /\ OfSomeone'
  BY <1>2, DoneShapes, DoneOfSomeone
<1>4. SsoShapes'
  <2>1. flow' = [b \in Browsers |-> flow'[b]] /\ \A b \in Browsers : flow'[b] = flow[b] \/ flow'[b] = NoFlow
    BY DEF SsoInv, SsoShapes
  <2>2. QED BY <1>2, <2>1 DEF SsoInv, SsoShapes
<1>5. OneWins' /\ FreshIsOwn' /\ Named' /\ WaysOut'
  BY <1>2 DEF SsoInv, OneWins, FreshIsOwn, Named, WaysOut, External, Claimed, On
<1>6. StillOpen' /\ FindsAll' /\ OneEach'
  BY <1>1, <1>2 DEF SsoInv, StillOpen, FindsAll, OneEach, External
<1>7. QED BY <1>3, <1>4, <1>5, <1>6 DEF SsoInv

LEMMA FlowFailsKeeps ==
  ASSUME SsoInv, NEW h \in Handlers, FlowFails(h)
  PROVE  SsoInv'
  BY DoneKeeps DEF FlowFails, Cleared, ssoRows

\* A request that begins: nobody has its state, and its way is on.
LEMMA TakesKeeps ==
  ASSUME SsoInv, NEW h \in Handlers, NEW b, NEW f, NEW r, Up, Take(h, r), UNCHANGED <<memory, rows, ssoRows, flow, landed>>,
         \/ /\ r = [at |-> "callback", b |-> b, f |-> f, ok |-> TRUE] /\ provider = "on"
            /\ f.id \in (1 .. MaxFlows) \ accepted /\ accepted' = accepted \union {f.id}
         \/ r = [at |-> "header", b |-> b, ok |-> TRUE] /\ header /\ accepted' = accepted
  PROVE  SsoInv'
<1>1. req' = [req EXCEPT ![h] = r] /\ \A g \in Handlers : req'[g] = IF g = h THEN r ELSE req[g]
  BY MovedReq DEF Take
<1>2. r.at \in {"callback", "header"} /\ r.ok = TRUE
  OBVIOUS
<1>3. UNCHANGED <<sessions, users, tokens, code, provider, header, linked, links>>
  BY DEF rows, memory, ssoRows
<1>4. Shapes'
  <2>1. req' = [g \in Handlers |-> req'[g]]
    BY <1>1 DEF SsoInv, Shapes
  <2>2. CASE r.at = "callback"
    <3>1. r = [at |-> "callback", b |-> b, f |-> f, ok |-> TRUE] /\ f.id \in 1 .. MaxFlows
      BY <2>2
    <3>2. QED BY <1>1, <2>1, <2>2, <3>1 DEF SsoInv, Shapes, OfSsos
  <2>3. CASE r.at = "header"
    <3>1. r = [at |-> "header", b |-> b, ok |-> TRUE]
      BY <2>3
    <3>2. QED BY <1>1, <2>1, <2>3, <3>1 DEF SsoInv, Shapes, OfSsos
  <2>4. QED BY <1>2, <2>2, <2>3
<1>5. SsoShapes'
  BY <1>3 DEF SsoInv, SsoShapes
<1>6. OfSomeone'
  BY <1>1, <1>2, <1>3 DEF SsoInv, OfSomeone, Up, Claimed, OfAccounts
<1>7. OneWins' /\ FreshIsOwn' /\ Named' /\ WaysOut'
  BY <1>3 DEF SsoInv, OneWins, FreshIsOwn, Named, WaysOut, External, Claimed, On
<1>8. StillOpen'
  BY <1>1, <1>3 DEF SsoInv, StillOpen
<1>9. FindsAll'
  BY <1>1, <1>2, <1>3 DEF SsoInv, FindsAll, External
<1>10. OneEach'
  <2>1. CASE r.at = "callback"
    <3>1. r.f.id \in (1 .. MaxFlows) \ accepted /\ accepted' = accepted \union {r.f.id}
      BY <2>1
    <3>2. landed[r.f.id] = 0 /\ \A g \in Handlers : req[g].at = "callback" => req[g].f.id # r.f.id
      BY <3>1 DEF SsoInv, OneEach
    <3>3. QED BY <1>1, <3>1, <3>2 DEF SsoInv, OneEach
  <2>2. CASE r.at = "header"
    BY <1>1, <2>2 DEF SsoInv, OneEach
  <2>3. QED BY <1>2, <2>1, <2>2
<1>11. QED BY <1>4, <1>5, <1>6, <1>7, <1>8, <1>9, <1>10 DEF SsoInv
LEMMA CallbackKeeps ==
  ASSUME SsoInv, NEW h \in Handlers, NEW b \in Browsers, Callback(h, b)
  PROVE  SsoInv'
<1>1. flow[b].id \in (1 .. MaxFlows) \ accepted /\ accepted' = accepted \union {flow[b].id}
  BY DEF Callback, SsoInv, SsoShapes
<1>2. CASE provider = "on"
  BY <1>1, <1>2, TakesKeeps DEF Callback
<1>3. CASE provider # "on"
  <2>1. UNCHANGED <<accountVars, ssoRows, flow, landed>>
    BY <1>3 DEF Callback, accountVars
  <2>2. SsoShapes' /\ WaysOut' /\ StillOpen' /\ FindsAll'
    BY <2>1, AccountStays DEF SsoInv, SsoShapes, WaysOut, StillOpen, FindsAll, External, ssoRows, On
  <2>3. OneEach'
    BY <1>1, <2>1, AccountStays DEF SsoInv, OneEach
  <2>4. QED BY <2>1, <2>2, <2>3, AccountStays DEF SsoInv
<1>4. QED BY <1>2, <1>3

LEMMA HeaderCheckKeeps ==
  ASSUME SsoInv, NEW h \in Handlers, NEW b \in Browsers, HeaderCheck(h, b)
  PROVE  SsoInv'
<1>1. Take(h, [at |-> "header", b |-> b, ok |-> TRUE]) /\ Up /\ header /\ accepted' = accepted
      /\ UNCHANGED <<memory, rows, ssoRows, flow, landed>>
  BY DEF HeaderCheck, flowVars
<1>2. QED BY <1>1, TakesKeeps

\* What landing a flow does to the accepted states.
LEMMA LandsOnce ==
  ASSUME SsoInv, NEW h \in Handlers, req[h].at = "callback", Done(h), Lands(req[h].f.id), accepted' = accepted
  PROVE  OneEach' /\ landed' \in [1 .. MaxFlows -> Nat]
<1> DEFINE f == req[h].f.id
<1>1. f \in 1 .. MaxFlows /\ landed[f] = 0 /\ f \in accepted /\ landed \in [1 .. MaxFlows -> Nat]
  BY DEF SsoInv, Shapes, SsoShapes, OneEach
<1>2. landed' \in [1 .. MaxFlows -> Nat] /\ \A g \in 1 .. MaxFlows : landed'[g] = IF g = f THEN 1 ELSE landed[g]
  BY <1>1 DEF Lands
<1>3. \A g \in Handlers : req'[g].at = "callback" => g # h /\ req'[g] = req[g] /\ req[g].f.id # f
  BY DoneReq DEF Idle, SsoInv, OneEach
<1>4. \A g \in Handlers : req'[g].at = "callback" => req'[g].f.id \in 1 .. MaxFlows
  BY <1>3 DEF SsoInv, Shapes
<1>5. QED BY <1>1, <1>2, <1>3, <1>4 DEF SsoInv, OneEach

LEMMA ClearedFlow ==
  ASSUME SsoInv, NEW h \in Handlers, Cleared(h)
  PROVE  flow' = [b \in Browsers |-> flow'[b]] /\ \A b \in Browsers : flow'[b] # NoFlow => flow'[b].id \in 1 .. MaxFlows
<1>1. flow' = [flow EXCEPT ![req[h].b] = NoFlow]
  BY DEF Cleared
<1>2. flow' = [b \in Browsers |-> flow'[b]] /\ \A b \in Browsers : flow'[b] = flow[b] \/ flow'[b] = NoFlow
  BY <1>1 DEF SsoInv, SsoShapes
<1>3. QED BY <1>2 DEF SsoInv, SsoShapes

\* A sign-in through a way that is still open, or marked as overtaken.
LEMMA ExternallyKeeps ==
  ASSUME SsoInv, NEW h \in Handlers, NEW way \in Ways, Externally(h, way), Up,
         ~Late(h, way) => On(way), landed' \in [1 .. MaxFlows -> Nat], OneEach',
         flow' = [b \in Browsers |-> flow'[b]], \A b \in Browsers : flow'[b] # NoFlow => flow'[b].id \in 1 .. MaxFlows
  PROVE  SsoInv'
<1> DEFINE late == Late(h, way)
           new == Opened(way, linked[way], late)
<1>1. /\ new \in Row /\ new.state = "live" /\ new.via = way /\ new.link = linked[way]
      /\ new.late = late /\ ~new.window
  <2>1. late \in BOOLEAN
    BY DEF Late
  <2>2. way \in {"password", "provider", "header"} /\ linked[way] \in Nat
    BY DEF Ways, SsoInv, SsoShapes
  <2>3. QED BY <2>1, <2>2, OpenedRow
<1>2. PICK S : sessions' = [End(S) EXCEPT ![Fresh] = new]
  BY DEF Externally
<1>3. /\ sessions' \in [Ids -> Row]
      /\ \A s \in Ids : sessions'[s] = sessions[s] \/ sessions'[s] = Over \/ sessions'[s] = new
  <2>1. /\ End(S) \in [Ids -> Row]
        /\ \A s \in Ids : End(S)[s] = sessions[s] \/ End(S)[s] = Over
    BY EndRows DEF SsoInv, SsoShapes
  <2> HIDE DEF new
  <2>2. QED BY <1>1, <1>2, <2>1
<1>4. users' = 1 /\ users = 1 /\ linked[way] # 0 /\ Done(h)
      /\ UNCHANGED <<memory, users, tokens, provider, header, linked, links>>
  BY OneUser DEF Externally, ssoRows
<1> HIDE DEF new
<1>5. ASSUME NEW W, NEW s \in External(W)'
      PROVE  \/ sessions'[s] = sessions[s] /\ s \in External(W)
             \/ sessions'[s] = new /\ way \in W
  BY <1>1, <1>3, <1>5, OverRow DEF External
<1>6. Shapes' /\ OfSomeone'
  BY <1>4, DoneShapes, DoneOfSomeone DEF memory
<1>7. SsoShapes'
  BY <1>3, <1>4 DEF SsoInv, SsoShapes
<1>8. OneWins'
  BY <1>4 DEF OneWins, Claimed
<1>9. FreshIsOwn'
  BY <1>1, <1>3, OverRow DEF SsoInv, FreshIsOwn
<1>10. Named'
  BY <1>1, <1>4, <1>5 DEF SsoInv, Named
<1>11. WaysOut'
  <2>1. late \/ On(way)
    OBVIOUS
  <2> HIDE DEF late
  <2>2. QED BY <1>1, <1>4, <1>5, <2>1 DEF SsoInv, WaysOut, On
<1>12. \A g \in Handlers : req'[g] = req[g] \/ req'[g].at = "idle"
  BY <1>4, DoneReq DEF Idle
<1>13. StillOpen'
  BY <1>4, <1>12 DEF SsoInv, StillOpen
<1>14. FindsAll'
  <2>1. ASSUME NEW g \in Handlers, req'[g].at = "cutting", NEW w \in CutWays(req'[g].cut), NEW s \in External({w})'
        PROVE  s \in req'[g].ends \/ sessions'[s].late
    <3>1. req'[g] = req[g] /\ req[g].at = "cutting" /\ w \in CutWays(req[g].cut)
      BY <1>12, <2>1
    <3>2. CASE sessions'[s] = sessions[s] /\ s \in External({w})
      BY <3>1, <3>2 DEF SsoInv, FindsAll
    <3>3. CASE sessions'[s] = new /\ way = w
      BY <1>1, <3>1, <3>3 DEF Late
    <3>4. QED BY <1>5, <2>1, <3>2, <3>3
  <2>2. QED BY <2>1 DEF FindsAll
<1>15. QED BY <1>6, <1>7, <1>8, <1>9, <1>10, <1>11, <1>13, <1>14 DEF SsoInv

LEMMA SignInThroughKeeps ==
  ASSUME SsoInv, NEW h \in Handlers, SignInThrough(h)
  PROVE  SsoInv'
<1>1. req[h].at = "callback" /\ Up /\ Done(h) /\ Cleared(h) /\ Lands(req[h].f.id) /\ accepted' = accepted
      /\ Externally(h, "provider")
  BY DEF SignInThrough, Back, Busy, Externally
<1>2. ~Late(h, "provider") => On("provider")
  BY <1>1 DEF Late, On, SsoInv, StillOpen
<1>3. "provider" \in Ways
  BY DEF Ways
<1>4. QED BY <1>1, <1>2, <1>3, LandsOnce, ClearedFlow, ExternallyKeeps

LEMMA SignInByHeaderKeeps ==
  ASSUME SsoInv, NEW h \in Handlers, SignInByHeader(h)
  PROVE  SsoInv'
<1>1. CASE linked["header"] = 0
  BY <1>1, DoneKeeps DEF SignInByHeader, ssoRows, flowVars
<1>2. CASE linked["header"] # 0
  <2>1. req[h].at = "header" /\ Up /\ Externally(h, "header") /\ UNCHANGED flowVars
    BY <1>2 DEF SignInByHeader, Busy
  <2>2. ~Late(h, "header") => On("header")
    BY <2>1 DEF Late, On, SsoInv, StillOpen
  <2>3. OneEach'
    BY <2>1, DoneReq DEF SsoInv, OneEach, flowVars, Externally, Idle
  <2>4. /\ landed' \in [1 .. MaxFlows -> Nat] /\ flow' = [b \in Browsers |-> flow'[b]]
        /\ \A b \in Browsers : flow'[b] # NoFlow => flow'[b].id \in 1 .. MaxFlows
    BY <2>1 DEF SsoInv, SsoShapes, flowVars
  <2>5. "header" \in Ways
    BY DEF Ways
  <2>6. QED BY <2>1, <2>2, <2>3, <2>4, <2>5, ExternallyKeeps
<1>3. QED BY <1>1, <1>2

LEMMA LinkKeeps ==
  ASSUME SsoInv, NEW h \in Handlers, Link(h)
  PROVE  SsoInv'
<1>1. /\ req[h].at = "callback" /\ Done(h) /\ Cleared(h) /\ Lands(req[h].f.id)
      /\ UNCHANGED <<code, users, sessions, tokens, provider, header, accepted>>
  BY DEF Link, Back, Busy, memory, rows
<1>2. linked["provider"] = 0 /\ links' = links + 1 /\ linked' = [linked EXCEPT !["provider"] = links + 1]
  BY DEF Link
<1>3. WaysOut'
  <2>1. "provider" \in Ways
    BY DEF Ways
  <2>2. QED BY <1>1, <1>2, <2>1, LinkedFirst
<1>4. linked' \in [Ways -> Nat] /\ links' \in Nat
  <2>1. linked \in [Ways -> Nat] /\ links + 1 \in Nat
    BY DEF SsoInv, SsoShapes
  <2>2. QED BY <1>2, <2>1
<1>5. SsoShapes'
  <2>1. landed' \in [1 .. MaxFlows -> Nat]
    BY <1>1, LandsOnce
  <2>2. flow' = [b \in Browsers |-> flow'[b]] /\ \A b \in Browsers : flow'[b] # NoFlow => flow'[b].id \in 1 .. MaxFlows
    BY <1>1, ClearedFlow
  <2>3. QED BY <1>1, <1>4, <2>1, <2>2 DEF SsoInv, SsoShapes
<1>6. Shapes' /\ OfSomeone' /\ OneEach'
  BY <1>1, DoneShapes, DoneOfSomeone, LandsOnce
<1>7. OneWins' /\ FreshIsOwn' /\ Named'
  BY <1>1 DEF SsoInv, OneWins, FreshIsOwn, Named, External, Claimed
<1>8. \A g \in Handlers : req'[g] = req[g] \/ req'[g].at = "idle"
  BY <1>1, DoneReq DEF Idle
<1>9. StillOpen' /\ FindsAll'
  BY <1>1, <1>8 DEF SsoInv, StillOpen, FindsAll, External
<1>10. QED BY <1>3, <1>5, <1>6, <1>7, <1>9 DEF SsoInv

LEMMA ConfirmedRow ==
  ASSUME NEW r \in Row, NEW q, q = [r EXCEPT !.window = TRUE, !.proven = TRUE]
  PROVE  /\ q \in Row /\ q.proven /\ q.state = r.state /\ q.via = r.via
         /\ q.link = r.link /\ q.late = r.late
  BY DEF Row

LEMMA ConfirmThroughKeeps ==
  ASSUME SsoInv, NEW h \in Handlers, ConfirmThrough(h)
  PROVE  SsoInv'
<1> DEFINE c == req[h].f.s
<1>1. /\ req[h].at = "callback" /\ Done(h) /\ Cleared(h) /\ Lands(req[h].f.id)
      /\ UNCHANGED <<code, users, tokens, provider, header, linked, links, accepted>>
      /\ sessions' = [sessions EXCEPT ![c].window = TRUE, ![c].proven = TRUE]
  BY DEF ConfirmThrough, Back, Busy, memory, ssoRows
<1>2. ASSUME NEW s \in Ids
      PROVE  /\ sessions'[s] \in Row /\ (sessions'[s].window => sessions'[s].proven)
             /\ sessions'[s].state = sessions[s].state /\ sessions'[s].via = sessions[s].via
             /\ sessions'[s].link = sessions[s].link /\ sessions'[s].late = sessions[s].late
  <2>1. sessions[s] \in Row /\ sessions'[s] = IF s = c THEN [sessions[s] EXCEPT !.window = TRUE, !.proven = TRUE] ELSE sessions[s]
    BY <1>1 DEF SsoInv, SsoShapes
  <2>2. CASE s = c
    <3>1. sessions[s] \in Row /\ sessions'[s] = [sessions[s] EXCEPT !.window = TRUE, !.proven = TRUE]
      BY <2>1, <2>2
    <3>2. QED BY <3>1, ConfirmedRow
  <2>3. CASE s # c
    BY <2>1, <2>3 DEF SsoInv, FreshIsOwn
  <2>4. QED BY <2>2, <2>3
<1>3. sessions' \in [Ids -> Row]
  <2>1. sessions' = [s \in Ids |-> sessions'[s]]
    BY <1>1 DEF SsoInv, SsoShapes
  <2>2. QED BY <1>2, <2>1
<1>4. SsoShapes'
  <2>1. landed' \in [1 .. MaxFlows -> Nat]
    BY <1>1, LandsOnce
  <2>2. flow' = [b \in Browsers |-> flow'[b]] /\ \A b \in Browsers : flow'[b] # NoFlow => flow'[b].id \in 1 .. MaxFlows
    BY <1>1, ClearedFlow
  <2>3. QED BY <1>1, <1>3, <2>1, <2>2 DEF SsoInv, SsoShapes
<1>5. Shapes' /\ OfSomeone' /\ OneEach'
  BY <1>1, DoneShapes, DoneOfSomeone, LandsOnce
<1>6. OneWins' /\ FreshIsOwn'
  BY <1>1, <1>2 DEF SsoInv, OneWins, FreshIsOwn, Claimed
<1>7. External(Ways)' = External(Ways) /\ \A w : External({w})' = External({w})
  BY <1>2 DEF External
<1>8. \A s \in External(Ways) : s \in Ids
  BY DEF External
<1>9. Named' /\ WaysOut'
  <2>1. \A s \in Ids : /\ sessions'[s].via = sessions[s].via
                       /\ sessions'[s].link = sessions[s].link /\ sessions'[s].late = sessions[s].late
    BY <1>2
  <2>2. Named'
    BY <1>7, <1>8, <2>1 DEF SsoInv, Named
  <2>3. \A w : On(w)' <=> On(w)
    BY <1>1 DEF On
  <2>4. WaysOut'
    BY <1>1, <1>7, <1>8, <2>1, <2>3 DEF SsoInv, WaysOut
  <2>5. QED BY <2>2, <2>4
<1>10. \A g \in Handlers : req'[g] = req[g] \/ req'[g].at = "idle"
  BY <1>1, DoneReq DEF Idle
<1>11. StillOpen'
  BY <1>1, <1>10 DEF SsoInv, StillOpen
<1>12. FindsAll'
  <2>1. \A w : \A s \in External({w}) : sessions'[s].late = sessions[s].late
    BY <1>2 DEF External
  <2>2. ASSUME NEW g \in Handlers, req'[g].at = "cutting", NEW w \in CutWays(req'[g].cut), NEW s \in External({w})'
        PROVE  s \in req'[g].ends \/ sessions'[s].late
    <3>1. req'[g] = req[g] /\ s \in External({w}) /\ sessions'[s].late = sessions[s].late
      BY <1>7, <1>10, <2>1, <2>2
    <3>2. QED BY <2>2, <3>1 DEF SsoInv, FindsAll
  <2>3. QED BY <2>2 DEF FindsAll
<1>13. QED BY <1>4, <1>5, <1>6, <1>9, <1>11, <1>12 DEF SsoInv

-----------------------------------------------------------------------------
\* A way in being cut: what is in progress is marked, and what is there found.

LEMMA OvertakenReq ==
  ASSUME SsoInv, NEW cut, NEW h \in Handlers, NEW r, req' = [Overtaken(cut, req) EXCEPT ![h] = r]
  PROVE  /\ req' = [g \in Handlers |-> req'[g]] /\ req'[h] = r
         /\ \A g \in Handlers : g # h =>
              \/ req'[g] = req[g] /\ (req[g].at = "callback" => "provider" \notin CutWays(cut))
                                  /\ (req[g].at = "header" => "header" \notin CutWays(cut))
              \/ req[g].at \in {"callback", "header"} /\ req'[g] = [req[g] EXCEPT !.ok = FALSE]
  BY DEF Overtaken

\* What the mark leaves of a request.
LEMMA Marked ==
  ASSUME NEW r, NEW b, NEW f, NEW ok, r = [at |-> "callback", b |-> b, f |-> f, ok |-> ok],
         NEW q, q = [r EXCEPT !.ok = FALSE]
  PROVE  q = [at |-> "callback", b |-> q.b, f |-> q.f, ok |-> q.ok] /\ q.at = "callback" /\ q.f = f /\ q.ok = FALSE
  OBVIOUS

LEMMA MarkedHeader ==
  ASSUME NEW r, NEW b, NEW ok, r = [at |-> "header", b |-> b, ok |-> ok], NEW q, q = [r EXCEPT !.ok = FALSE]
  PROVE  q = [at |-> "header", b |-> q.b, ok |-> q.ok] /\ q.at = "header" /\ q.ok = FALSE
  OBVIOUS

\* The requests of single sign-on after a cut has begun or ended.
LEMMA OvertakenKeeps ==
  ASSUME SsoInv, NEW cut, NEW h \in Handlers, NEW r, req' = [Overtaken(cut, req) EXCEPT ![h] = r],
         r.at \in {"idle", "cutting"}, r.at = "cutting" => r.cut \in Cuts, Up, UNCHANGED <<users, code, accepted, landed>>,
         "provider" \in CutWays(cut) \/ provider' = provider, "header" \in CutWays(cut) \/ header' = header
  PROVE  Shapes' /\ OfSomeone' /\ StillOpen' /\ OneEach'
<1>1. ASSUME NEW g \in Handlers, g # h, req[g].at = "callback"
      PROVE  /\ req'[g] = [at |-> "callback", b |-> req'[g].b, f |-> req'[g].f, ok |-> req'[g].ok]
             /\ req'[g].at = "callback" /\ req'[g].f = req[g].f /\ req'[g].ok \in BOOLEAN
             /\ req'[g].ok => req'[g] = req[g] /\ "provider" \notin CutWays(cut)
  <2>1. req[g] = [at |-> "callback", b |-> req[g].b, f |-> req[g].f, ok |-> req[g].ok] /\ req[g].ok \in BOOLEAN
    BY <1>1 DEF SsoInv, Shapes
  <2>2. CASE req'[g] = req[g] /\ "provider" \notin CutWays(cut)
    BY <2>1, <2>2
  <2>3. CASE req'[g] = [req[g] EXCEPT !.ok = FALSE]
    <3>1. req'[g] = [at |-> "callback", b |-> req'[g].b, f |-> req'[g].f, ok |-> req'[g].ok]
          /\ req'[g].at = "callback" /\ req'[g].f = req[g].f /\ req'[g].ok = FALSE
      BY <2>1, <2>3, Marked
    <3>2. QED BY <3>1
  <2>4. QED BY <1>1, <2>2, <2>3, OvertakenReq
<1>2. ASSUME NEW g \in Handlers, g # h, req[g].at = "header"
      PROVE  /\ req'[g] = [at |-> "header", b |-> req'[g].b, ok |-> req'[g].ok]
             /\ req'[g].at = "header" /\ req'[g].ok \in BOOLEAN
             /\ req'[g].ok => req'[g] = req[g] /\ "header" \notin CutWays(cut)
  <2>1. req[g] = [at |-> "header", b |-> req[g].b, ok |-> req[g].ok] /\ req[g].ok \in BOOLEAN
    BY <1>2 DEF SsoInv, Shapes
  <2>2. CASE req'[g] = req[g] /\ "header" \notin CutWays(cut)
    BY <2>1, <2>2
  <2>3. CASE req'[g] = [req[g] EXCEPT !.ok = FALSE]
    <3>1. req'[g] = [at |-> "header", b |-> req'[g].b, ok |-> req'[g].ok]
          /\ req'[g].at = "header" /\ req'[g].ok = FALSE
      BY <2>1, <2>3, MarkedHeader
    <3>2. QED BY <3>1
  <2>4. QED BY <1>2, <2>2, <2>3, OvertakenReq
<1>3. \A g \in Handlers : g # h => req'[g].at = req[g].at
  <2>1. ASSUME NEW g \in Handlers, g # h PROVE req'[g].at = req[g].at
    <3>1. CASE req[g].at = "callback"
      <4>1. req'[g].at = "callback"
        BY <1>1, <2>1, <3>1
      <4>2. QED BY <3>1, <4>1
    <3>2. CASE req[g].at = "header"
      <4>1. req'[g].at = "header"
        BY <1>2, <2>1, <3>2
      <4>2. QED BY <3>2, <4>1
    <3>3. CASE req[g].at \notin {"callback", "header"}
      BY <2>1, <3>3, OvertakenReq
    <3>4. QED BY <3>1, <3>2, <3>3
  <2>2. QED BY <2>1
<1>4. \A g \in Handlers : g # h /\ req[g].at \notin {"callback", "header"} => req'[g] = req[g]
  BY OvertakenReq
<1>5. req' = [g \in Handlers |-> req'[g]] /\ req'[h] = r
  BY OvertakenReq
<1>6. Shapes'
  <2>1. ASSUME NEW g \in Handlers
        PROVE  /\ req'[g].at \in {"idle"} \union OfAccounts \union OfSsos
               /\ req'[g].at = "callback" =>
                    /\ req'[g] = [at |-> "callback", b |-> req'[g].b, f |-> req'[g].f, ok |-> req'[g].ok]
                    /\ req'[g].f.id \in 1 .. MaxFlows /\ req'[g].ok \in BOOLEAN
               /\ req'[g].at = "header" =>
                    req'[g] = [at |-> "header", b |-> req'[g].b, ok |-> req'[g].ok] /\ req'[g].ok \in BOOLEAN
               /\ req'[g].at = "cutting" => req'[g].cut \in Cuts
    <3>1. CASE g = h
      BY <1>5, <3>1 DEF OfSsos
    <3>2. CASE g # h /\ req[g].at = "callback"
      <4>1. req[g].f.id \in 1 .. MaxFlows /\ req'[g].at = "callback"
        BY <1>3, <3>2 DEF SsoInv, Shapes
      <4>2. QED BY <1>1, <3>2, <4>1 DEF OfSsos
    <3>3. CASE g # h /\ req[g].at = "header"
      <4>1. req'[g].at = "header"
        BY <1>3, <3>3
      <4>2. QED BY <1>2, <3>3, <4>1 DEF OfSsos
    <3>4. CASE g # h /\ req[g].at \notin {"callback", "header"}
      BY <1>4, <3>4 DEF SsoInv, Shapes
    <3>5. QED BY <3>1, <3>2, <3>3, <3>4
  <2>2. QED BY <1>5, <2>1 DEF Shapes
<1>7. OfSomeone'
  BY <1>3, <1>5 DEF SsoInv, OfSomeone, Claimed, Up, OfAccounts
<1>8. StillOpen'
  <2>1. ASSUME NEW g \in Handlers, req'[g].at = "callback", req'[g].ok PROVE provider' = "on"
    <3>1. g # h /\ req[g].at = "callback"
      BY <1>3, <1>5, <2>1
    <3>2. req'[g] = req[g] /\ "provider" \notin CutWays(cut)
      BY <1>1, <2>1, <3>1
    <3>3. QED BY <2>1, <3>1, <3>2 DEF SsoInv, StillOpen
  <2>2. ASSUME NEW g \in Handlers, req'[g].at = "header", req'[g].ok PROVE header'
    <3>1. g # h /\ req[g].at = "header"
      BY <1>3, <1>5, <2>2
    <3>2. req'[g] = req[g] /\ "header" \notin CutWays(cut)
      BY <1>2, <2>2, <3>1
    <3>3. QED BY <2>2, <3>1, <3>2 DEF SsoInv, StillOpen
  <2>3. QED BY <2>1, <2>2 DEF StillOpen
<1>9. OneEach'
  <2>1. \A g \in Handlers : req'[g].at = "callback" => req[g].at = "callback" /\ req'[g].f = req[g].f
    <3>1. ASSUME NEW g \in Handlers, req'[g].at = "callback" PROVE req[g].at = "callback" /\ req'[g].f = req[g].f
      <4>1. g # h /\ req[g].at = "callback"
        BY <1>3, <1>5, <3>1
      <4>2. QED BY <1>1, <4>1
    <3>2. QED BY <3>1
  <2>2. QED BY <2>1 DEF SsoInv, OneEach
<1>10. QED BY <1>6, <1>7, <1>8, <1>9

\* The update has seen every session of the ways that it cuts.
LEMMA EndsThem ==
  ASSUME SsoInv, NEW cut \in Cuts, NEW w \in CutWays(cut), NEW s \in External({w})
  PROVE  s \in Ended(cut) \/ sessions[s].late
<1>1. w \in Ways /\ {w} \subseteq Ways
  BY DEF Cuts, CutWays, Ways
<1>2. s \in External(Ways) /\ s \in Ids /\ sessions[s].via = w /\ sessions[s].state = "live"
  BY <1>1 DEF External
<1>3. sessions[s].late \/ (sessions[s].link = linked[w] /\ linked[w] # 0)
  BY <1>2 DEF SsoInv, Named, WaysOut
<1>4. CASE cut = "allOff"
  BY <1>2, <1>4 DEF Ended
<1>5. CASE cut = "headerOff"
  BY <1>2, <1>5 DEF Ended, External, CutWays
<1>6. CASE cut \notin {"allOff", "headerOff"}
  <2>1. sessions[s].late \/ s \in Through(w)
    BY <1>2, <1>3 DEF Through
  <2>2. Ended(cut) = UNION {Through(v) : v \in CutWays(cut)}
    BY <1>6 DEF Ended
  <2>3. QED BY <2>1, <2>2
<1>7. QED BY <1>4, <1>5, <1>6

LEMMA CutKeeps ==
  ASSUME SsoInv, NEW h \in Handlers, NEW cut \in Cuts, Cut(h, cut)
  PROVE  SsoInv'
<1> DEFINE r == [at |-> "cutting", cut |-> cut, ends |-> Ended(cut), was |-> linked]
<1>1. /\ Up /\ req' = [Overtaken(cut, req) EXCEPT ![h] = r]
      /\ UNCHANGED <<code, users, sessions, tokens, provider, header, linked, links, flow, accepted, landed>>
  BY DEF Cut, memory, rows, ssoRows, flowVars
<1>2. r.at = "cutting" /\ r.cut = cut /\ r.ends = Ended(cut)
  OBVIOUS
<1> HIDE DEF r
<1>3. Shapes' /\ OfSomeone' /\ StillOpen' /\ OneEach'
  BY <1>1, <1>2, OvertakenKeeps
<1>4. SsoShapes' /\ OneWins' /\ FreshIsOwn' /\ Named' /\ WaysOut'
  BY <1>1 DEF SsoInv, SsoShapes, OneWins, FreshIsOwn, Named, WaysOut, External, Claimed, On
<1>5. FindsAll'
  <2>1. ASSUME NEW g \in Handlers, req'[g].at = "cutting", NEW w \in CutWays(req'[g].cut), NEW s \in External({w})'
        PROVE  s \in req'[g].ends \/ sessions'[s].late
    <3>1. s \in External({w}) /\ sessions'[s] = sessions[s]
      BY <1>1, <2>1 DEF External
    <3>2. CASE g = h
      <4>1. req'[g] = r
        BY <1>1, <3>2, OvertakenReq
      <4>2. QED BY <1>2, <2>1, <3>1, <4>1, EndsThem
    <3>3. CASE g # h
      <4>1. req'[g] = req[g] \/ (req[g].at \in {"callback", "header"} /\ req'[g] = [req[g] EXCEPT !.ok = FALSE])
        BY <1>1, <3>3, OvertakenReq
      <4>2. req[g].at \in {"callback", "header"} => [req[g] EXCEPT !.ok = FALSE].at # "cutting"
        BY DEF SsoInv, Shapes
      <4>3. req'[g] = req[g]
        BY <2>1, <4>1, <4>2
      <4>4. QED BY <2>1, <3>1, <4>3 DEF SsoInv, FindsAll
    <3>4. QED BY <3>2, <3>3
  <2>2. QED BY <2>1 DEF FindsAll
<1>6. QED BY <1>3, <1>4, <1>5 DEF SsoInv

LEMMA CutsWays ==
  ASSUME SsoInv, NEW h \in Handlers, CutCommits(h), ~Overtook(req[h])
  PROVE  /\ req[h].at = "cutting" /\ req[h].cut \in Cuts /\ Up
         /\ req' = [Overtaken(req[h].cut, req) EXCEPT ![h] = Idle]
         /\ sessions' = End(req[h].ends)
         /\ UNCHANGED <<code, users, tokens, links, flow, accepted, landed>>
         /\ "provider" \in CutWays(req[h].cut) \/ provider' = provider
         /\ "header" \in CutWays(req[h].cut) \/ header' = header
         /\ provider' \in {"none", "off", "on"} /\ header' \in BOOLEAN /\ linked' \in [Ways -> Nat]
         /\ \A w \in Ways : w \in CutWays(req[h].cut) \/ linked'[w] = linked[w]
<1> DEFINE cut == req[h].cut
<1>1. /\ req[h].at = "cutting" /\ Up /\ sessions' = End(req[h].ends)
      /\ provider' = IF cut = "providerGone" THEN "none"
                     ELSE IF cut \in {"providerOff", "allOff"} /\ provider = "on" THEN "off"
                     ELSE provider
      /\ header' = (header /\ cut \notin {"headerOff", "allOff"})
      /\ linked' = [w \in Ways |-> IF /\ cut \in {"unlink", "unlinkHeader", "providerGone"}
                                       /\ w \in CutWays(cut) THEN 0 ELSE linked[w]]
      /\ req' = [Overtaken(cut, req) EXCEPT ![h] = Idle]
      /\ UNCHANGED <<code, users, tokens, links, flow, accepted, landed>>
  BY DEF CutCommits, Busy, memory, flowVars
<1>2. cut \in Cuts
  BY <1>1 DEF SsoInv, Shapes
<1>3. cut \in {"providerGone", "providerOff", "allOff"} => "provider" \in CutWays(cut)
  BY DEF CutWays, Ways
<1>4. cut \in {"headerOff", "allOff"} => "header" \in CutWays(cut)
  BY DEF CutWays, Ways
<1>5. header \in BOOLEAN /\ provider \in {"none", "off", "on"} /\ linked \in [Ways -> Nat]
  BY DEF SsoInv, SsoShapes
<1> HIDE DEF cut
<1>6. ("provider" \in CutWays(cut) \/ provider' = provider) /\ provider' \in {"none", "off", "on"}
  BY <1>1, <1>3, <1>5
<1>7. ("header" \in CutWays(cut) \/ header' = header) /\ header' \in BOOLEAN
  BY <1>1, <1>4, <1>5
<1>8. linked' \in [Ways -> Nat] /\ \A w \in Ways : w \in CutWays(cut) \/ linked'[w] = linked[w]
  BY <1>1, <1>5
<1>9. QED BY <1>1, <1>2, <1>6, <1>7, <1>8 DEF cut

LEMMA CutCommitsKeeps ==
  ASSUME SsoInv, NEW h \in Handlers, CutCommits(h)
  PROVE  SsoInv'
<1>1. CASE Overtook(req[h])
  <2>1. Done(h) /\ UNCHANGED <<memory, rows, provider, header, linked, links, accepted, landed, flow>>
    BY <1>1 DEF CutCommits, rows, flowVars
  <2>2. QED BY <2>1, DoneKeeps
<1>2. CASE ~Overtook(req[h])
  <2> DEFINE cut == req[h].cut
  <2>1. /\ req[h].at = "cutting" /\ cut \in Cuts /\ Up
        /\ req' = [Overtaken(cut, req) EXCEPT ![h] = Idle]
        /\ sessions' = End(req[h].ends)
        /\ UNCHANGED <<code, users, tokens, links, flow, accepted, landed>>
        /\ "provider" \in CutWays(cut) \/ provider' = provider
        /\ "header" \in CutWays(cut) \/ header' = header
        /\ provider' \in {"none", "off", "on"} /\ header' \in BOOLEAN /\ linked' \in [Ways -> Nat]
        /\ \A w \in Ways : w \in CutWays(cut) \/ linked'[w] = linked[w]
    BY <1>2, CutsWays
  <2> HIDE DEF cut
  <2>2. Shapes' /\ OfSomeone' /\ StillOpen' /\ OneEach'
    BY <2>1, OvertakenKeeps DEF Idle
  <2>3. Ends
    BY <2>1, EndRows DEF Ends, SsoInv, SsoShapes
  <2>4. OneWins' /\ (\A s \in Ids : Stays(s)) /\ sessions' \in [Ids -> Row]
    BY <2>1, <2>3, EndsStay DEF Ends
  <2>5. SsoShapes' /\ FreshIsOwn'
    BY <2>1, <2>4 DEF SsoInv, SsoShapes, Stays, FreshIsOwn
  <2>6. ASSUME NEW W, NEW s \in External(W)'
        PROVE  s \in External(W) /\ sessions'[s] = sessions[s] /\ s \notin req[h].ends
    <3>1. s \in Ids /\ sessions'[s].state = "live"
      BY <2>6 DEF External
    <3>2. sessions'[s] = sessions[s] /\ s \notin req[h].ends
      BY <2>1, <3>1, OverRow DEF End
    <3>3. QED BY <2>6, <3>2 DEF External
  <2>7. Named'
    BY <2>6 DEF SsoInv, Named
  <2>8. WaysOut'
    <3>1. ASSUME NEW s \in External(Ways)', ~sessions'[s].late
          PROVE  On(sessions[s].via)' /\ sessions'[s].link = linked'[sessions'[s].via]
      <4>1. s \in External(Ways) /\ sessions'[s] = sessions[s] /\ s \notin req[h].ends /\ ~sessions[s].late
        BY <2>6, <3>1
      <4> PICK w \in Ways : w = sessions[s].via
        BY <4>1 DEF External
      <4>2. On(w) /\ sessions[s].link = linked[w] /\ s \in External({w})
        BY <4>1 DEF SsoInv, WaysOut, External
      <4>3. w \notin CutWays(cut)
        BY <2>1, <4>1, <4>2 DEF SsoInv, FindsAll, cut
      <4>4. linked'[w] = linked[w] /\ On(w)'
        BY <2>1, <4>2, <4>3 DEF On, Ways
      <4>5. sessions'[s].via = w /\ sessions'[s].link = linked'[w]
        BY <4>1, <4>2, <4>4
      <4>6. QED BY <4>4, <4>5 DEF On
    <3>2. QED BY <3>1 DEF WaysOut
  <2>9. FindsAll'
    <3>1. ASSUME NEW g \in Handlers, req'[g].at = "cutting", NEW w \in CutWays(req'[g].cut), NEW s \in External({w})'
          PROVE  s \in req'[g].ends \/ sessions'[s].late
      <4>1. g # h
        BY <2>1, <3>1, OvertakenReq DEF Idle
      <4>2. req'[g] = req[g] \/ (req[g].at \in {"callback", "header"} /\ req'[g] = [req[g] EXCEPT !.ok = FALSE])
        BY <2>1, <4>1, OvertakenReq
      <4>3. req[g].at \in {"callback", "header"} => [req[g] EXCEPT !.ok = FALSE].at # "cutting"
        BY DEF SsoInv, Shapes
      <4>4. req'[g] = req[g] /\ s \in External({w}) /\ sessions'[s] = sessions[s]
        BY <2>6, <3>1, <4>2, <4>3
      <4>5. QED BY <3>1, <4>4 DEF SsoInv, FindsAll
    <3>2. QED BY <3>1 DEF FindsAll
  <2>10. QED BY <2>2, <2>4, <2>5, <2>7, <2>8, <2>9 DEF SsoInv
<1>3. QED BY <1>1, <1>2

-----------------------------------------------------------------------------
\* The invariant.

LEMMA InitSso == SsoInit => SsoInv
<1> SUFFICES ASSUME SsoInit PROVE SsoInv
  OBVIOUS
<1>1. /\ sessions = [s \in Ids |-> NoRow] /\ req = [h \in Handlers |-> Idle]
      /\ users = 0 /\ tokens = 0 /\ code = "down" /\ provider = "none" /\ header = TRUE
      /\ linked = [w \in Ways |-> 0] /\ links = 0
      /\ flow = [b \in Browsers |-> NoFlow] /\ accepted = {} /\ landed = [f \in 1 .. MaxFlows |-> 0]
  BY DEF SsoInit, AccountInit, NoneLanded
<1>2. \A h \in Handlers : req[h].at = "idle"
  BY <1>1 DEF Idle
<1>3. \A s \in Ids : sessions[s].state = "none" /\ ~sessions[s].window
  BY <1>1 DEF NoRow
<1>4. Shapes
  BY <1>1, <1>2 DEF Shapes
<1>5. SsoShapes
  BY <1>1, OverRow DEF SsoShapes
<1>6. OfSomeone /\ OneWins
  BY <1>1, <1>2, <1>3 DEF OfSomeone, OneWins, OfAccounts
<1>7. FreshIsOwn /\ Named /\ WaysOut
  BY <1>3 DEF FreshIsOwn, Named, WaysOut, External
<1>8. StillOpen /\ FindsAll /\ OneEach
  BY <1>1, <1>2 DEF StillOpen, FindsAll, OneEach
<1>9. QED BY <1>4, <1>5, <1>6, <1>7, <1>8 DEF SsoInv

LEMMA StutterKeeps ==
  ASSUME SsoInv, UNCHANGED ssoVars
  PROVE  SsoInv'
<1>1. UNCHANGED <<accountVars, provider, header, linked, links, flow, accepted, landed>>
  BY DEF ssoVars, ssoRows, flowVars
<1>2. UNCHANGED <<sessions, users, req>>
      /\ Shapes' /\ OfSomeone' /\ OneWins' /\ FreshIsOwn' /\ Named'
  BY <1>1, AccountStays
<1>3. SsoShapes'
  BY <1>1, <1>2 DEF SsoInv, SsoShapes
<1>4. WaysOut'
  BY <1>1, <1>2 DEF SsoInv, WaysOut, External, On
<1>5. StillOpen'
  BY <1>1, <1>2 DEF SsoInv, StillOpen
<1>6. FindsAll'
  BY <1>1, <1>2 DEF SsoInv, FindsAll, External
<1>7. OneEach'
  BY <1>1, <1>2 DEF SsoInv, OneEach
<1>8. QED BY <1>2, <1>3, <1>4, <1>5, <1>6, <1>7 DEF SsoInv

LEMMA SsoStep == SsoInv /\ [SsoNext]_ssoVars => SsoInv'
<1> SUFFICES ASSUME SsoInv, [SsoNext]_ssoVars PROVE SsoInv'
  OBVIOUS
<1>1. CASE UNCHANGED ssoVars
  BY <1>1, StutterKeeps
<1>2. CASE OfAccount /\ UNCHANGED <<ssoRows, flowVars>>
  BY <1>2, AccountAside, AsideKeeps
<1>3. CASE Stop /\ accepted' = {} /\ landed' = NoneLanded /\ UNCHANGED <<ssoRows, flow>>
  BY <1>3, StopKeeps
<1>4. ASSUME NEW b \in Browsers,
             \/ FlowExpires(b) \/ \E i \in Intents : FlowStarts(b, i)
             \/ LinkHeader(b) \/ ProviderOn(b) \/ HeaderOn(b)
      PROVE  SsoInv'
  BY <1>4, FlowExpiresKeeps, FlowStartsKeeps, LinkHeaderKeeps, SwitchOnKeeps
<1>5. ASSUME NEW h \in Handlers,
             \/ \E b \in Browsers : Callback(h, b) \/ HeaderCheck(h, b)
             \/ FlowFails(h) \/ SignInThrough(h) \/ Link(h) \/ ConfirmThrough(h) \/ SignInByHeader(h)
             \/ \E c \in Cuts : Cut(h, c)
             \/ CutCommits(h)
      PROVE  SsoInv'
  BY <1>5, CallbackKeeps, HeaderCheckKeeps, FlowFailsKeeps, SignInThroughKeeps, LinkKeeps,
     ConfirmThroughKeeps, SignInByHeaderKeeps, CutKeeps, CutCommitsKeeps
<1>6. QED BY <1>1, <1>2, <1>3, <1>4, <1>5 DEF SsoNext

THEOREM SsoInvHolds == SsoSpec => []SsoInv
  BY InitSso, SsoStep, PTL DEF SsoSpec

(* A session that came through a way in that was cut has ended, unless its *)
(* sign-in was in progress then (oidc.unlink, config.save).                *)
THEOREM WaysAreOut == SsoSpec => []WaysOut
<1>1. SsoInv => WaysOut
  BY DEF SsoInv
<1>2. QED BY <1>1, SsoInvHolds, PTL

(* An open window of a session was that session's own password, or its own *)
(* provider's word.                                                        *)
THEOREM FreshHolds == SsoSpec => []FreshIsOwn
<1>1. SsoInv => FreshIsOwn
  BY DEF SsoInv
<1>2. QED BY <1>1, SsoInvHolds, PTL

(* Of the claims at once one wins, and a session or a token is of someone. *)
THEOREM OneWinsHolds == SsoSpec => []OneWins
<1>1. SsoInv => OneWins
  BY DEF SsoInv
<1>2. QED BY <1>1, SsoInvHolds, PTL

(* A flow has its effect once in the life of a process, however often its  *)
(* redirect comes.                                                         *)
THEOREM FlowIsOnce == SsoSpec => []FlowOnce
<1>1. SsoInv => FlowOnce
  <2>1. ASSUME SsoInv, NEW f \in 1 .. MaxFlows PROVE landed[f] <= 1
    <3>1. landed[f] = 0 \/ landed[f] = 1
      BY <2>1 DEF SsoInv, OneEach
    <3>2. QED BY <3>1
  <2>2. QED BY <2>1 DEF FlowOnce
<1>2. QED BY <1>1, SsoInvHolds, PTL

-----------------------------------------------------------------------------
\* The setup code, and the marker of a claim.

\* Only a start, a stop and the end of a claim touch either.
LEMMA SpentStep == CodeSpent /\ [SsoNext]_ssoVars => CodeSpent'
<1> SUFFICES ASSUME CodeSpent, [SsoNext]_ssoVars PROVE CodeSpent'
  OBVIOUS
<1>1. CASE UNCHANGED <<code, marker>>
  BY <1>1 DEF CodeSpent
<1>2. CASE Start
  <2>1. CASE Claimed
    BY <1>2, <2>1 DEF Start, CodeAtStart, CodeSpent
  <2>2. CASE ~Claimed
    BY <1>2, <2>2 DEF Start, CodeAtStart, CodeSpent
  <2>3. QED BY <2>1, <2>2
<1>3. CASE Stop
  BY <1>3 DEF Stop, CodeSpent
<1>4. CASE \E h \in Handlers : CodeEnds(h)
  BY <1>4 DEF CodeEnds, CodeSpent
<1>5. CASE UNCHANGED ssoVars
  BY <1>1, <1>5 DEF ssoVars, accountVars, memory
<1>6. CASE OfAccount /\ UNCHANGED <<ssoRows, flowVars>>
  <2>1. \/ Start \/ (\E h \in Handlers : CodeEnds(h)) \/ UNCHANGED memory
    BY <1>6, Zenon DEF OfAccount, LoseDatabase, ResetPassword, RevokeTokens, TokenEnds, SessionLapses, WindowCloses,
       SignOut, SignOutEverywhere, EndOther, SetupCheck, SignInCheck, Gate, Claim, SignInCommit, Rotate, Pruned,
       Confirm, Confirms, ChangePassword, TokenLook, TokenAdd
  <2>2. QED BY <1>1, <1>2, <1>4, <2>1 DEF memory
<1>7. CASE \E b \in Browsers : \/ FlowExpires(b) \/ \E i \in Intents : FlowStarts(b, i)
                               \/ LinkHeader(b) \/ ProviderOn(b) \/ HeaderOn(b)
  BY <1>1, <1>7 DEF FlowExpires, FlowStarts, LinkHeader, ProviderOn, HeaderOn, accountVars, memory
<1>8. CASE \E h \in Handlers :
             \/ \E b \in Browsers : Callback(h, b) \/ HeaderCheck(h, b)
             \/ FlowFails(h) \/ SignInThrough(h) \/ Link(h) \/ ConfirmThrough(h) \/ SignInByHeader(h)
             \/ \E c \in Cuts : Cut(h, c)
             \/ CutCommits(h)
  <2>1. UNCHANGED memory
    BY <1>8, Zenon DEF Callback, HeaderCheck, FlowFails, SignInThrough, Externally, Link, ConfirmThrough, SignInByHeader, Cut, CutCommits
  <2>2. QED BY <1>1, <2>1 DEF memory
<1>9. QED BY <1>3, <1>5, <1>6, <1>7, <1>8 DEF SsoNext

(* A setup code that was supplied is worth nothing once the marker of the   *)
(* first claim is on the volume, whatever is lost of the database.          *)
THEOREM SpentHolds == SsoSpec => []CodeSpent
<1>1. SsoInit => CodeSpent
  BY DEF SsoInit, AccountInit, CodeSpent
<1>2. QED BY <1>1, SpentStep, PTL DEF SsoSpec
=============================================================================
