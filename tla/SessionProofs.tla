----------------------------- MODULE SessionProofs -----------------------------
(* RefreshSessions for any number of sessions, callers and seconds, when no    *)
(* client refreshes within the very second of its token: each token is         *)
(* redeemed once, and the collection implements TokenChain.                    *)
EXTENDS RefreshSessions, TLAPS

\* The tokens of a session carry its id and no second of the future.
TokensAreDated ==
  \A s \in Session : \A t \in used[s] : t.session = s /\ t.iat <= clock

\* A row holds the newest token its session has had.
RowIsNewest ==
  \A s \in Session : row[s] # NoRow =>
    /\ row[s].token \in used[s]
    /\ \A t \in used[s] : t.iat <= row[s].token.iat

KnownWereUsed == \A t \in known : t \in used[t.session]

\* What a handler that has got as far as q.pc holds.
Sound(q) ==
  /\ q.pc = "idle" => q = NoCall
  /\ q.pc # "idle" => q.for \in Session
  /\ q.login => q.held = NoRow
  /\ q.pc = "upsert" => q.login
  /\ q.pc = "swap" => ~q.login
  /\ q.pc # "idle" /\ ~q.login => q.held \in used[q.for] /\ q.held.iat < clock
  /\ q.pc \in {"send", "upsert", "swap", "answer"} =>
       /\ q.token \in Token
       /\ q.token.session = q.for
       /\ q.token.iat <= clock
       /\ ~q.login => q.held.iat < q.token.iat
  /\ q.pc = "answer" => q.token \in used[q.for]
  /\ q.pc = "answer" /\ ~q.login /\ row[q.for] # NoRow =>
       q.held.iat < row[q.for].token.iat

CallsAreSound == \A c \in Caller : Sound(call[c])

\* A login that has not stored its token yet.
Opening(q) == q.login /\ q.pc \in {"sign", "send", "upsert"}

\* Its session has had no token, and nobody else has that session.
Apart(c, q) ==
  /\ Opening(q) => used[q.for] = {}
  /\ \A d \in Caller \ {c} : Opening(q) \/ Opening(call[d]) => call[d].for # q.for

OpeningsApart == \A c \in Caller : Apart(c, call[c])

SessionInv ==
  /\ SessionTypeOK
  /\ TokensAreDated
  /\ RowIsNewest
  /\ KnownWereUsed
  /\ CallsAreSound
  /\ OpeningsApart


-----------------------------------------------------------------------------
(* The initial state and the steps of one handler *)

\* The invariant holds before the first request.
LEMMA SessionStart == SessionInit => SessionInv
<1> SUFFICES ASSUME SessionInit PROVE SessionInv
  OBVIOUS
<1>1. NoCall \in CallState
  BY DEF NoCall, CallState
<1>2. SessionTypeOK
  BY <1>1, MaxClockIsNat DEF SessionInit, SessionTypeOK
<1>3. \A c \in Caller : call[c] = NoCall /\ call[c].pc = "idle" /\ call[c].held = NoRow
  BY DEF SessionInit, NoCall
<1>4. TokensAreDated /\ RowIsNewest /\ KnownWereUsed
  BY DEF SessionInit, TokensAreDated, RowIsNewest, KnownWereUsed
<1>5. CallsAreSound
  BY <1>3 DEF CallsAreSound, Sound
<1>6. OpeningsApart
  BY <1>3 DEF OpeningsApart, Opening, Apart, NoCall
<1> QED BY <1>2, <1>4, <1>5, <1>6 DEF SessionInv

\* A step of one handler that leaves the collection and the clock alone keeps
\* the invariant if it leaves a sound record apart from the others.
LEMMA HandlerStep ==
  ASSUME SessionInv, NEW c \in Caller, NEW q \in CallState, Continue(c, q),
         UNCHANGED <<clock, row, used>>,
         known' = known \/ (call[c].pc = "answer" /\ known' = known \cup {call[c].token}),
         Sound(q), Apart(c, q)
  PROVE  SessionInv'
<1>1. /\ call[c].pc = "answer" => /\ call[c].token \in Token
                                  /\ call[c].token.session = call[c].for
                                  /\ call[c].token \in used[call[c].for]
  BY DEF SessionInv, CallsAreSound, Sound
<1>2. call' = [call EXCEPT ![c] = q] /\ call \in [Caller -> CallState]
  BY DEF Continue, SessionInv, SessionTypeOK
<1>3. call'[c] = q /\ \A d \in Caller \ {c} : call'[d] = call[d]
  BY <1>2
<1>4. SessionTypeOK'
  BY <1>1, <1>2 DEF SessionInv, SessionTypeOK
<1>5. TokensAreDated' /\ RowIsNewest'
  BY DEF SessionInv, TokensAreDated, RowIsNewest
<1>6. KnownWereUsed'
  BY <1>1 DEF SessionInv, KnownWereUsed
<1>7. \A d \in Caller : Sound(call'[d])
  BY <1>3 DEF SessionInv, CallsAreSound
<1>8. CallsAreSound'
  BY <1>7 DEF CallsAreSound, Sound
<1>9. ASSUME NEW d \in Caller
      PROVE  /\ Opening(call'[d]) => used[call'[d].for] = {}
             /\ \A e \in Caller \ {d} :
                  Opening(call'[d]) \/ Opening(call'[e]) => call'[e].for # call'[d].for
  <2>1. Apart(d, call[d])
    BY DEF SessionInv, OpeningsApart
  <2>2. CASE d = c
    BY <1>3, <2>2 DEF Apart
  <2>3. CASE d # c
    BY <1>3, <2>1, <2>3 DEF Apart
  <2> QED BY <2>2, <2>3
<1>10. OpeningsApart'
  BY <1>9 DEF OpeningsApart, Opening, Apart
<1> QED BY <1>4, <1>5, <1>6, <1>8, <1>10 DEF SessionInv

\* A record with the session of the present one claims nothing new, and the
\* idle record claims nothing.
LEMMA SameClaim ==
  ASSUME SessionInv, NEW c \in Caller, NEW q,
         \/ q.for = call[c].for /\ (Opening(q) => Opening(call[c]))
         \/ q.for = NoRow /\ ~Opening(q)
  PROVE  Apart(c, q)
<1>1. Apart(c, call[c])
  BY DEF SessionInv, OpeningsApart
<1>2. \A d \in Caller : Opening(call[d]) => call[d].for \in Session
  BY DEF SessionInv, CallsAreSound, Sound, Opening
<1> QED BY <1>1, <1>2, NoRowIsNoRow DEF Apart

\* Where a handler's record comes from.
LEMMA HandlerRecords ==
  ASSUME SessionInv, NEW c \in Caller
  PROVE  /\ call[c] \in CallState
         /\ NoCall \in CallState
         /\ Sound(NoCall)
         /\ Sound(call[c])
<1>1. NoCall \in CallState /\ NoCall.pc = "idle" /\ NoCall.held = NoRow
  BY DEF NoCall, CallState
<1> QED BY <1>1 DEF SessionInv, SessionTypeOK, CallsAreSound, Sound

\* Every way a handler ends.
LEMMA ReturnStep ==
  ASSUME SessionInv, NEW c \in Caller, Return(c), UNCHANGED <<clock, row, used>>,
         known' = known \/ (call[c].pc = "answer" /\ known' = known \cup {call[c].token})
  PROVE  SessionInv'
<1>1. NoCall.for = NoRow /\ ~Opening(NoCall)
  BY DEF NoCall, Opening
<1>2. Apart(c, NoCall)
  BY <1>1, SameClaim
<1> QED BY <1>2, HandlerRecords, HandlerStep DEF Return

\* Signing dates the token now, later than the one presented.
LEMMA SignStep ==
  ASSUME SessionInv, NEW c \in Caller, Sign(c)
  PROVE  SessionInv'
<1> DEFINE p == call[c]
           q == [p EXCEPT !.pc = "send", !.token = [session |-> p.for, iat |-> clock]]
<1>1. p.pc = "sign" /\ Continue(c, q) /\ UNCHANGED <<clock, row, known, used>>
  BY DEF Sign, Does
<1>2. p \in CallState /\ Sound(p)
  BY HandlerRecords
<1>3. p.for \in Session /\ clock \in 0..MaxClock
  BY <1>1, <1>2 DEF Sound, SessionInv, SessionTypeOK
<1>4. [session |-> p.for, iat |-> clock] \in Token
  BY <1>3 DEF Token
<1>5. /\ q \in CallState
      /\ q.pc = "send" /\ q.token = [session |-> p.for, iat |-> clock]
      /\ q.for = p.for /\ q.login = p.login /\ q.held = p.held
  BY <1>2, <1>4 DEF CallState
<1> HIDE DEF q
<1>6. Sound(q)
  BY <1>1, <1>2, <1>3, <1>4, <1>5 DEF Sound
<1>7. Apart(c, q)
  BY <1>1, <1>5, SameClaim DEF Opening
<1> QED BY <1>1, <1>5, <1>6, <1>7, HandlerStep

\* Preparing the update changes two dates of one handler.
LEMMA SendStep ==
  ASSUME SessionInv, NEW c \in Caller, Send(c)
  PROVE  SessionInv'
<1> DEFINE p == call[c]
           q == [p EXCEPT !.pc = IF p.login THEN "upsert" ELSE "swap",
                          !.until = clock + Life, !.asOf = clock]
<1>1. p.pc = "send" /\ Continue(c, q) /\ UNCHANGED <<clock, row, known, used>>
  BY DEF Send, Does
<1>2. p \in CallState /\ Sound(p)
  BY HandlerRecords
<1>3. clock \in Nat /\ clock + Life \in Nat
  BY LifeIsNat, MaxClockIsNat DEF SessionInv, SessionTypeOK
<1>4. /\ q \in CallState
      /\ q.pc = IF p.login THEN "upsert" ELSE "swap"
      /\ q.token = p.token
      /\ q.for = p.for /\ q.login = p.login /\ q.held = p.held
  BY <1>2, <1>3 DEF CallState
<1> HIDE DEF q
<1>5. Sound(q)
  BY <1>1, <1>2, <1>4 DEF Sound
<1>6. Apart(c, q)
  BY <1>1, <1>4, SameClaim DEF Opening
<1> QED BY <1>1, <1>4, <1>5, <1>6, HandlerStep

\* A login opens a session that no other handler has.
LEMMA LoginStep ==
  ASSUME SessionInv, NEW c \in Caller, NEW s \in Session, Login(c, s)
  PROVE  SessionInv'
<1> DEFINE q == [NoCall EXCEPT !.pc = "sign", !.login = TRUE, !.for = s]
<1>1. s \notin Begun /\ Continue(c, q) /\ UNCHANGED <<clock, row, known, used>>
  BY DEF Login
<1>2. /\ q \in CallState
      /\ q.pc = "sign" /\ q.login /\ q.for = s /\ q.held = NoRow
  BY DEF CallState, NoCall
<1> HIDE DEF q
<1>3. Sound(q)
  BY <1>2 DEF Sound
<1>4. used[s] = {} /\ \A d \in Caller : call[d].for # s
  BY <1>1 DEF Begun
<1>5. Apart(c, q)
  BY <1>2, <1>4 DEF Apart
<1> QED BY <1>1, <1>2, <1>3, <1>5, HandlerStep

\* Here a token is never presented in its own second.
LEMMA RefreshStep ==
  ASSUME SessionInv, ~EarlyRefresh, NEW c \in Caller, NEW t \in known, Refresh(c, t)
  PROVE  SessionInv'
<1> DEFINE q == [NoCall EXCEPT !.pc = "sign", !.held = t, !.for = t.session]
<1>1. clock > t.iat /\ Continue(c, q) /\ UNCHANGED <<clock, row, known, used>>
  BY DEF Refresh
<1>2. t \in Token /\ t.session \in Session /\ t \in used[t.session]
  BY DEF SessionInv, SessionTypeOK, KnownWereUsed, Token
<1>3. /\ q \in CallState
      /\ q.pc = "sign" /\ q.login = FALSE /\ q.for = t.session /\ q.held = t
  BY <1>2 DEF CallState, NoCall
<1> HIDE DEF q
<1>4. t.iat < clock
  BY <1>1, <1>2, MaxClockIsNat DEF SessionInv, SessionTypeOK, Token
<1>5. Sound(q)
  BY <1>2, <1>3, <1>4 DEF Sound
<1>6. \A d \in Caller : Opening(call[d]) => used[call[d].for] = {}
  BY DEF SessionInv, OpeningsApart, Apart
<1>7. Apart(c, q)
  BY <1>2, <1>3, <1>6 DEF Apart, Opening
<1> QED BY <1>1, <1>3, <1>5, <1>7, HandlerStep

-----------------------------------------------------------------------------
(* The steps that change the collection or the clock *)

\* Storing a token newer than all the session has had.
LEMMA PutStep ==
  ASSUME SessionInv, NEW c \in Caller, Put(c),
         call[c].pc \in {"upsert", "swap"},
         \A t \in used[call[c].for] : t.iat < call[c].token.iat,
         \A d \in Caller \ {c} : ~Opening(call[d]) \/ call[d].for # call[c].for,
         \A d \in Caller \ {c} :
           ~call[d].login /\ call[d].for = call[c].for => call[d].held.iat < call[c].token.iat
  PROVE  SessionInv'
<1> DEFINE p == call[c]
           s == p.for
           q == [p EXCEPT !.pc = "answer"]
<1>1. /\ row' = [row EXCEPT ![s] = [token |-> p.token, expires |-> p.until]]
      /\ used' = [used EXCEPT ![s] = @ \cup {p.token}]
      /\ call' = [call EXCEPT ![c] = q]
      /\ clock' = clock /\ known' = known
  BY DEF Put, Continue
<1>2. p \in CallState /\ Sound(p)
  BY HandlerRecords
<1>3. /\ s \in Session /\ p.token \in Token /\ p.token.session = s
      /\ p.token.iat <= clock /\ p.until \in Nat
  BY <1>2 DEF Sound, CallState
<1>4. /\ q \in CallState
      /\ q.pc = "answer" /\ q.token = p.token
      /\ q.for = s /\ q.login = p.login /\ q.held = p.held
  BY <1>2 DEF CallState
<1> HIDE DEF q
<1>5. /\ clock \in 0..MaxClock /\ known \subseteq Token
      /\ row \in [Session -> Row \cup {NoRow}]
      /\ call \in [Caller -> CallState]
      /\ used \in [Session -> SUBSET Token]
  BY DEF SessionInv, SessionTypeOK
<1>6. [token |-> p.token, expires |-> p.until] \in Row
  BY <1>3 DEF Row
<1>7. SessionTypeOK'
  BY <1>1, <1>3, <1>4, <1>5, <1>6 DEF SessionTypeOK
<1>8. /\ row'[s].token = p.token /\ row'[s] # NoRow
      /\ used'[s] = used[s] \cup {p.token}
      /\ \A u \in Session \ {s} : row'[u] = row[u] /\ used'[u] = used[u]
      /\ call'[c] = q
      /\ \A d \in Caller \ {c} : call'[d] = call[d]
  BY <1>1, <1>3, <1>5, <1>6, NoRowIsNoRow
<1>9. TokensAreDated'
  BY <1>1, <1>3, <1>8 DEF SessionInv, TokensAreDated
<1>10. RowIsNewest'
  <2>1. p.token.iat \in Nat /\ \A t \in used[s] : t.iat \in Nat /\ t.iat < p.token.iat
    BY <1>3, <1>5, MaxClockIsNat DEF Token
  <2>2. \A t \in used'[s] : t.iat <= p.token.iat
    BY <1>8, <2>1
  <2> QED BY <1>8, <2>2 DEF SessionInv, RowIsNewest
<1>11. KnownWereUsed'
  <2>1. \A t \in known : t.session \in Session
    BY <1>5 DEF Token
  <2> QED BY <1>1, <1>8, <2>1 DEF SessionInv, KnownWereUsed
<1>12. CallsAreSound'
  <2> SUFFICES ASSUME NEW d \in Caller PROVE Sound(call[d])'
    BY DEF CallsAreSound
  <2>1. CASE d = c
    BY <1>1, <1>2, <1>3, <1>4, <1>8, <2>1 DEF Sound
  <2>2. CASE d # c
    <3>1. Sound(call[d]) /\ call'[d] = call[d]
      BY <1>8, <2>2 DEF SessionInv, CallsAreSound
    <3>2. call[d].pc # "idle" => used[call[d].for] \subseteq used'[call[d].for]
      BY <1>8, <3>1 DEF Sound
    <3> QED BY <1>1, <1>8, <2>2, <3>1, <3>2 DEF Sound
  <2> QED BY <2>1, <2>2
<1>13. OpeningsApart'
  <2> SUFFICES ASSUME NEW d \in Caller PROVE Apart(d, call[d])'
    BY DEF OpeningsApart
  <2>1. ~Opening(q)
    BY <1>4 DEF Opening
  <2>2. CASE d = c
    BY <1>4, <1>8, <2>1, <2>2 DEF Apart, Opening
  <2>3. CASE d # c
    <3>1. Apart(d, call[d])
      BY DEF SessionInv, OpeningsApart
    <3>2. Opening(call[d]) => call[d].for \in Session \ {s}
      BY <1>3, <2>3 DEF SessionInv, CallsAreSound, Sound, Opening
    <3> QED BY <1>4, <1>8, <2>1, <2>3, <3>1, <3>2 DEF Apart, Opening
  <2> QED BY <2>2, <2>3
<1> QED BY <1>7, <1>9, <1>10, <1>11, <1>12, <1>13 DEF SessionInv

\* What a swap that matched and an upsert find: the token they store is newer
\* than all that its session has had.
LEMMA SwapIsFresh ==
  ASSUME SessionInv, NEW c \in Caller, Swap(c)
  PROVE  /\ call[c].for \in Session
         /\ row[call[c].for] # NoRow
         /\ call[c].token \in Token
         /\ \A t \in used[call[c].for] : t \in Token /\ t.iat < call[c].token.iat
<1>1. Sound(call[c]) /\ call[c].pc = "swap"
  BY HandlerRecords DEF Swap, Does
<1>2. /\ call[c].for \in Session
      /\ row[call[c].for] # NoRow
      /\ row[call[c].for].token = call[c].held
      /\ call[c].held \in used[call[c].for]
      /\ call[c].token \in Token
      /\ call[c].held.iat < call[c].token.iat
  BY <1>1 DEF Sound, Swap, Sessions
<1>3. \A t \in used[call[c].for] : t \in Token /\ t.iat \in Nat /\ t.iat <= call[c].held.iat
  BY <1>2, MaxClockIsNat DEF SessionInv, SessionTypeOK, RowIsNewest, Token
<1>4. call[c].token.iat \in Nat
  BY <1>2, MaxClockIsNat DEF Token
<1> QED BY <1>2, <1>3, <1>4

\* A swap stores a token newer than the one it replaces.
LEMMA SwapStep ==
  ASSUME SessionInv, NEW c \in Caller, Swap(c)
  PROVE  SessionInv'
<1>1. call[c].pc = "swap" /\ Put(c)
  BY DEF Swap, Does
<1>2. Sound(call[c]) /\ ~Opening(call[c])
  BY <1>1, HandlerRecords DEF Opening
<1>3. /\ call[c].for \in Session
      /\ row[call[c].for] # NoRow
      /\ \A t \in used[call[c].for] : t.iat < call[c].token.iat
  BY SwapIsFresh
<1>4. row[call[c].for].token \in used[call[c].for]
  BY <1>3 DEF SessionInv, RowIsNewest
<1>5. ASSUME NEW d \in Caller \ {c}
      PROVE  ~Opening(call[d]) \/ call[d].for # call[c].for
  BY <1>4 DEF SessionInv, OpeningsApart, Apart
<1>6. ASSUME NEW d \in Caller \ {c}, ~call[d].login, call[d].for = call[c].for
      PROVE  call[d].held.iat < call[c].token.iat
  <2>1. Sound(call[d]) /\ call[d].for # NoRow
    BY <1>3, <1>6, NoRowIsNoRow DEF SessionInv, CallsAreSound
  <2>2. call[d].held \in used[call[d].for]
    BY <1>6, <2>1 DEF Sound, NoCall
  <2> QED BY <1>3, <1>6, <2>2
<1> QED BY <1>1, <1>3, <1>5, <1>6, PutStep

\* A login's upsert stores the first token of its session.
LEMMA UpsertStep ==
  ASSUME SessionInv, NEW c \in Caller, Upsert(c)
  PROVE  SessionInv' /\ used[call[c].for] = {} /\ call[c].for \in Session /\ call[c].token \in Token
<1>1. call[c].pc = "upsert" /\ Put(c)
  BY DEF Upsert, Does
<1>2. Sound(call[c]) /\ Opening(call[c])
  BY <1>1, HandlerRecords DEF Opening, Sound
<1>3. /\ used[call[c].for] = {}
      /\ \A d \in Caller \ {c} : call[d].for # call[c].for
  BY <1>2 DEF SessionInv, OpeningsApart, Apart
<1>4. SessionInv'
  BY <1>1, <1>3, PutStep
<1> QED BY <1>1, <1>2, <1>3, <1>4 DEF Sound

\* The TTL monitor removes a row: the tokens it held stay used.
LEMMA SweepStep ==
  ASSUME SessionInv, NEW s \in Session, Sweep(s)
  PROVE  SessionInv'
<1>1. row' = [row EXCEPT ![s] = NoRow] /\ UNCHANGED <<clock, call, known, used>>
  BY DEF Sweep
<1>2. row' \in [Session -> Row \cup {NoRow}]
      /\ \A u \in Session : row'[u] \in {row[u], NoRow}
  BY <1>1 DEF SessionInv, SessionTypeOK
<1>3. SessionTypeOK' /\ TokensAreDated' /\ RowIsNewest' /\ KnownWereUsed'
  BY <1>1, <1>2 DEF SessionInv, SessionTypeOK, TokensAreDated, RowIsNewest, KnownWereUsed
<1>4. CallsAreSound'
  <2> SUFFICES ASSUME NEW c \in Caller PROVE Sound(call[c])'
    BY DEF CallsAreSound
  <2>1. Sound(call[c])
    BY HandlerRecords
  <2> QED BY <1>1, <1>2, <2>1 DEF Sound
<1>5. OpeningsApart'
  BY <1>1 DEF SessionInv, OpeningsApart, Apart, Opening
<1> QED BY <1>3, <1>4, <1>5 DEF SessionInv

\* Time only makes the present later.
LEMMA SecondStep ==
  ASSUME SessionInv, Second
  PROVE  SessionInv'
<1>1. clock' = clock + 1 /\ clock < MaxClock /\ UNCHANGED <<row, call, known, used>>
  BY DEF Second
<1>2. clock \in Nat /\ clock' \in 0..MaxClock
  BY <1>1, MaxClockIsNat DEF SessionInv, SessionTypeOK
<1>3. SessionTypeOK' /\ RowIsNewest' /\ KnownWereUsed' /\ OpeningsApart'
  BY <1>1, <1>2 DEF SessionInv, SessionTypeOK, RowIsNewest, KnownWereUsed, OpeningsApart,
                    Apart, Opening
<1>4. \A u \in Session : \A t \in used[u] : t.iat \in Nat
  BY MaxClockIsNat DEF SessionInv, SessionTypeOK, Token
<1>5. TokensAreDated'
  BY <1>1, <1>2, <1>4 DEF SessionInv, TokensAreDated
<1>6. CallsAreSound'
  <2> SUFFICES ASSUME NEW c \in Caller PROVE Sound(call[c])'
    BY DEF CallsAreSound
  <2>1. Sound(call[c])
    BY HandlerRecords
  <2>2. call[c].pc # "idle" /\ ~call[c].login => call[c].held.iat \in Nat
    BY <1>4, <2>1 DEF Sound
  <2>3. call[c].pc \in {"send", "upsert", "swap", "answer"} => call[c].token.iat \in Nat
    BY <2>1, MaxClockIsNat DEF Sound, Token
  <2> QED BY <1>1, <1>2, <2>1, <2>2, <2>3 DEF Sound
<1> QED BY <1>3, <1>5, <1>6 DEF SessionInv

\* Every step, by what it does.
LEMMA SessionStep ==
  ASSUME SessionInv, ~EarlyRefresh, [SessionNext]_sessionVars
  PROVE  SessionInv'
<1>1. CASE UNCHANGED sessionVars
  BY <1>1 DEF sessionVars, SessionInv, SessionTypeOK, TokensAreDated, RowIsNewest, KnownWereUsed,
              CallsAreSound, Sound, OpeningsApart, Apart, Opening
<1>2. ASSUME NEW c \in Caller, CallerNext(c) PROVE SessionInv'
  <2>1. ASSUME NEW s \in Session, Login(c, s) PROVE SessionInv'
    BY <2>1, LoginStep
  <2>2. ASSUME NEW t \in known, Refresh(c, t) PROVE SessionInv'
    BY <2>2, RefreshStep
  <2>3. CASE Sign(c)
    BY <2>3, SignStep
  <2>4. CASE Send(c)
    BY <2>4, SendStep
  <2>5. CASE Upsert(c)
    BY <2>5, UpsertStep
  <2>6. CASE Swap(c)
    BY <2>6, SwapStep
  <2>7. CASE Refuse(c) \/ Answer(c) \/ Lose(c)
    BY <2>7, ReturnStep DEF Refuse, Answer, Lose, Does
  <2> QED BY <1>2, <2>1, <2>2, <2>3, <2>4, <2>5, <2>6, <2>7 DEF CallerNext
<1>3. ASSUME NEW s \in Session, Sweep(s) PROVE SessionInv'
  BY <1>3, SweepStep
<1>4. CASE Second
  BY <1>4, SecondStep
<1> QED BY <1>1, <1>2, <1>3, <1>4 DEF SessionNext

-----------------------------------------------------------------------------
(* Theorems *)

\* The invariant holds throughout when clients refresh in a later second.
LEMMA SessionInvariance == ~EarlyRefresh /\ SessionSpec => []SessionInv
<1>1. SessionInit => SessionInv
  BY SessionStart
<1>2. ~EarlyRefresh /\ SessionInv /\ [SessionNext]_sessionVars => SessionInv'
  BY SessionStep
<1>3. ~EarlyRefresh => []~EarlyRefresh
  <2>1. ~EarlyRefresh => (~EarlyRefresh)'
    OBVIOUS
  <2> QED BY <2>1, PTL
<1> QED BY <1>1, <1>2, <1>3, PTL DEF SessionSpec

\* Every variable keeps its type, for every number of sessions and callers.
THEOREM SessionTyping == ~EarlyRefresh /\ SessionSpec => []SessionTypeOK
<1>1. SessionInv => SessionTypeOK
  BY DEF SessionInv
<1> QED BY <1>1, SessionInvariance, PTL

\* A handler about to answer was so before the step or has just stored its token.
LEMMA AnswerOrigin ==
  ASSUME SessionInv, [SessionNext]_sessionVars, NEW c \in Caller, call'[c].pc = "answer"
  PROVE  \/ call'[c] = call[c]
         \/ /\ Swap(c) \/ Upsert(c)
            /\ call'[c].held = call[c].held /\ call'[c].for = call[c].for
            /\ \A d \in Caller \ {c} : call'[d] = call[d]
<1>1. call \in [Caller -> CallState] /\ call[c] \in CallState
  BY DEF SessionInv, SessionTypeOK
<1>2. CASE UNCHANGED call
  BY <1>2
<1>3. ASSUME NEW e \in Caller, NEW q, Continue(e, q), q.pc # "answer"
      PROVE  call'[c] = call[c]
  BY <1>1, <1>3 DEF Continue
<1>4. ASSUME NEW e \in Caller, Swap(e) \/ Upsert(e)
      PROVE  \/ call'[c] = call[c]
             \/ /\ c = e
                /\ call'[c].held = call[c].held /\ call'[c].for = call[c].for
                /\ \A d \in Caller \ {c} : call'[d] = call[d]
  <2>1. call' = [call EXCEPT ![e] = [call[e] EXCEPT !.pc = "answer"]]
    BY <1>4 DEF Swap, Upsert, Put, Continue
  <2>2. CASE c # e
    BY <1>1, <2>1, <2>2
  <2>3. CASE c = e
    <3>1. call'[c] = [call[c] EXCEPT !.pc = "answer"] /\ \A d \in Caller \ {c} : call'[d] = call[d]
      BY <1>1, <2>1, <2>3
    <3> QED BY <1>1, <2>3, <3>1 DEF CallState
  <2> QED BY <2>2, <2>3
<1>5. ASSUME NEW e \in Caller, CallerNext(e), ~Swap(e), ~Upsert(e)
      PROVE  call'[c] = call[c]
  <2>1. \E q : Continue(e, q) /\ q.pc # "answer"
    <3>1. NoCall.pc # "answer"
      BY DEF NoCall
    <3>2. ASSUME NEW s \in Session, Login(e, s) PROVE \E q : Continue(e, q) /\ q.pc # "answer"
      <4> DEFINE q == [NoCall EXCEPT !.pc = "sign", !.login = TRUE, !.for = s]
      <4>1. Continue(e, q)
        BY <3>2 DEF Login
      <4>2. q.pc = "sign"
        BY DEF NoCall
      <4> QED BY <4>1, <4>2
    <3>3. ASSUME NEW t \in known, Refresh(e, t) PROVE \E q : Continue(e, q) /\ q.pc # "answer"
      <4> DEFINE q == [NoCall EXCEPT !.pc = "sign", !.held = t, !.for = t.session]
      <4>1. Continue(e, q)
        BY <3>3 DEF Refresh
      <4>2. q.pc = "sign"
        BY DEF NoCall
      <4> QED BY <4>1, <4>2
    <3>4. CASE Sign(e)
      <4> DEFINE q == [call[e] EXCEPT !.pc = "send",
                         !.token = [session |-> call[e].for, iat |-> clock]]
      <4>1. Continue(e, q)
        BY <3>4 DEF Sign
      <4>2. q.pc = "send"
        BY <1>1 DEF CallState
      <4> QED BY <4>1, <4>2
    <3>5. CASE Send(e)
      <4> DEFINE q == [call[e] EXCEPT !.pc = IF call[e].login THEN "upsert" ELSE "swap",
                         !.until = clock + Life, !.asOf = clock]
      <4>1. Continue(e, q)
        BY <3>5 DEF Send
      <4>2. q.pc \in {"upsert", "swap"}
        BY <1>1 DEF CallState
      <4> QED BY <4>1, <4>2
    <3>6. CASE Refuse(e) \/ Answer(e) \/ Lose(e)
      BY <3>1, <3>6 DEF Refuse, Answer, Lose, Return
    <3> QED BY <1>5, <3>2, <3>3, <3>4, <3>5, <3>6 DEF CallerNext
  <2> QED BY <2>1, <1>3
<1> QED
  BY <1>2, <1>4, <1>5 DEF SessionNext, sessionVars, Sweep, Second

\* However many callers present the same token, and however their handlers and
\* the TTL monitor interleave, at most one is given a new token.
THEOREM OneCallerWins == ~EarlyRefresh /\ SessionSpec => []OneWinner
<1>1. SessionInit => OneWinner
  BY DEF SessionInit, OneWinner, Does, NoCall
<1>2. ASSUME SessionInv, OneWinner, [SessionNext]_sessionVars
      PROVE  OneWinner'
  <2>1. ASSUME NEW c \in Caller, NEW d \in Caller, c # d,
               call'[c].pc = "answer", call'[d].pc = "answer",
               call'[c].held = call'[d].held, call'[c].held # NoRow,
               Swap(c) \/ Upsert(c), call'[c].held = call[c].held, call'[d] = call[d]
        PROVE  FALSE
    <3>1. Sound(call[c]) /\ Sound(call[d]) /\ call[c].pc \in {"swap", "upsert"}
      BY <1>2, <2>1, HandlerRecords DEF Swap, Upsert, Does
    <3>2. Swap(c) /\ ~call[c].login /\ ~call[d].login
      BY <2>1, <3>1 DEF Sound, Upsert, Does
    <3>3. /\ call[c].for \in Session /\ call[d].for \in Session
          /\ call[c].held \in used[call[c].for] /\ call[d].held \in used[call[d].for]
      BY <2>1, <3>1, <3>2 DEF Sound
    <3>4. call[d].for = call[c].for
      <4>1. call[c].held = call[d].held
        BY <2>1
      <4>2. call[c].held.session = call[c].for /\ call[d].held.session = call[d].for
        BY <1>2, <3>3 DEF SessionInv, TokensAreDated
      <4> QED BY <4>1, <4>2
    <3>5. row[call[c].for] # NoRow /\ row[call[c].for].token = call[c].held
      BY <3>2 DEF Swap, Sessions
    <3>6. call[d].held.iat < call[d].held.iat
      BY <2>1, <3>1, <3>2, <3>4, <3>5 DEF Sound
    <3>7. call[d].held.iat \in Nat
      BY <1>2, <3>3, MaxClockIsNat DEF SessionInv, SessionTypeOK, Token
    <3> QED BY <3>6, <3>7
  <2> SUFFICES ASSUME NEW c \in Caller, NEW d \in Caller, c # d,
                      call'[c].pc = "answer", call'[d].pc = "answer",
                      call'[c].held = call'[d].held, call'[c].held # NoRow
               PROVE  FALSE
    BY DEF OneWinner, Does
  <2>2. CASE call'[c] = call[c] /\ call'[d] = call[d]
    BY <1>2, <2>2 DEF OneWinner, Does
  <2> QED BY <1>2, <2>1, <2>2, AnswerOrigin
<1> QED BY <1>1, <1>2, SessionInvariance, PTL DEF SessionSpec

\* The row of a session takes the token a call has stored.
LEMMA PutInstalls ==
  ASSUME SessionInv, NEW c \in Caller, Put(c), call[c].for \in Session,
         call[c].token \notin used[call[c].for], call[c].token \in Token
  PROVE  Chain!Install(call[c].for, call[c].token)
<1> DEFINE s == call[c].for
           new == [token |-> call[c].token, expires |-> call[c].until]
<1>1. row' = [row EXCEPT ![s] = new] /\ used' = [used EXCEPT ![s] = @ \cup {call[c].token}]
  BY DEF Put
<1>2. new \in Row /\ new # NoRow /\ new.token = call[c].token
  <2>1. call[c].until \in Nat
    BY HandlerRecords DEF CallState
  <2> QED BY <2>1, NoRowIsNoRow DEF Row
<1> HIDE DEF new
<1>3. row \in [Session -> Row \cup {NoRow}]
  BY DEF SessionInv, SessionTypeOK
<1>4. Live' = [Live EXCEPT ![s] = call[c].token]
  BY <1>1, <1>2, <1>3 DEF Live
<1> QED BY <1>1, <1>4 DEF Chain!Install

\* The collection implements the abstract chain of tokens: login opens, a swap
\* that matched rotates, the TTL monitor closes, and nothing else shows.
THEOREM TokensFormAChain == ~EarlyRefresh /\ SessionSpec => KeepsTheChain
<1>1. SessionInit => Chain!Init
  BY DEF SessionInit, Chain!Init, Live
<1>2. ASSUME SessionInv, [SessionNext]_sessionVars
      PROVE  [Chain!Next]_(Chain!chainVars)
  <2>1. ASSUME UNCHANGED <<row, used>> PROVE UNCHANGED Chain!chainVars
    BY <2>1 DEF Chain!chainVars, Live
  <2>2. ASSUME NEW c \in Caller, Upsert(c) PROVE Chain!Next
    <3>1. /\ used[call[c].for] = {} /\ call[c].for \in Session /\ call[c].token \in Token
          /\ Put(c)
      BY <1>2, <2>2, UpsertStep DEF Upsert
    <3>2. Chain!Install(call[c].for, call[c].token)
      BY <1>2, <3>1, PutInstalls
    <3> QED BY <3>1, <3>2 DEF Chain!Next, Chain!Open
  <2>3. ASSUME NEW c \in Caller, Swap(c) PROVE Chain!Next
    <3>1. /\ call[c].for \in Session /\ row[call[c].for] # NoRow /\ call[c].token \in Token
          /\ \A t \in used[call[c].for] : t \in Token /\ t.iat < call[c].token.iat
          /\ Put(c)
      BY <1>2, <2>3, SwapIsFresh DEF Swap
    <3>2. call[c].token \notin used[call[c].for]
      BY <3>1, MaxClockIsNat DEF Token
    <3>3. Chain!Install(call[c].for, call[c].token)
      BY <1>2, <3>1, <3>2, PutInstalls
    <3>4. Live[call[c].for] # NoRow
      BY <1>2, <3>1, NoRowIsNoRow DEF Live, SessionInv, SessionTypeOK, Row
    <3> QED BY <3>1, <3>3, <3>4 DEF Chain!Next, Chain!Rotate
  <2>4. ASSUME NEW s \in Session, Sweep(s) PROVE Chain!Next
    <3>1. row[s] # NoRow /\ row' = [row EXCEPT ![s] = NoRow] /\ used' = used
      BY <2>4 DEF Sweep, Sessions
    <3>2. row \in [Session -> Row \cup {NoRow}]
      BY <1>2 DEF SessionInv, SessionTypeOK
    <3>3. Live[s] # NoRow
      BY <3>1, <3>2, NoRowIsNoRow DEF Live, Row
    <3>4. Live' = [Live EXCEPT ![s] = NoRow]
      BY <3>1, <3>2 DEF Live
    <3> QED BY <3>1, <3>3, <3>4 DEF Chain!Next, Chain!Close
  <2> QED
    BY <1>2, <2>1, <2>2, <2>3, <2>4
       DEF SessionNext, CallerNext, sessionVars, Login, Refresh, Sign, Send, Refuse, Answer,
           Lose, Second
<1> QED BY <1>1, <1>2, SessionInvariance, PTL DEF SessionSpec, KeepsTheChain, Chain!Spec

=============================================================================
