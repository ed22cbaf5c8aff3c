---------------------------- MODULE RefreshSessions ----------------------------
(* Login and refresh of AuthService over the refresh_tokens collection: one    *)
(* row per session, holding the hash of its token, swapped by compare-and-set. *)
(*                                                                             *)
(* A refresh token is a JWT over (user, session, iat, exp) signed with HS256:  *)
(* the same payload gives the same token, and iat counts whole seconds.  So a  *)
(* token is its session and its second, exp being iat + Life.                  *)
EXTENDS Naturals

CONSTANTS
  Session,       \* session ids: randomUUID never gives one twice
  Caller,        \* slots: how many login or refresh requests are in flight
  Life,          \* REFRESH_TOKEN_SECONDS, in ticks of the clock
  EarlyRefresh,  \* BOOLEAN: may a client refresh in the very second of its token?
  MaxClock,      \* bound on the clock
  NoRow          \* no document for the session

Token == [session : Session, iat : 0..MaxClock]
Row == [token : Token, expires : Nat]

ASSUME LifeIsNat == Life \in Nat
ASSUME MaxClockIsNat == MaxClock \in Nat
ASSUME EarlyIsBoolean == EarlyRefresh \in BOOLEAN
ASSUME NoRowIsNoRow == NoRow \notin Row \cup Token \cup Session

VARIABLES
  clock,         \* seconds
  row,           \* refresh_tokens: Session -> row or NoRow
  call,          \* per slot, the handler's local variables
  known,         \* the refresh tokens clients have been sent
  used           \* history: per session, every token its row has held

sessionVars == <<clock, row, call, known, used>>

\* login and refresh run the same steps from the signing on: "sign", "send",
\* "upsert" or "swap", "answer".
CallState ==
  [pc    : {"idle", "sign", "send", "upsert", "swap", "answer"},
   login : BOOLEAN,
   held  : Token \cup {NoRow},     \* the token presented
   token : Token \cup {NoRow},     \* the token signed
   until : Nat,                    \* the new expiresAt
   asOf  : Nat,                    \* new Date() in the filter
   for   : Session \cup {NoRow}]   \* the session id

NoCall ==
  [pc |-> "idle", login |-> FALSE, held |-> NoRow, token |-> NoRow,
   until |-> 0, asOf |-> 0, for |-> NoRow]

Does(c, pc) == call[c].pc = pc
Continue(c, next) == call' = [call EXCEPT ![c] = next]
Return(c) == Continue(c, NoCall)

Sessions == {s \in Session : row[s] # NoRow}
Begun == {s \in Session : used[s] # {}} \cup {call[c].for : c \in Caller}

\* A date falls inside its second, so in that second alone either order holds.
MayBeAfter(date, other) == date >= other
MayBeUpTo(date, other) == date <= other

-----------------------------------------------------------------------------
\* login, the credentials being right: a session id nobody has had.
Login(c, s) ==
  /\ Does(c, "idle")
  /\ s \notin Begun
  /\ Continue(c, [NoCall EXCEPT !.pc = "sign", !.login = TRUE, !.for = s])
  /\ UNCHANGED <<clock, row, known, used>>

\* refresh: jwtVerify rejects a token from its exp on; the user is then looked up.
Refresh(c, t) ==
  /\ Does(c, "idle")
  /\ clock < t.iat + Life
  /\ EarlyRefresh \/ clock > t.iat
  /\ Continue(c, [NoCall EXCEPT !.pc = "sign", !.held = t, !.for = t.session])
  /\ UNCHANGED <<clock, row, known, used>>

\* For a mutant: the token carries its expiry for the second it was signed in.
SignExpiry(c) ==
  /\ Does(c, "sign")
  /\ Continue(c, [call[c] EXCEPT !.pc = "send",
                                 !.token = [session |-> call[c].for, iat |-> clock + Life]])
  /\ UNCHANGED <<clock, row, known, used>>

\* signRefreshToken: setIssuedAt reads the clock.
Sign(c) ==
  /\ Does(c, "sign")
  /\ Continue(c, [call[c] EXCEPT !.pc = "send",
                                 !.token = [session |-> call[c].for, iat |-> clock]])
  /\ UNCHANGED <<clock, row, known, used>>

\* expiresAt and the filter's date are computed and the update leaves for MongoDB.
Send(c) ==
  /\ Does(c, "send")
  /\ Continue(c, [call[c] EXCEPT !.pc = IF call[c].login THEN "upsert" ELSE "swap",
                                 !.until = clock + Life, !.asOf = clock])
  /\ UNCHANGED <<clock, row, known, used>>

\* The row of the session becomes the one the call has prepared.
Put(c) ==
  LET s == call[c].for
  IN /\ row' = [row EXCEPT ![s] = [token |-> call[c].token, expires |-> call[c].until]]
     /\ used' = [used EXCEPT ![s] = @ \cup {call[c].token}]
     /\ Continue(c, [call[c] EXCEPT !.pc = "answer"])
     /\ UNCHANGED <<clock, known>>

\* login's updateOne({ sessionId }, ..., { upsert: true }).
Upsert(c) ==
  /\ Does(c, "upsert")
  /\ Put(c)

\* For mutants: a filter without the hash, and a swap that inserts a missing row.
SwapAnyToken(c) ==
  /\ Does(c, "swap")
  /\ call[c].for \in Sessions
  /\ Put(c)

SwapOrInsert(c) ==
  /\ Does(c, "swap")
  /\ call[c].for \in Sessions => row[call[c].for].token = call[c].held
  /\ Put(c)

\* refresh's updateOne({ sessionId, tokenHash, expiresAt: { $gt } }) that matched.
Swap(c) ==
  LET s == call[c].for
  IN /\ Does(c, "swap")
     /\ s \in Sessions
     /\ row[s].token = call[c].held
     /\ MayBeAfter(row[s].expires, call[c].asOf)
     /\ Put(c)

\* matchedCount = 0: refresh returns null, a 401.
Refuse(c) ==
  LET s == call[c].for
  IN /\ Does(c, "swap")
     /\ s \in Sessions =>
          row[s].token # call[c].held \/ MayBeUpTo(row[s].expires, call[c].asOf)
     /\ Return(c)
     /\ UNCHANGED <<clock, row, known, used>>

Answer(c) ==
  /\ Does(c, "answer")
  /\ known' = known \cup {call[c].token}
  /\ Return(c)
  /\ UNCHANGED <<clock, row, used>>

\* The query fails, the process dies or the answer is lost on its way.
Lose(c) ==
  /\ ~Does(c, "idle")
  /\ Return(c)
  /\ UNCHANGED <<clock, row, known, used>>

\* MongoDB's TTL monitor, at its own pace (expireAfterSeconds: 0).
Sweep(s) ==
  /\ s \in Sessions
  /\ MayBeUpTo(row[s].expires, clock)
  /\ row' = [row EXCEPT ![s] = NoRow]
  /\ UNCHANGED <<clock, call, known, used>>

Second ==
  /\ clock < MaxClock
  /\ clock' = clock + 1
  /\ UNCHANGED <<row, call, known, used>>

-----------------------------------------------------------------------------
SessionInit ==
  /\ clock = 0
  /\ row = [s \in Session |-> NoRow]
  /\ call = [c \in Caller |-> NoCall]
  /\ known = {}
  /\ used = [s \in Session |-> {}]

CallerNext(c) ==
  \/ \E s \in Session : Login(c, s)
  \/ \E t \in known : Refresh(c, t)
  \/ Sign(c) \/ Send(c) \/ Upsert(c) \/ Swap(c) \/ Refuse(c) \/ Answer(c) \/ Lose(c)

SessionNext ==
  \/ \E c \in Caller : CallerNext(c)
  \/ \E s \in Session : Sweep(s)
  \/ Second

SessionSpec == SessionInit /\ [][SessionNext]_sessionVars

-----------------------------------------------------------------------------
SessionTypeOK ==
  /\ clock \in 0..MaxClock
  /\ row \in [Session -> Row \cup {NoRow}]
  /\ call \in [Caller -> CallState]
  /\ known \subseteq Token
  /\ used \in [Session -> SUBSET Token]

\* Of the callers that present the same token, at most one is given a new one:
\* two answers under way never come from the same token.
OneWinner ==
  \A c, d \in Caller :
    Does(c, "answer") /\ Does(d, "answer") /\ call[c].held = call[d].held
      /\ call[c].held # NoRow => c = d

\* refresh_tokens implements the chain of tokens: rotation is atomic, never
\* brings a spent token back to life, and never reopens a session whose row the
\* TTL monitor has removed.
Live == [s \in Session |-> IF row[s] = NoRow THEN NoRow ELSE row[s].token]
Chain == INSTANCE TokenChain WITH current <- Live, None <- NoRow
KeepsTheChain == Chain!Spec

=============================================================================
