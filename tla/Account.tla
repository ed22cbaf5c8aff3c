-------------------------------- MODULE Account --------------------------------
(* One account: signup, the emailed code, its verification and its re-issue    *)
(* (AuthService.signup, VerificationService), and the vault's verifier         *)
(* (VaultPasswordService).  All of them load and save the one user document,   *)
(* and save() writes the fields the handler has assigned.                      *)
EXTENDS Naturals

CONSTANTS
  Client,     \* slots: how many requests are in flight
  Setters,    \* the slots whose requests may set the vault's verifier
  Code,       \* one-time codes; a draw may repeat an earlier one
  Verifier,   \* encrypted verifiers a client may submit
  CodeLife,   \* ten minutes, in ticks of the clock
  MaxMoment,  \* bound on the clock
  NoUser,     \* the users collection has no such account
  Nothing     \* emailVerificationCode: null, vaultCredentialVerifier: ''

ASSUME SettersAreClients == Setters \subseteq Client
ASSUME TimesAreNat == CodeLife \in Nat /\ MaxMoment \in Nat
ASSUME NothingIsNoValue == Nothing \notin Code \cup Verifier

VARIABLES
  moment,     \* Date.now()
  user,       \* the user document, or NoUser
  task,       \* per slot, the handler's local variables
  mailed,     \* the codes the mail server has accepted
  issued      \* history: every code an issue left in the document, with its expiry

accountVars == <<moment, user, task, mailed, issued>>

User ==
  [verified : BOOLEAN, code : Code \cup {Nothing}, expires : Nat,
   vault : Verifier \cup {Nothing}]

ASSUME NoUserIsNoDocument == NoUser \notin User

Task ==
  [pc    : {"idle", "hash", "create", "resend", "mail", "verify", "vault"},
   code  : Code \cup {Nothing},      \* the code drawn or submitted
   until : Nat,                      \* its expiry, when drawn
   was   : Code \cup {Nothing},      \* resendOtp: the code in the document it loaded
   due   : Nat,                      \* and its expiry
   asOf  : Nat,                      \* when the submitted code was checked
   vault : Verifier \cup {Nothing}]

NoTask ==
  [pc |-> "idle", code |-> Nothing, until |-> 0, was |-> Nothing, due |-> 0, asOf |-> 0,
   vault |-> Nothing]

On(c, pc) == task[c].pc = pc
Turn(c, next) == task' = [task EXCEPT ![c] = next]
Reply(c) == Turn(c, NoTask)
Exists == user # NoUser

-----------------------------------------------------------------------------
(* Signup *)

\* exists() found neither the email nor the phone number.
Signup(c) ==
  /\ On(c, "idle")
  /\ ~Exists
  /\ Turn(c, [NoTask EXCEPT !.pc = "hash"])
  /\ UNCHANGED <<moment, user, mailed, issued>>

\* The password is hashed; expiry and code are drawn.
Draw(c, code) ==
  /\ On(c, "hash")
  /\ Turn(c, [NoTask EXCEPT !.pc = "create", !.code = code, !.until = moment + CodeLife])
  /\ UNCHANGED <<moment, user, mailed, issued>>

\* For a mutant: the code goes in without its expiry.
IssueUndated(c, doc) ==
  /\ user' = [doc EXCEPT !.code = task[c].code, !.expires = Nothing]
  /\ issued' = issued \cup {<<task[c].code, task[c].until>>}
  /\ Turn(c, [task[c] EXCEPT !.pc = "mail"])

\* The document takes the code that task c has drawn, and the mail comes next.
\* A value equal to the loaded one is no modified path, and save() leaves it out.
Issue(c, doc) ==
  LET p == task[c]
      code == IF p.code = p.was THEN doc.code ELSE p.code
      expires == IF p.until = p.due THEN doc.expires ELSE p.until
  IN /\ user' = [doc EXCEPT !.code = code, !.expires = expires]
     /\ issued' = issued \cup {<<code, expires>>}
     /\ Turn(c, [p EXCEPT !.pc = "mail"])

\* For a mutant: the conflict is swallowed and the mail goes out all the same.
CreateQuietly(c) ==
  /\ On(c, "create")
  /\ IF Exists
       THEN /\ Turn(c, [task[c] EXCEPT !.pc = "mail"])
            /\ UNCHANGED <<user, issued>>
       ELSE Issue(c, [verified |-> FALSE, code |-> Nothing, expires |-> 0, vault |-> Nothing])
  /\ UNCHANGED <<moment, mailed>>

\* The unique indexes decide between two signups that both passed exists().
Create(c) ==
  /\ On(c, "create")
  /\ IF Exists
       THEN Reply(c) /\ UNCHANGED <<user, issued>>
       ELSE Issue(c, [verified |-> FALSE, code |-> Nothing, expires |-> 0, vault |-> Nothing])
  /\ UNCHANGED <<moment, mailed>>

\* sendOtp never throws: a mail that failed is logged and the answer is the same.
SendOtp(c) ==
  /\ On(c, "mail")
  /\ mailed' \in {mailed, mailed \cup {task[c].code}}
  /\ Reply(c)
  /\ UNCHANGED <<moment, user, issued>>

-----------------------------------------------------------------------------
(* resendOtp, verifyEmail, setVerifier: what their first query lets through *)

Resend(c, code) ==
  /\ On(c, "idle")
  /\ Exists
  /\ ~user.verified
  /\ Turn(c, [NoTask EXCEPT !.pc = "resend", !.code = code, !.until = moment + CodeLife,
                            !.was = user.code, !.due = user.expires])
  /\ UNCHANGED <<moment, user, mailed, issued>>

\* For a mutant: the saved document is the unverified one that was loaded.
SaveResendWhole(c) ==
  /\ On(c, "resend")
  /\ Issue(c, [user EXCEPT !.verified = FALSE])
  /\ UNCHANGED <<moment, mailed>>

SaveResend(c) ==
  /\ On(c, "resend")
  /\ Issue(c, user)
  /\ UNCHANGED <<moment, mailed>>

\* For a mutant: expiry dates are never looked at.
NeverExpired(expires) == FALSE

IsExpired(expires) == expires < moment

Verify(c, code) ==
  /\ On(c, "idle")
  /\ Exists
  /\ ~user.verified
  /\ ~IsExpired(user.expires)
  /\ user.code = code
  /\ Turn(c, [NoTask EXCEPT !.pc = "verify", !.code = code, !.asOf = moment])
  /\ UNCHANGED <<moment, user, mailed, issued>>

SaveVerify(c) ==
  /\ On(c, "verify")
  /\ user' = [user EXCEPT !.verified = TRUE, !.code = Nothing]
  /\ Reply(c)
  /\ UNCHANGED <<moment, mailed, issued>>

\* For a mutant: nobody asks whether a verifier is there.
SetVaultAgain(c, v) ==
  /\ On(c, "idle")
  /\ Exists
  /\ Turn(c, [NoTask EXCEPT !.pc = "vault", !.vault = v])
  /\ UNCHANGED <<moment, user, mailed, issued>>

SetVault(c, v) ==
  /\ On(c, "idle")
  /\ Exists
  /\ user.vault = Nothing
  /\ Turn(c, [NoTask EXCEPT !.pc = "vault", !.vault = v])
  /\ UNCHANGED <<moment, user, mailed, issued>>

SaveVault(c) ==
  /\ On(c, "vault")
  /\ user' = [user EXCEPT !.vault = task[c].vault]
  /\ Reply(c)
  /\ UNCHANGED <<moment, mailed, issued>>

-----------------------------------------------------------------------------
\* A query fails or the process dies: the handler is over.
Abandon(c) ==
  /\ ~On(c, "idle")
  /\ Reply(c)
  /\ UNCHANGED <<moment, user, mailed, issued>>

Pass ==
  /\ moment < MaxMoment
  /\ moment' = moment + 1
  /\ UNCHANGED <<user, task, mailed, issued>>

AccountInit ==
  /\ moment = 0
  /\ user = NoUser
  /\ task = [c \in Client |-> NoTask]
  /\ mailed = {}
  /\ issued = {}

ClientNext(c) ==
  \/ Signup(c) \/ Create(c) \/ SendOtp(c)
  \/ \E code \in Code : Draw(c, code) \/ Resend(c, code) \/ Verify(c, code)
  \/ SaveResend(c) \/ SaveVerify(c) \/ SaveVault(c) \/ Abandon(c)
  \/ c \in Setters /\ \E v \in Verifier : SetVault(c, v)

AccountNext == (\E c \in Client : ClientNext(c)) \/ Pass

AccountSpec == AccountInit /\ [][AccountNext]_accountVars

-----------------------------------------------------------------------------
AccountTypeOK ==
  /\ moment \in 0..MaxMoment
  /\ user \in User \cup {NoUser}
  /\ task \in [Client -> Task]
  /\ mailed \subseteq Code
  /\ issued \subseteq (Code \cup {Nothing}) \X Nat

\* A verified address stays verified: a resend that loaded the document before a
\* concurrent verification does not write the old flag back.
VerifiedForGood == [][Exists /\ user.verified => Exists' /\ user'.verified]_accountVars

\* An address becomes verified only through a code that the document has held
\* and that had not expired when the request checked it, whatever has been
\* issued since ("Codes expire 10 minutes after they are issued").
VerifiedByTimelyCode ==
  [][Exists' /\ user'.verified /\ ~(Exists /\ user.verified) =>
       \E c \in Client : \E i \in issued :
         On(c, "verify") /\ i[1] = task[c].code /\ task[c].asOf <= i[2]]_accountVars

\* No code is mailed that the document has not held: the loser of two signups
\* for one address sends nothing.
MailedCodesWereStored == mailed \subseteq {i[1] : i \in issued}

\* The vault's verifier is set once: "If the field is already set, setVerifier
\* does not overwrite" (docs/security/encryption.md).
VaultIsSetOnce ==
  [][Exists /\ user.vault # Nothing => Exists' /\ user'.vault = user.vault]_accountVars

=============================================================================
