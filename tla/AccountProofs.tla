----------------------------- MODULE AccountProofs -----------------------------
(* Account for any number of requests in flight, codes and verifiers: the      *)
(* flag of a verified address, the codes that verify and are mailed, and, with *)
(* one request that may set it, the vault's verifier.                          *)
EXTENDS Account, TLAPS

\* The code in the document has been issued, with the expiry beside it.
CodeWasIssued ==
  Exists /\ user.code # Nothing => <<user.code, user.expires>> \in issued

HasBeenIssued(code) == \E i \in issued : i[1] = code

\* What a handler of a signup, a resend or a verification may rely on.
Sound(c) ==
  /\ task[c].pc \in {"create", "resend", "mail"} => task[c].code \in Code
  /\ task[c].pc \in {"create", "resend"} =>
       task[c].was = Nothing \/ HasBeenIssued(task[c].was)
  /\ task[c].pc = "mail" => HasBeenIssued(task[c].code)
  /\ task[c].pc \in {"resend", "verify", "vault"} => Exists
  /\ task[c].pc = "verify" =>
       \E i \in issued : i[1] = task[c].code /\ task[c].asOf <= i[2]

TasksAreSound == \A c \in Client : Sound(c)

\* Whoever is about to set the verifier has found none, and none has come since.
VaultIsFree ==
  \A c \in Client : task[c].pc = "vault" => c \in Setters /\ user.vault = Nothing

SingleSetter == \A c, d \in Setters : c = d

AccountInv ==
  /\ AccountTypeOK
  /\ CodeWasIssued
  /\ TasksAreSound
  /\ MailedCodesWereStored

-----------------------------------------------------------------------------
(* The invariant *)

\* The initial state.
LEMMA AccountStart == AccountInit => AccountInv /\ VaultIsFree
<1> SUFFICES ASSUME AccountInit PROVE AccountInv /\ VaultIsFree
  OBVIOUS
<1>1. NoTask \in Task /\ \A c \in Client : task[c].pc = "idle"
  BY DEF AccountInit, NoTask, Task
<1>2. AccountTypeOK
  BY <1>1, TimesAreNat DEF AccountInit, AccountTypeOK
<1>3. CodeWasIssued /\ MailedCodesWereStored
  BY DEF AccountInit, CodeWasIssued, MailedCodesWereStored, Exists
<1>4. TasksAreSound /\ VaultIsFree
  BY <1>1 DEF TasksAreSound, Sound, VaultIsFree
<1> QED BY <1>2, <1>3, <1>4 DEF AccountInv

Untouched == user' = user /\ issued' = issued

\* A step of one handler that leaves the document alone and its record sound.
LEMMA ReadStep ==
  ASSUME AccountInv, NEW c \in Client, NEW q \in Task, Turn(c, q), Untouched,
         moment' = moment, mailed' \in {mailed, mailed \cup {task[c].code}},
         mailed' # mailed => task[c].pc = "mail",
         q.pc \in {"idle", "hash", "create", "resend", "verify", "vault"},
         q.pc \in {"create", "resend"} => q.code \in Code,
         q.pc \in {"create", "resend"} => q.was = Nothing \/ HasBeenIssued(q.was),
         q.pc \in {"resend", "verify", "vault"} => Exists,
         q.pc = "verify" => \E i \in issued : i[1] = q.code /\ q.asOf <= i[2]
  PROVE  AccountInv'
<1>1. task' = [task EXCEPT ![c] = q] /\ task \in [Client -> Task]
  BY DEF Turn, AccountInv, AccountTypeOK
<1>2. task'[c] = q /\ \A d \in Client \ {c} : task'[d] = task[d]
  BY <1>1
<1>3. task[c].pc = "mail" => task[c].code \in Code /\ HasBeenIssued(task[c].code)
  BY DEF AccountInv, TasksAreSound, Sound
<1>4. AccountTypeOK'
  BY <1>1, <1>3 DEF AccountInv, AccountTypeOK, Untouched
<1>5. CodeWasIssued'
  BY DEF AccountInv, CodeWasIssued, Untouched, Exists
<1>6. MailedCodesWereStored'
  BY <1>3 DEF AccountInv, MailedCodesWereStored, Untouched, HasBeenIssued
<1>7. TasksAreSound'
  BY <1>2 DEF AccountInv, TasksAreSound, Sound, Untouched, Exists, HasBeenIssued
<1> QED BY <1>4, <1>5, <1>6, <1>7 DEF AccountInv

\* A step of one handler that writes the document.
LEMMA WriteStep ==
  ASSUME AccountInv, NEW c \in Client, NEW q \in Task, Turn(c, q),
         user' \in User, issued \subseteq issued', issued' \subseteq (Code \cup {Nothing}) \X Nat,
         moment' = moment, mailed' = mailed,
         user'.code # Nothing => <<user'.code, user'.expires>> \in issued',
         q.pc \in {"idle", "mail"},
         q.pc = "mail" => q.code \in Code /\ \E i \in issued' : i[1] = q.code
  PROVE  AccountInv'
<1>1. task' = [task EXCEPT ![c] = q] /\ task \in [Client -> Task]
  BY DEF Turn, AccountInv, AccountTypeOK
<1>2. task'[c] = q /\ \A d \in Client \ {c} : task'[d] = task[d]
  BY <1>1
<1>3. AccountTypeOK'
  BY <1>1 DEF AccountInv, AccountTypeOK
<1>4. CodeWasIssued' /\ Exists'
  BY NoUserIsNoDocument DEF CodeWasIssued, Exists
<1>5. MailedCodesWereStored'
  BY DEF AccountInv, MailedCodesWereStored
<1>6. TasksAreSound'
  BY <1>2, <1>4 DEF AccountInv, TasksAreSound, Sound, HasBeenIssued
<1> QED BY <1>3, <1>4, <1>5, <1>6 DEF AccountInv

\* Create and SaveResend: the document takes a code and an expiry.  The code it
\* is left with is the one drawn, or the one drawn has been issued before.
LEMMA IssueStep ==
  ASSUME AccountInv, NEW c \in Client, NEW doc \in User, Issue(c, doc),
         moment' = moment, mailed' = mailed, task[c].code \in Code,
         task[c].was = Nothing \/ HasBeenIssued(task[c].was)
  PROVE  AccountInv'
<1> DEFINE p == task[c]
           q == [p EXCEPT !.pc = "mail"]
           code == IF p.code = p.was THEN doc.code ELSE p.code
           expires == IF p.until = p.due THEN doc.expires ELSE p.until
<1>1. p \in Task /\ issued \subseteq (Code \cup {Nothing}) \X Nat
  BY DEF AccountInv, AccountTypeOK
<1>2. q \in Task /\ q.pc = "mail" /\ q.code = p.code
  BY <1>1 DEF Task
<1>3. code \in Code \cup {Nothing} /\ expires \in Nat
  BY <1>1 DEF Task, User
<1>4. Turn(c, q) /\ issued' = issued \cup {<<code, expires>>}
  BY DEF Issue
<1>5. user' \in User /\ user'.code = code /\ user'.expires = expires
  BY <1>3 DEF Issue, User
<1>6. code = p.code \/ HasBeenIssued(p.code)
  BY NothingIsNoValue
<1> HIDE DEF q, code, expires
<1>7. \E i \in issued' : i[1] = q.code
  <2>1. <<code, expires>> \in issued' /\ <<code, expires>>[1] = code
    BY <1>4
  <2> QED BY <1>2, <1>4, <1>6, <2>1 DEF HasBeenIssued
<1>8. /\ issued \subseteq issued' /\ issued' \subseteq (Code \cup {Nothing}) \X Nat
      /\ <<user'.code, user'.expires>> \in issued'
      /\ q.code \in Code
  BY <1>1, <1>2, <1>3, <1>4, <1>5
<1> QED BY <1>2, <1>4, <1>5, <1>7, <1>8, WriteStep

\* Every step keeps the invariant.
LEMMA AccountStep ==
  ASSUME AccountInv, [AccountNext]_accountVars
  PROVE  AccountInv'
<1>1. CASE UNCHANGED accountVars
  BY <1>1 DEF accountVars, AccountInv, AccountTypeOK, CodeWasIssued, TasksAreSound, Sound,
              MailedCodesWereStored, Exists, HasBeenIssued
<1>2. CASE Pass
  <2>1. moment' \in 0..MaxMoment
    BY <1>2, TimesAreNat DEF Pass, AccountInv, AccountTypeOK
  <2> QED
    BY <1>2, <2>1 DEF Pass, AccountInv, AccountTypeOK, CodeWasIssued, TasksAreSound, Sound,
                      MailedCodesWereStored, Exists, HasBeenIssued
<1>3. ASSUME NEW c \in Client, ClientNext(c) PROVE AccountInv'
  <2>1. /\ task[c] \in Task /\ Sound(c)
        /\ NoTask \in Task /\ NoTask.pc = "idle"
        /\ moment \in Nat /\ moment + CodeLife \in Nat
    BY TimesAreNat DEF AccountInv, AccountTypeOK, TasksAreSound, NoTask, Task
  <2>2. CASE Signup(c)
    <3> DEFINE q == [NoTask EXCEPT !.pc = "hash"]
    <3>1. q \in Task /\ q.pc = "hash" /\ Turn(c, q)
      BY <2>2 DEF Signup, Task, NoTask
    <3> HIDE DEF q
    <3> QED BY <2>2, <3>1, ReadStep DEF Signup, Untouched
  <2>3. ASSUME NEW code \in Code, Draw(c, code) PROVE AccountInv'
    <3> DEFINE q == [NoTask EXCEPT !.pc = "create", !.code = code, !.until = moment + CodeLife]
    <3>1. q \in Task /\ q.pc = "create" /\ q.code = code /\ q.was = Nothing /\ Turn(c, q)
      BY <2>1, <2>3 DEF Draw, Task, NoTask
    <3> HIDE DEF q
    <3> QED BY <2>3, <3>1, ReadStep DEF Draw, Untouched
  <2>4. ASSUME NEW code \in Code, Resend(c, code) PROVE AccountInv'
    <3> DEFINE q == [NoTask EXCEPT !.pc = "resend", !.code = code, !.until = moment + CodeLife,
                                   !.was = user.code, !.due = user.expires]
    <3>1. user \in User /\ user.code \in Code \cup {Nothing} /\ user.expires \in Nat
      BY <2>4 DEF Resend, Exists, AccountInv, AccountTypeOK, User
    <3>2. q \in Task /\ q.pc = "resend" /\ q.code = code /\ q.was = user.code /\ Turn(c, q)
      BY <2>1, <2>4, <3>1 DEF Resend, Task, NoTask
    <3>3. user.code = Nothing \/ HasBeenIssued(user.code)
      <4>1. <<user.code, user.expires>>[1] = user.code
        OBVIOUS
      <4> QED BY <2>4, <4>1 DEF Resend, AccountInv, CodeWasIssued, HasBeenIssued
    <3> HIDE DEF q
    <3> QED BY <2>4, <3>2, <3>3, ReadStep DEF Resend, Untouched
  <2>5. ASSUME NEW code \in Code, Verify(c, code) PROVE AccountInv'
    <3> DEFINE q == [NoTask EXCEPT !.pc = "verify", !.code = code, !.asOf = moment]
    <3>1. q \in Task /\ q.pc = "verify" /\ q.code = code /\ q.asOf = moment /\ Turn(c, q)
      BY <2>1, <2>5 DEF Verify, Task, NoTask
    <3>2. user \in User /\ user.expires \in Nat /\ user.code = code /\ code # Nothing
      BY <2>5, NothingIsNoValue DEF Verify, Exists, AccountInv, AccountTypeOK, User
    <3>3. <<code, user.expires>> \in issued /\ moment <= user.expires
      BY <2>1, <2>5, <3>2 DEF Verify, IsExpired, AccountInv, CodeWasIssued
    <3>4. \E i \in issued : i[1] = code /\ moment <= i[2]
      BY <3>3
    <3> HIDE DEF q
    <3> QED BY <2>5, <3>1, <3>4, ReadStep DEF Verify, Untouched
  <2>6. ASSUME NEW v \in Verifier, SetVault(c, v) PROVE AccountInv'
    <3> DEFINE q == [NoTask EXCEPT !.pc = "vault", !.vault = v]
    <3>1. q \in Task /\ q.pc = "vault" /\ Turn(c, q)
      BY <2>1, <2>6 DEF SetVault, Task, NoTask
    <3> HIDE DEF q
    <3> QED BY <2>6, <3>1, ReadStep DEF SetVault, Untouched
  <2>7. CASE SendOtp(c)
    BY <2>1, <2>7, ReadStep DEF SendOtp, On, Reply, Untouched
  <2>8. CASE Abandon(c)
    BY <2>1, <2>8, ReadStep DEF Abandon, Reply, Untouched
  <2>9. CASE Create(c)
    <3>1. CASE Exists
      BY <2>1, <2>9, <3>1, ReadStep DEF Create, Reply, Untouched
    <3>2. CASE ~Exists
      <4>1. [verified |-> FALSE, code |-> Nothing, expires |-> 0, vault |-> Nothing] \in User
        BY DEF User
      <4> QED BY <2>1, <2>9, <3>2, <4>1, IssueStep DEF Create, On, Sound
    <3> QED BY <3>1, <3>2
  <2>10. CASE SaveResend(c)
    <3>1. user \in User
      BY <2>1, <2>10 DEF SaveResend, On, Sound, Exists, AccountInv, AccountTypeOK
    <3> QED BY <2>1, <2>10, <3>1, IssueStep DEF SaveResend, On, Sound
  <2>11. CASE SaveVerify(c)
    <3>1. user \in User /\ issued \subseteq (Code \cup {Nothing}) \X Nat
      BY <2>1, <2>11 DEF SaveVerify, On, Sound, Exists, AccountInv, AccountTypeOK
    <3>2. user' \in User /\ user'.code = Nothing
      BY <2>11, <3>1 DEF SaveVerify, User
    <3> QED BY <2>1, <2>11, <3>1, <3>2, WriteStep DEF SaveVerify, Reply
  <2>12. CASE SaveVault(c)
    <3>1. user \in User /\ issued \subseteq (Code \cup {Nothing}) \X Nat /\ Exists
      BY <2>1, <2>12 DEF SaveVault, On, Sound, Exists, AccountInv, AccountTypeOK
    <3>2. user' \in User /\ user'.code = user.code /\ user'.expires = user.expires
      BY <2>1, <2>12, <3>1 DEF SaveVault, User, Task
    <3>3. user'.code # Nothing => <<user'.code, user'.expires>> \in issued
      BY <3>1, <3>2 DEF AccountInv, CodeWasIssued
    <3> QED BY <2>1, <2>12, <3>1, <3>2, <3>3, WriteStep DEF SaveVault, Reply
  <2> QED
    BY <1>3, <2>2, <2>3, <2>4, <2>5, <2>6, <2>7, <2>8, <2>9, <2>10, <2>11, <2>12
       DEF ClientNext
<1> QED BY <1>1, <1>2, <1>3 DEF AccountNext

\* Every reachable state satisfies the inductive invariant.
LEMMA AccountInvariance == AccountSpec => []AccountInv
<1>1. AccountInit => AccountInv
  BY AccountStart
<1>2. AccountInv /\ [AccountNext]_accountVars => AccountInv'
  BY AccountStep
<1> QED BY <1>1, <1>2, PTL DEF AccountSpec

-----------------------------------------------------------------------------
(* Theorems *)

\* Every variable keeps its type.
THEOREM AccountTyping == AccountSpec => []AccountTypeOK
<1>1. AccountInv => AccountTypeOK
  BY DEF AccountInv
<1> QED BY <1>1, AccountInvariance, PTL

\* A code is mailed only once the document holds it, whoever else signs up for
\* the address or asks for another code meanwhile.
THEOREM MailsCarryStoredCodes == AccountSpec => []MailedCodesWereStored
<1>1. AccountInv => MailedCodesWereStored
  BY DEF AccountInv
<1> QED BY <1>1, AccountInvariance, PTL

\* What a step may do to the document: nothing, create it, give it a code, make
\* it verified on the strength of a sound record, or give it a verifier.
LEMMA DocumentChanges ==
  ASSUME AccountInv, [AccountNext]_accountVars
  PROVE  \/ user' = user
         \/ ~Exists /\ Exists' /\ ~user'.verified /\ user'.vault = Nothing
         \/ /\ Exists /\ Exists'
            /\ user'.verified = user.verified /\ user'.vault = user.vault
         \/ /\ Exists /\ Exists' /\ user'.vault = user.vault /\ user'.verified
            /\ \E c \in Client : On(c, "verify")
         \/ /\ Exists /\ Exists' /\ user'.verified = user.verified
            /\ \E c \in Client : task[c].pc = "vault"
<1>1. CASE UNCHANGED accountVars
  BY <1>1 DEF accountVars
<1>2. CASE Pass
  BY <1>2 DEF Pass
<1>3. ASSUME NEW c \in Client, ClientNext(c), user' # user
      PROVE  Create(c) \/ SaveResend(c) \/ SaveVerify(c) \/ SaveVault(c)
  BY <1>3 DEF ClientNext, Signup, Draw, SendOtp, Resend, Verify, SetVault, Abandon
<1>4. AccountInv'
  BY AccountStep
<1>5. ASSUME NEW c \in Client, Create(c), user' # user
      PROVE  ~Exists /\ Exists' /\ ~user'.verified /\ user'.vault = Nothing
  <2>1. ~Exists /\ user' \in User \cup {NoUser}
    BY <1>4, <1>5 DEF Create, AccountInv, AccountTypeOK
  <2>2. ~user'.verified /\ user'.vault = Nothing
    BY <1>5 DEF Create, Issue
  <2>3. Exists'
    BY <1>5, <2>1 DEF Exists
  <2> QED BY <2>1, <2>2, <2>3
<1>6. ASSUME NEW c \in Client, task[c].pc \in {"resend", "verify", "vault"}
      PROVE  Exists /\ user \in User
  BY <1>6 DEF AccountInv, AccountTypeOK, TasksAreSound, Sound, Exists
<1>7. ASSUME NEW c \in Client, SaveResend(c)
      PROVE  /\ Exists /\ Exists'
             /\ user'.verified = user.verified /\ user'.vault = user.vault
  <2>1. Exists /\ user \in User /\ task[c] \in Task /\ task[c].code \in Code
    BY <1>6, <1>7 DEF SaveResend, On, AccountInv, AccountTypeOK, TasksAreSound, Sound
  <2>2. PICK code, expires :
          /\ user' = [user EXCEPT !.code = code, !.expires = expires]
          /\ code \in Code \cup {Nothing} /\ expires \in Nat
    <3>1. \E code, expires :
            /\ code = IF task[c].code = task[c].was THEN user.code ELSE task[c].code
            /\ expires = IF task[c].until = task[c].due THEN user.expires ELSE task[c].until
      OBVIOUS
    <3> QED BY <1>7, <2>1, <3>1 DEF SaveResend, Issue, User, Task
  <2>3. user' \in User /\ user'.verified = user.verified /\ user'.vault = user.vault
    BY <2>1, <2>2 DEF User
  <2> QED BY <2>1, <2>3, NoUserIsNoDocument DEF Exists
<1>8. ASSUME NEW c \in Client, SaveVerify(c)
      PROVE  /\ Exists /\ Exists' /\ user'.vault = user.vault /\ user'.verified
             /\ On(c, "verify")
  <2>1. Exists /\ user \in User /\ On(c, "verify")
    BY <1>6, <1>8 DEF SaveVerify, On
  <2>2. user' \in User /\ user'.verified = TRUE /\ user'.vault = user.vault
    BY <1>8, <2>1 DEF SaveVerify, User
  <2> QED BY <2>1, <2>2, NoUserIsNoDocument DEF Exists
<1>9. ASSUME NEW c \in Client, SaveVault(c)
      PROVE  Exists /\ Exists' /\ user'.verified = user.verified /\ task[c].pc = "vault"
  <2>1. Exists /\ user \in User /\ task[c] \in Task /\ task[c].pc = "vault"
    BY <1>6, <1>9 DEF SaveVault, On, AccountInv, AccountTypeOK
  <2>2. user' \in User /\ user'.verified = user.verified
    BY <1>9, <2>1 DEF SaveVault, User, Task
  <2> QED BY <2>1, <2>2, NoUserIsNoDocument DEF Exists
<1> QED BY <1>1, <1>2, <1>3, <1>5, <1>7, <1>8, <1>9 DEF AccountNext

\* An address that has been verified stays so through every interleaving.
THEOREM VerificationLasts == AccountSpec => VerifiedForGood
<1> DEFINE Lasts == Exists /\ user.verified => Exists' /\ user'.verified
<1>1. ASSUME AccountInv, [AccountNext]_accountVars PROVE Lasts
  BY <1>1, DocumentChanges DEF Exists
<1>2. AccountInv /\ [AccountNext]_accountVars => [Lasts]_accountVars
  BY <1>1
<1> QED BY <1>2, AccountInvariance, PTL DEF AccountSpec, VerifiedForGood

\* Only a code the document has held, checked before its expiry, verifies.
THEOREM TimelyCodesVerify == AccountSpec => VerifiedByTimelyCode
<1> DEFINE Timely ==
      Exists' /\ user'.verified /\ ~(Exists /\ user.verified) =>
        \E c \in Client : \E i \in issued :
          On(c, "verify") /\ i[1] = task[c].code /\ task[c].asOf <= i[2]
<1>1. ASSUME AccountInv, [AccountNext]_accountVars PROVE Timely
  <2>1. ASSUME NEW c \in Client, On(c, "verify")
        PROVE  \E i \in issued : i[1] = task[c].code /\ task[c].asOf <= i[2]
    BY <1>1, <2>1 DEF AccountInv, TasksAreSound, Sound, On
  <2>2. Exists' /\ user'.verified /\ ~(Exists /\ user.verified) =>
          \E c \in Client : On(c, "verify")
    BY <1>1, DocumentChanges DEF Exists
  <2> QED BY <2>1, <2>2
<1>2. AccountInv /\ [AccountNext]_accountVars => [Timely]_accountVars
  BY <1>1
<1> QED BY <1>2, AccountInvariance, PTL DEF AccountSpec, VerifiedByTimelyCode

\* Where a handler about to set the verifier comes from.
LEMMA VaultOrigin ==
  ASSUME AccountInv, [AccountNext]_accountVars, NEW c \in Client, task'[c].pc = "vault"
  PROVE  \/ task'[c] = task[c]
         \/ c \in Setters /\ user' = user /\ user.vault = Nothing
<1>1. task \in [Client -> Task] /\ NoTask.pc = "idle" /\ task[c] \in Task
  BY DEF AccountInv, AccountTypeOK, NoTask
<1>2. ASSUME NEW d \in Client, NEW q, Turn(d, q), q.pc # "vault"
      PROVE  task'[c] = task[c]
  BY <1>1, <1>2 DEF Turn
<1>3. CASE UNCHANGED task
  BY <1>3
<1>4. ASSUME NEW d \in Client, ClientNext(d)
      PROVE  \/ \E q : Turn(d, q) /\ q.pc # "vault"
             \/ \E v \in Verifier : d \in Setters /\ SetVault(d, v)
  <2>1. CASE Signup(d)
    <3> DEFINE q == [NoTask EXCEPT !.pc = "hash"]
    <3>1. Turn(d, q) /\ q.pc = "hash"
      BY <2>1 DEF Signup, NoTask
    <3> QED BY <3>1
  <2>2. ASSUME NEW code \in Code, Draw(d, code) PROVE \E q : Turn(d, q) /\ q.pc # "vault"
    <3> DEFINE q == [NoTask EXCEPT !.pc = "create", !.code = code, !.until = moment + CodeLife]
    <3>1. Turn(d, q) /\ q.pc = "create"
      BY <2>2 DEF Draw, NoTask
    <3> QED BY <3>1
  <2>3. ASSUME NEW code \in Code, Resend(d, code) PROVE \E q : Turn(d, q) /\ q.pc # "vault"
    <3> DEFINE q == [NoTask EXCEPT !.pc = "resend", !.code = code, !.until = moment + CodeLife,
                                   !.was = user.code, !.due = user.expires]
    <3>1. Turn(d, q) /\ q.pc = "resend"
      BY <2>3 DEF Resend, NoTask
    <3> QED BY <3>1
  <2>4. ASSUME NEW code \in Code, Verify(d, code) PROVE \E q : Turn(d, q) /\ q.pc # "vault"
    <3> DEFINE q == [NoTask EXCEPT !.pc = "verify", !.code = code, !.asOf = moment]
    <3>1. Turn(d, q) /\ q.pc = "verify"
      BY <2>4 DEF Verify, NoTask
    <3> QED BY <3>1
  <2>5. ASSUME NEW doc, Issue(d, doc) PROVE \E q : Turn(d, q) /\ q.pc # "vault"
    <3> DEFINE q == [task[d] EXCEPT !.pc = "mail"]
    <3>1. task[d] \in Task
      BY <1>1
    <3>2. Turn(d, q) /\ q.pc = "mail"
      BY <2>5, <3>1 DEF Issue, Task
    <3> QED BY <3>2
  <2>6. CASE Reply(d)
    BY <1>1, <2>6 DEF Reply
  <2> QED
    BY <1>4, <2>1, <2>2, <2>3, <2>4, <2>5, <2>6
       DEF ClientNext, Create, SendOtp, SaveResend, SaveVerify, SaveVault, Abandon
<1>5. ASSUME NEW d \in Client, NEW v \in Verifier, d \in Setters, SetVault(d, v)
      PROVE  \/ task'[c] = task[c]
             \/ c \in Setters /\ user' = user /\ user.vault = Nothing
  BY <1>1, <1>5 DEF SetVault, Turn
<1> QED BY <1>2, <1>3, <1>4, <1>5 DEF AccountNext, accountVars, Pass

\* With one slot that may set it, the verifier is still missing when it is saved.
LEMMA VaultStep ==
  ASSUME AccountInv, VaultIsFree, SingleSetter, [AccountNext]_accountVars
  PROVE  VaultIsFree'
<1> SUFFICES ASSUME NEW c \in Client, task'[c].pc = "vault"
             PROVE  c \in Setters /\ user'.vault = Nothing
  BY DEF VaultIsFree
<1>1. CASE c \in Setters /\ user' = user /\ user.vault = Nothing
  BY <1>1
<1>2. CASE task'[c] = task[c]
  <2>1. c \in Setters /\ user.vault = Nothing /\ Exists
    BY <1>2 DEF VaultIsFree, AccountInv, TasksAreSound, Sound
  <2>2. ASSUME NEW d \in Client, SaveVault(d) PROVE FALSE
    <3>1. d = c
      BY <2>1, <2>2 DEF VaultIsFree, SingleSetter, SaveVault, On
    <3>2. task'[c] = NoTask
      BY <2>2, <3>1 DEF SaveVault, Reply, Turn, AccountInv, AccountTypeOK
    <3> QED BY <3>2 DEF NoTask
  <2>3. user'.vault = user.vault
    <3>1. user \in User
      BY <2>1 DEF AccountInv, AccountTypeOK, Exists
    <3>2. ASSUME NEW d \in Client, SaveResend(d) \/ SaveVerify(d)
          PROVE  user'.vault = user.vault
      BY <3>1, <3>2 DEF SaveResend, SaveVerify, Issue, User
    <3>3. user' = user \/ \E d \in Client : SaveResend(d) \/ SaveVerify(d)
      BY <2>1, <2>2
         DEF AccountNext, accountVars, Pass, ClientNext, Signup, Draw, Create, SendOtp, Resend,
             Verify, SetVault, Abandon
    <3> QED BY <3>2, <3>3
  <2> QED BY <2>1, <2>3
<1> QED BY <1>1, <1>2, VaultOrigin

\* As long as one request at a time may set the verifier, it is set once.
THEOREM OneSetterSetsOnce == SingleSetter /\ AccountSpec => VaultIsSetOnce
<1> DEFINE Once == Exists /\ user.vault # Nothing => Exists' /\ user'.vault = user.vault
<1>1. AccountInit => VaultIsFree
  BY AccountStart
<1>2. SingleSetter /\ AccountInv /\ VaultIsFree /\ [AccountNext]_accountVars => VaultIsFree'
  BY VaultStep
<1>3. SingleSetter => []SingleSetter
  <2>1. SingleSetter => SingleSetter'
    BY DEF SingleSetter
  <2> QED BY <2>1, PTL
<1>4. ASSUME AccountInv, VaultIsFree, [AccountNext]_accountVars PROVE Once
  <2>1. CASE user' = user
    BY <2>1 DEF Exists
  <2>2. CASE \E c \in Client : task[c].pc = "vault"
    BY <1>4, <2>2 DEF VaultIsFree
  <2> QED BY <1>4, <2>1, <2>2, DocumentChanges
<1>5. AccountInv /\ VaultIsFree /\ [AccountNext]_accountVars => [Once]_accountVars
  BY <1>4
<1> QED BY <1>1, <1>2, <1>3, <1>5, AccountInvariance, PTL DEF AccountSpec, VaultIsSetOnce

=============================================================================
