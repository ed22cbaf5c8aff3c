------------------------------ MODULE TokenChain ------------------------------
(* What refresh-token rotation promises, with nothing of how it is done: a    *)
(* session has at most one live token; a token that is rotated away is never  *)
(* live again; a session that has ended is never reopened.                    *)
EXTENDS Naturals

CONSTANTS
  Session,    \* session ids
  Token,      \* refresh tokens
  None        \* no live token (and no token)

VARIABLES
  current,    \* the live token of each session, if it has one
  used        \* per session, every token that is or was live

chainVars == <<current, used>>

Install(s, t) ==
  /\ t \notin used[s]
  /\ current' = [current EXCEPT ![s] = t]
  /\ used' = [used EXCEPT ![s] = @ \cup {t}]

Open(s, t) == used[s] = {} /\ Install(s, t)

Rotate(s, t) == current[s] # None /\ Install(s, t)

Close(s) ==
  /\ current[s] # None
  /\ current' = [current EXCEPT ![s] = None]
  /\ UNCHANGED used

Init ==
  /\ current = [s \in Session |-> None]
  /\ used = [s \in Session |-> {}]

Next == \E s \in Session : Close(s) \/ \E t \in Token : Open(s, t) \/ Rotate(s, t)

Spec == Init /\ [][Next]_chainVars

=============================================================================
