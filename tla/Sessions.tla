-------------------------------- MODULE Sessions --------------------------------
(***************************************************************************)
(* Sign-in, token refresh and sign-out (app/routers/auth.py,               *)
(* app/security.py, app/dependencies.py).                                  *)
(*                                                                         *)
(* A session row holds the identity of the only refresh token that is      *)
(* accepted.  Requests read rows without locks; what they commit is the    *)
(* columns that differ from what they read.  Tokens are numbered in the    *)
(* order in which they are minted.                                         *)
(***************************************************************************)
EXTENDS Naturals, FiniteSets

CONSTANTS
    SignIns,         \* the identities of sessions
    Calls,           \* the requests that may be in flight at a time
    MaxAttemptCount, \* login_max_failed_attempts
    MaxTokens        \* bound on the refresh tokens that are minted

ASSUME SessionsAssumption == MaxAttemptCount \in Nat \ {0} /\ MaxTokens \in Nat

VARIABLES
    credential,  \* the failed attempts and the lock of the user's password
    sessions,    \* sessions[s]: the row of session s
    minted,      \* the number of refresh tokens so far
    calls        \* calls[c]: the request in slot c, between its read and its commit

sessionVars == <<credential, sessions, minted, calls>>

\* A lock is set for a time and expires.
LockStates == {"none", "locked", "expired"}
NoSession == [exists |-> FALSE, token |-> 0, revoked |-> FALSE]
IdleCall == [pc |-> "idle"]

SessionsInit ==
    /\ credential = [failed |-> 0, lock |-> "none"]
    /\ sessions = [s \in SignIns |-> NoSession]
    /\ minted = 0
    /\ calls = [c \in Calls |-> IdleCall]

Respond(c) == calls' = [calls EXCEPT ![c] = IdleCall]
IsOpen(s) == sessions[s].exists /\ ~sessions[s].revoked

\* A token that no other session was ever given.
Mint == minted < MaxTokens /\ minted' = minted + 1

BeginLogin(c, s, correct) ==
    /\ calls[c].pc = "idle" /\ ~sessions[s].exists
    /\ \A d \in Calls : calls[d].pc = "login" => calls[d].session # s
    /\ calls' = [calls EXCEPT ![c] =
            [pc |-> "login", session |-> s, read |-> credential,
             valid |-> correct /\ credential.lock # "locked"]]
    /\ UNCHANGED <<credential, sessions, minted>>

\* A refused login counts what it has read plus one; at the limit it locks.
RefuseLogin(c) ==
    LET failed == calls[c].read.failed + 1
    IN  /\ calls[c].pc = "login" /\ ~calls[c].valid
        /\ credential' = IF failed >= MaxAttemptCount
                         THEN [failed |-> IF calls[c].read.failed = 0 THEN credential.failed ELSE 0,
                               lock |-> "locked"]
                         ELSE [credential EXCEPT !.failed = failed]
        /\ Respond(c)
        /\ UNCHANGED <<sessions, minted>>

\* A login that succeeds resets the columns that were set when it read them.
AcceptLogin(c) ==
    /\ calls[c].pc = "login" /\ calls[c].valid
    /\ Mint
    /\ credential' = [failed |-> IF calls[c].read.failed = 0 THEN credential.failed ELSE 0,
                      lock |-> IF calls[c].read.lock = "none" THEN credential.lock ELSE "none"]
    /\ sessions' = [sessions EXCEPT ![calls[c].session] =
                        [exists |-> TRUE, token |-> minted', revoked |-> FALSE]]
    /\ Respond(c)

LockExpires ==
    /\ credential.lock = "locked"
    /\ credential' = [credential EXCEPT !.lock = "expired"]
    /\ UNCHANGED <<sessions, minted, calls>>

\* A refresh reads the session: its token must be the session's.
BeginRefresh(c, s, token) ==
    /\ calls[c].pc = "idle"
    /\ IsOpen(s) /\ sessions[s].token = token
    /\ calls' = [calls EXCEPT ![c] = [pc |-> "refresh", session |-> s, read |-> sessions[s]]]
    /\ UNCHANGED <<credential, sessions, minted>>

\* The row is written as it was read.
MutantRotated(row, read, token) == [read EXCEPT !.token = token]

\* The token is the only column of these that a refresh writes.
Rotated(row, read, token) == [row EXCEPT !.token = token]

CommitRefresh(c) ==
    /\ calls[c].pc = "refresh"
    /\ Mint
    /\ sessions' = [sessions EXCEPT ![calls[c].session] = Rotated(@, calls[c].read, minted')]
    /\ Respond(c)
    /\ UNCHANGED credential

\* A principal whose session is open signs out.
Logout(s) ==
    /\ IsOpen(s)
    /\ sessions' = [sessions EXCEPT ![s].revoked = TRUE]
    /\ UNCHANGED <<credential, minted, calls>>

SessionsNext ==
    \/ \E c \in Calls : \/ \E s \in SignIns : \/ \E correct \in BOOLEAN : BeginLogin(c, s, correct)
                                              \/ \E token \in 1..minted : BeginRefresh(c, s, token)
                        \/ RefuseLogin(c) \/ AcceptLogin(c) \/ CommitRefresh(c)
    \/ \E s \in SignIns : Logout(s)
    \/ LockExpires

SessionsSpec == SessionsInit /\ [][SessionsNext]_sessionVars

(***************************************************************************)
(* Properties.                                                             *)
(***************************************************************************)
SessionsTypeOK ==
    /\ credential.failed \in 0..MaxAttemptCount - 1 /\ credential.lock \in LockStates
    /\ \A s \in SignIns : sessions[s].token \in 0..minted
    /\ \A s, t \in SignIns : sessions[s].exists /\ sessions[t].exists /\ sessions[s].token = sessions[t].token => s = t

\* A sign-out is final: no refresh that was in flight opens the session again, and
\* the rows keep their tokens in the order in which they were minted.
LogoutIsFinal ==
    [][\A s \in SignIns : /\ sessions[s].revoked => sessions'[s].revoked
                          /\ sessions'[s].token # sessions[s].token => sessions'[s].token = minted']_sessionVars
=================================================================================
