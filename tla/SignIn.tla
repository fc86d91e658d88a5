------------------------------- MODULE SignIn -------------------------------
(***************************************************************************)
(* The administrator's way in: the login limiter, sessions and the reset   *)
(* of the password by the init command.  The limiter is asked before the   *)
(* password is verified on a blocking thread and told afterwards, so       *)
(* logins of one source overlap.  One source address is modelled: the      *)
(* limiter keeps the others apart.  Time is a discrete tick; ages and      *)
(* remaining lifetimes are kept instead of instants.                       *)
(***************************************************************************)
EXTENDS Naturals, FiniteSets

CONSTANTS Logins,       \* requests of the source that may be open at a time
          Sessions,     \* session rows
          MaxFailures,  \* session.login_max_failures, at least 1
          Window,       \* length of the limiter's window, in ticks
          Lifetime,     \* session.ttl_hours, in ticks
          MaxPasswords, \* bound on passwords ever set
          NoSession

ASSUME SignInAssumption ==
    /\ MaxFailures \in Nat \ {0} /\ Window \in Nat \ {0}
    /\ Lifetime \in Nat \ {0} /\ MaxPasswords \in Nat
    /\ IsFiniteSet(Logins) /\ Logins # {}

VARIABLES attempts, \* the limiter's entry: failures and age of its window
          login,    \* the handlers
          session,  \* the sessions table
          admin,    \* the administrator's current password, 0: no such row
          process,  \* who holds the data-dir lock
          wrong,    \* wrong guesses answered, per tick, since the last success
          reported  \* the last password whose reset was reported as done

signInVars == <<attempts, login, session, admin, process, wrong, reported>>

NoEntry == [failures |-> 0, age |-> 0]
Nowhere == [step |-> "idle"]
Guesses == 2 * (MaxFailures + Cardinality(Logins) - 1) - 1
Processes == {"none", "serve", "open", "init", "revoke"}

SignInInit ==
    /\ attempts = NoEntry
    /\ login = [l \in Logins |-> Nowhere]
    /\ session = [s \in Sessions |-> NoSession]
    /\ admin = 0
    /\ process = "none"
    /\ wrong = [t \in 1..Window |-> 0]
    /\ reported = 0

Serving == process \in {"serve", "open"}

-----------------------------------------------------------------------------
(* The limiter.                                                            *)

\* check: a full window refuses until it is over.
Allowed == ~(attempts.failures >= MaxFailures /\ attempts.age < Window)

\* Mutant: every failure starts a window of its own.
RecordFailureAlone ==
    /\ attempts' = [failures |-> 1, age |-> 0]
    /\ wrong' = [wrong EXCEPT ![1] = @ + 1]

\* record_failure: a window that is over starts again with this failure.
RecordFailure ==
    /\ attempts' = IF attempts.failures = 0 \/ attempts.age >= Window
                   THEN [failures |-> 1, age |-> 0]
                   ELSE [attempts EXCEPT !.failures = @ + 1]
    /\ wrong' = [wrong EXCEPT ![1] = @ + 1]

\* record_success forgets the source.
RecordSuccess == attempts' = NoEntry /\ wrong' = [t \in 1..Window |-> 0]

-----------------------------------------------------------------------------
(* Logging in.                                                             *)

Active(s) == session[s] # NoSession /\ session[s].left > 0 /\ ~session[s].revoked

\* sessions::create after purge_expired: expired rows make room.
NewSessionRow(password) ==
    LET purged == [s \in Sessions |->
                     IF session[s] # NoSession /\ session[s].left = 0
                     THEN NoSession ELSE session[s]]
    IN  \E s \in Sessions :
          /\ purged[s] = NoSession
          /\ session' = [purged EXCEPT ![s] =
                 [left |-> Lifetime, revoked |-> FALSE, password |-> password]]

\* The limiter lets the request pass and the stored hash is read; without an
\* administrator the attempt still counts.
StartLogin(l) ==
    /\ Serving /\ login[l] = Nowhere
    /\ Allowed
    /\ IF admin = 0
       THEN RecordFailure /\ UNCHANGED login
       ELSE /\ login' = [login EXCEPT ![l] = [step |-> "verify", hash |-> admin]]
            /\ UNCHANGED <<attempts, wrong>>
    /\ UNCHANGED <<session, admin, process, reported>>

\* Verification comes back wrong, right, or not at all (an unusable hash, a
\* lost task or a closed connection count as nothing).
Verified(l) ==
    /\ login[l].step = "verify"
    /\ \/ RecordFailure /\ login' = [login EXCEPT ![l] = Nowhere]
       \/ RecordSuccess /\ login' = [login EXCEPT ![l].step = "create"]
       \/ UNCHANGED <<attempts, wrong>> /\ login' = [login EXCEPT ![l] = Nowhere]
    /\ UNCHANGED <<session, admin, process, reported>>

CreateSession(l) ==
    /\ login[l].step = "create"
    /\ NewSessionRow(login[l].hash)
    /\ login' = [login EXCEPT ![l] = Nowhere]
    /\ UNCHANGED <<attempts, admin, process, wrong, reported>>

\* auto_session: with logins turned off a GET without a live session gets one.
AutoSession ==
    /\ process = "open" /\ admin # 0
    /\ NewSessionRow(admin)
    /\ UNCHANGED <<attempts, login, admin, process, wrong, reported>>

\* logout: revokes the session the guard has just found active.
Logout(s) ==
    /\ Serving /\ Active(s)
    /\ session' = [session EXCEPT ![s].revoked = TRUE]
    /\ UNCHANGED <<attempts, login, admin, process, wrong, reported>>

-----------------------------------------------------------------------------
(* Processes: serve and init exclude each other by the data-dir lock.      *)

StartServe ==
    /\ process = "none"
    /\ process' \in {"serve", "open"}
    /\ UNCHANGED <<attempts, login, session, admin, wrong, reported>>

\* Mutant: the new hash is all there is to a reset.
SetPasswordOnly ==
    /\ process = "none" /\ admin < MaxPasswords
    /\ admin' = admin + 1 /\ process' = "init"
    /\ UNCHANGED <<attempts, login, session, wrong, reported>>

\* init with a password: the row is inserted or its hash replaced ...
SetPassword ==
    /\ process = "none" /\ admin < MaxPasswords
    /\ admin' = admin + 1
    /\ process' = IF admin = 0 THEN "init" ELSE "revoke"
    /\ UNCHANGED <<attempts, login, session, wrong, reported>>

\* ... and, in a statement of its own, every session is revoked.
RevokeAll ==
    /\ process = "revoke"
    /\ session' = [s \in Sessions |-> IF session[s] = NoSession THEN NoSession
                                      ELSE [session[s] EXCEPT !.revoked = TRUE]]
    /\ process' = "init"
    /\ UNCHANGED <<attempts, login, admin, wrong, reported>>

\* init reports and exits.
FinishInit ==
    /\ process = "init"
    /\ reported' = admin
    /\ process' = "none"
    /\ UNCHANGED <<attempts, login, session, admin, wrong>>

\* A process ends, by itself or killed: handlers and limiter are memory.
EndProcess ==
    /\ process # "none"
    /\ process' = "none"
    /\ IF Serving
       THEN /\ attempts' = NoEntry
            /\ wrong' = [t \in 1..Window |-> 0]
            /\ login' = [l \in Logins |-> Nowhere]
       ELSE UNCHANGED <<attempts, login, wrong>>
    /\ UNCHANGED <<session, admin, reported>>

\* A tick of the clock: sessions age; prune drops what is three windows old.
Tick ==
    /\ attempts' = IF attempts = NoEntry \/ attempts.age + 1 >= 3 * Window
                   THEN NoEntry ELSE [attempts EXCEPT !.age = @ + 1]
    /\ session' = [s \in Sessions |->
                     IF session[s] # NoSession /\ session[s].left > 0
                     THEN [session[s] EXCEPT !.left = @ - 1] ELSE session[s]]
    /\ wrong' = [t \in 1..Window |-> IF t = 1 THEN 0 ELSE wrong[t - 1]]
    /\ UNCHANGED <<login, admin, process, reported>>

SignInNext ==
    \/ \E l \in Logins : StartLogin(l) \/ Verified(l) \/ CreateSession(l)
    \/ AutoSession
    \/ \E s \in Sessions : Logout(s)
    \/ StartServe \/ SetPassword \/ RevokeAll \/ FinishInit \/ EndProcess
    \/ Tick

SignInSpec == SignInInit /\ [][SignInNext]_signInVars

-----------------------------------------------------------------------------
SignInTypeOK ==
    /\ attempts \in [failures : 0..Guesses, age : 0..3 * Window - 1]
    /\ \A s \in Sessions : session[s] # NoSession =>
          session[s] \in [left : 0..Lifetime, revoked : BOOLEAN,
                          password : 1..MaxPasswords]
    /\ admin \in 0..MaxPasswords /\ reported \in 0..MaxPasswords
    /\ process \in Processes
    /\ wrong \in [1..Window -> Nat]

\* However logins overlap and wherever windows begin, no stretch of Window
\* ticks without a success answers more wrong guesses than two windows can
\* hold between them, each full window stretched by the other open logins.
GuessesAreBounded ==
    LET total[t \in 0..Window] == IF t = 0 THEN 0 ELSE total[t - 1] + wrong[t]
    IN  total[Window] <= Guesses

\* Once a password reset has been reported, no session that a former password
\* opened is accepted any more - one created by a login that had read the
\* old hash before included.
ResetEndsSessions ==
    \A s \in Sessions : Active(s) => session[s].password >= reported

=============================================================================
