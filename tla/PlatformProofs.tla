--------------------------- MODULE PlatformProofs ---------------------------
(***************************************************************************)
(* What the server stands on, for any number of processes, tabs, files and *)
(* keys: a reset ends every session and guesses are bounded; keys stay     *)
(* readable; assets keep their content; a sealed manual is what its sealer *)
(* saw; servers run as they were checked; a restore is whole or refused.   *)
(***************************************************************************)
EXTENDS MCPlatform, ContentProofs

-----------------------------------------------------------------------------
(* The way in: sessions and the limiter.                                   *)

SessionRow == [left : 0 .. Lifetime, revoked : BOOLEAN, password : Nat \ {0}]

\* Sessions are rows that a password up to the current one opened, none
\* before the reported one.
SessionsAreKnown ==
    /\ session = [s \in Sessions |-> session[s]]
    /\ \A s \in Sessions : session[s] # NoSession =>
          /\ session[s] \in SessionRow
          /\ session[s].password <= admin
          /\ Active(s) => session[s].password >= reported

\* A login that is under way read the current hash: the password changes
\* only while no server runs.
LoginsAreCurrent ==
    \A l \in Logins :
        \/ login[l] = Nowhere
        \/ /\ Serving /\ admin # 0
           /\ login[l] \in [step : {"verify", "create"}, hash : {admin}]

\* Between the revocation and the report nobody can come in.
RevokedBeforeReport == process = "init" => \A s \in Sessions : ~Active(s)

SignInInv ==
    /\ process \in Processes
    /\ admin \in 0 .. MaxPasswords /\ reported \in Nat /\ reported <= admin
    /\ DOMAIN login = Logins
    /\ SessionsAreKnown
    /\ LoginsAreCurrent
    /\ RevokedBeforeReport

\* The invariant holds in the beginning, when there is no administrator.
LEMMA SignInBegins == SignInInit => SignInInv
  BY SignInAssumption
     DEF SignInInit, SignInInv, Processes, SessionsAreKnown, LoginsAreCurrent,
         RevokedBeforeReport, Active, Nowhere

\* A session opened with the current password, beside those that are left
\* after expired ones were purged, keeps the sessions known.
LEMMA NewSessionIsKnown ==
    ASSUME SignInInv, admin # 0, NewSessionRow(admin), UNCHANGED <<admin, reported>>
    PROVE  SessionsAreKnown'
<1> DEFINE purged == [s \in Sessions |->
                        IF session[s] # NoSession /\ session[s].left = 0
                        THEN NoSession ELSE session[s]]
           stage == [left |-> Lifetime, revoked |-> FALSE, password |-> admin]
<1>1. PICK n \in Sessions : session' = [purged EXCEPT ![n] = stage]
  BY DEF NewSessionRow
<1>2. stage \in SessionRow /\ stage.password = admin
  BY SignInAssumption DEF SignInInv, SessionRow
<1>3. \A s \in Sessions \ {n} : session'[s] = session[s] \/ session'[s] = NoSession
  BY <1>1
<1>4. session'[n] = stage
  BY <1>1
<1>5. session' = [s \in Sessions |-> session'[s]]
  BY <1>1
<1> HIDE DEF stage
<1>6. \A s \in Sessions : session'[s] # NoSession =>
          /\ session'[s] \in SessionRow
          /\ session'[s].password <= admin
          /\ Active(s)' => session'[s].password >= reported
  <2> SUFFICES ASSUME NEW s \in Sessions, session'[s] # NoSession
               PROVE  /\ session'[s] \in SessionRow
                      /\ session'[s].password <= admin
                      /\ Active(s)' => session'[s].password >= reported
    OBVIOUS
  <2>1. CASE s = n
    BY <2>1, <1>2, <1>4 DEF SignInInv
  <2>2. CASE s # n
    BY <2>2, <1>3 DEF SignInInv, SessionsAreKnown, Active
  <2> QED
    BY <2>1, <2>2
<1> QED
  BY <1>5, <1>6 DEF SessionsAreKnown

\* Logins come, are verified and end; none of it touches a session.
LEMMA LoginKeeps ==
    ASSUME SignInInv, NEW l \in Logins, StartLogin(l) \/ Verified(l)
    PROVE  SignInInv'
<1>1. UNCHANGED <<session, admin, process, reported>>
  BY DEF StartLogin, Verified
<1>2. DOMAIN login' = Logins /\ \A k \in Logins \ {l} : login'[k] = login[k]
  BY DEF StartLogin, Verified, SignInInv
<1>3. \/ login'[l] = Nowhere
      \/ /\ Serving /\ admin # 0
         /\ login'[l] \in [step : {"verify", "create"}, hash : {admin}]
  <2>1. CASE StartLogin(l)
    BY <2>1 DEF StartLogin, SignInInv, LoginsAreCurrent
  <2>2. CASE Verified(l)
    <3>1. login[l] # Nowhere
      BY <2>2 DEF Verified, Nowhere
    <3>2. /\ Serving /\ admin # 0
          /\ login[l] \in [step : {"verify", "create"}, hash : {admin}]
      BY <3>1 DEF SignInInv, LoginsAreCurrent
    <3>3. login'[l] \in {login[l], Nowhere, [login[l] EXCEPT !.step = "create"]}
      BY <2>2 DEF Verified, SignInInv
    <3> QED
      BY <3>2, <3>3
  <2> QED
    BY <2>1, <2>2
<1>4. LoginsAreCurrent'
  BY <1>1, <1>2, <1>3 DEF SignInInv, LoginsAreCurrent, Serving
<1> QED
  BY <1>1, <1>2, <1>4 DEF SignInInv, SessionsAreKnown, RevokedBeforeReport, Active

\* A session opened by a login, or without one where logins are turned off.
LEMMA OpeningKeeps ==
    ASSUME SignInInv, AutoSession \/ \E l \in Logins : CreateSession(l)
    PROVE  SignInInv'
<1>1. UNCHANGED <<admin, process, reported>> /\ Serving /\ admin # 0
  BY DEF SignInInv, LoginsAreCurrent, AutoSession, CreateSession, Serving, Nowhere
<1>2. NewSessionRow(admin)
  BY DEF SignInInv, LoginsAreCurrent, AutoSession, CreateSession, Nowhere
<1>3. SessionsAreKnown'
  BY <1>1, <1>2, NewSessionIsKnown
<1>4. DOMAIN login' = Logins /\ LoginsAreCurrent'
  BY <1>1 DEF SignInInv, LoginsAreCurrent, AutoSession, CreateSession, Serving
<1> QED
  BY <1>1, <1>3, <1>4 DEF SignInInv, RevokedBeforeReport, Serving

\* Logout and the clock only end sessions.
LEMMA EndingKeeps ==
    ASSUME SignInInv, Tick \/ \E s \in Sessions : Logout(s)
    PROVE  SignInInv'
<1>1. UNCHANGED <<login, admin, process, reported>>
  BY DEF Tick, Logout
<1>2. /\ session' = [s \in Sessions |-> session'[s]]
      /\ \A s \in Sessions : session'[s] # NoSession =>
            /\ session[s] # NoSession
            /\ session'[s] \in SessionRow
            /\ session'[s].password = session[s].password
            /\ Active(s)' => Active(s)
  <2>1. CASE Tick
    <3>1. session' = [s \in Sessions |->
                        IF session[s] # NoSession /\ session[s].left > 0
                        THEN [session[s] EXCEPT !.left = @ - 1] ELSE session[s]]
      BY <2>1 DEF Tick
    <3>2. ASSUME NEW s \in Sessions, session'[s] # NoSession
          PROVE  /\ session[s] # NoSession
                 /\ session'[s] \in SessionRow
                 /\ session'[s].password = session[s].password
                 /\ Active(s)' => Active(s)
      <4>1. /\ session[s] # NoSession
            /\ session[s] \in SessionRow /\ session[s].left \in 0 .. Lifetime
        BY <3>1, <3>2 DEF SignInInv, SessionsAreKnown, SessionRow
      <4>2. CASE session[s].left > 0
        <5>1. PICK left \in 0 .. Lifetime : left = session[s].left - 1
          BY <4>1, <4>2, SignInAssumption
        <5>2. session'[s] = [session[s] EXCEPT !.left = left]
          BY <3>1, <4>1, <4>2, <5>1
        <5>3. /\ session'[s] \in SessionRow /\ session'[s].revoked = session[s].revoked
              /\ session'[s].password = session[s].password
          BY <4>1, <5>1, <5>2 DEF SessionRow
        <5> QED
          BY <4>1, <4>2, <5>3 DEF Active
      <4>3. CASE ~(session[s].left > 0)
        BY <3>1, <4>1, <4>3 DEF Active
      <4> QED
        BY <4>2, <4>3
    <3> QED
      BY <3>1, <3>2
  <2>2. CASE \E s \in Sessions : Logout(s)
    <3>1. PICK n \in Sessions : Logout(n)
      BY <2>2
    <3> DEFINE out == [session[n] EXCEPT !.revoked = TRUE]
    <3>2. /\ session[n] # NoSession /\ out \in SessionRow /\ out.revoked
          /\ out.password = session[n].password
      BY <3>1 DEF Logout, Active, SignInInv, SessionsAreKnown, SessionRow
    <3>3. session' = [session EXCEPT ![n] = out]
      BY <3>1 DEF Logout
    <3> HIDE DEF out
    <3> QED
      BY <3>2, <3>3 DEF SignInInv, SessionsAreKnown, Active
  <2> QED
    BY <2>1, <2>2
<1>3. SessionsAreKnown' /\ RevokedBeforeReport'
  BY <1>1, <1>2 DEF SignInInv, SessionsAreKnown, RevokedBeforeReport, Active
<1> QED
  BY <1>1, <1>3 DEF SignInInv, LoginsAreCurrent, Serving

\* Servers start and end, and the init command resets the password.
LEMMA ProcessKeeps ==
    ASSUME SignInInv,
           StartServe \/ SetPassword \/ RevokeAll \/ FinishInit \/ EndProcess
    PROVE  SignInInv'
<1>1. CASE StartServe
  BY <1>1 DEF StartServe, SignInInv, SessionsAreKnown, LoginsAreCurrent,
              RevokedBeforeReport, Active, Serving, Processes
<1>2. CASE SetPassword
  <2>1. \A l \in Logins : login[l] = Nowhere
    BY <1>2 DEF SetPassword, SignInInv, LoginsAreCurrent, Serving
  <2>2. admin = 0 => \A s \in Sessions : session[s] = NoSession
    BY DEF SignInInv, SessionsAreKnown, SessionRow
  <2>3. UNCHANGED <<login, session, reported>> /\ admin' = admin + 1
        /\ process' = (IF admin = 0 THEN "init" ELSE "revoke")
        /\ admin' \in 0 .. MaxPasswords /\ admin < admin'
    BY <1>2, SignInAssumption DEF SetPassword, SignInInv
  <2> QED
    BY <2>1, <2>2, <2>3 DEF SignInInv, SessionsAreKnown, LoginsAreCurrent, SessionRow,
                       RevokedBeforeReport, Active, Serving, Processes
<1>3. CASE RevokeAll
  <2>1. /\ session' = [s \in Sessions |-> session'[s]]
        /\ \A s \in Sessions : session'[s] # NoSession =>
              /\ session[s] # NoSession
              /\ session'[s] \in SessionRow
              /\ session'[s].password = session[s].password
              /\ session'[s].revoked
    BY <1>3 DEF RevokeAll, SignInInv, SessionsAreKnown, SessionRow
  <2>2. UNCHANGED <<login, admin, reported>> /\ process = "revoke" /\ process' = "init"
    BY <1>3 DEF RevokeAll
  <2>3. SessionsAreKnown' /\ RevokedBeforeReport'
    BY <2>1, <2>2 DEF SignInInv, SessionsAreKnown, RevokedBeforeReport, Active
  <2> QED
    BY <2>2, <2>3 DEF SignInInv, LoginsAreCurrent, Serving, Processes
<1>4. CASE FinishInit
  <2>1. \A s \in Sessions : ~Active(s)
    BY <1>4 DEF FinishInit, SignInInv, RevokedBeforeReport
  <2> QED
    BY <1>4, <2>1 DEF FinishInit, SignInInv, SessionsAreKnown, LoginsAreCurrent,
                RevokedBeforeReport, Active, Serving, Processes
<1>5. CASE EndProcess
  <2>1. UNCHANGED <<session, admin, reported>> /\ process' = "none"
        /\ login' = IF Serving THEN [l \in Logins |-> Nowhere] ELSE login
    BY <1>5 DEF EndProcess
  <2>2. DOMAIN login' = Logins /\ \A l \in Logins : login'[l] = Nowhere
    BY <2>1 DEF SignInInv, LoginsAreCurrent
  <2> QED
    BY <2>1, <2>2 DEF SignInInv, SessionsAreKnown, LoginsAreCurrent,
                RevokedBeforeReport, Active, Serving, Processes
<1> QED
  BY <1>1, <1>2, <1>3, <1>4, <1>5

\* Every step keeps the invariant.
LEMMA SignInStep == SignInInv /\ [SignInNext]_signInVars => SignInInv'
<1> SUFFICES ASSUME SignInInv, [SignInNext]_signInVars PROVE SignInInv'
  OBVIOUS
<1>1. CASE UNCHANGED signInVars
  BY <1>1 DEF signInVars, SignInInv, SessionsAreKnown, LoginsAreCurrent,
              RevokedBeforeReport, Active, Serving
<1> QED
  BY <1>1, LoginKeeps, OpeningKeeps, EndingKeeps, ProcessKeeps DEF SignInNext

-----------------------------------------------------------------------------
(* The limiter.  A window of MaxFailures failures is stretched by the      *)
(* logins that were let in before it filled: Bound failures at most.  The  *)
(* last Window ticks see the window in force and the end of the one before *)
(* it, whose first failure they no longer see.                             *)

Bound == MaxFailures + Cardinality(Logins) - 1

Verifying == {l \in Logins : login[l].step = "verify"}

\* What the sums s of the recent wrong guesses say of the limiter's entry.
SumsFit(s) ==
    \/ attempts.failures = 0 /\ \A n \in 0 .. Window : s[n] = 0
    \/ /\ attempts.failures > 0 /\ attempts.age < Window
       /\ wrong[attempts.age + 1] > 0
       /\ s[attempts.age + 1] = attempts.failures
       /\ s[Window] - attempts.failures < Bound
    \/ /\ attempts.failures > 0 /\ attempts.age >= Window
       /\ s[Window] < attempts.failures
       /\ \A n \in 0 .. Window : n + Window <= attempts.age + 1 => s[n] = 0

WrongSums(s) == IsSum(s, wrong, Window) /\ s \in [0 .. Window -> Nat] /\ SumsFit(s)

LimiterInv ==
    /\ attempts \in [failures : 0 .. Bound, age : 0 .. 3 * Window - 1]
    /\ wrong \in [1 .. Window -> Nat]
    /\ attempts.failures = 0 => attempts.age = 0
    /\ attempts.failures > 0 /\ attempts.age < Window =>
          attempts.failures + Cardinality(Verifying) <= Bound
    /\ \E s : WrongSums(s)

\* At least one login may be open.
LEMMA BoundIsPositive ==
    /\ Bound \in Nat /\ Bound >= 1 /\ Guesses = 2 * Bound - 1
    /\ Cardinality(Logins) \in Nat /\ Cardinality(Logins) >= 1
    /\ Bound = MaxFailures + Cardinality(Logins) - 1
<1>1. Cardinality(Logins) \in Nat /\ Cardinality(Logins) # 0
  BY SignInAssumption, FS_CardinalityType, FS_EmptySet
<1> QED
  BY <1>1, SignInAssumption DEF Bound, Guesses

\* Some logins are being verified.
LEMMA VerifyingIsFinite ==
    /\ IsFiniteSet(Verifying)
    /\ Cardinality(Verifying) \in 0 .. Cardinality(Logins)
<1>1. Verifying \in SUBSET Logins
  BY DEF Verifying
<1> QED
  BY <1>1, SignInAssumption, FS_Subset, FS_CardinalityType

\* Without failures the sums are 0.
LEMMA ForgottenFits ==
    ASSUME attempts' = NoEntry, wrong' = [t \in 1 .. Window |-> 0]
    PROVE  LimiterInv'
<1> DEFINE s == [n \in 0 .. Window |-> 0]
<1>1. IsSum(s, wrong', Window)
  BY SignInAssumption DEF IsSum
<1>2. attempts'.failures = 0 /\ attempts'.age = 0
  BY DEF NoEntry
<1>3. s \in [0 .. Window -> Nat] /\ \A n \in 0 .. Window : s[n] = 0
  OBVIOUS
<1>4. \E u : WrongSums(u)'
  <2> HIDE DEF s
  <2>1. SumsFit(s)'
    BY <1>2, <1>3 DEF SumsFit
  <2>2. WrongSums(s)'
    BY <1>1, <1>3, <2>1 DEF WrongSums
  <2> QED
    BY <2>2
<1>5. attempts' \in [failures : 0 .. Bound, age : 0 .. 3 * Window - 1]
  BY BoundIsPositive, SignInAssumption DEF NoEntry
<1> QED
  BY <1>2, <1>4, <1>5 DEF LimiterInv

\* A wrong guess that the entry still has room for.
LEMMA FailureFits ==
    ASSUME LimiterInv, RecordFailure,
           attempts.failures = 0 \/ attempts.age >= Window
               => Cardinality(Verifying)' + 1 <= Bound,
           attempts.failures > 0 /\ attempts.age < Window
               => attempts.failures + 1 + Cardinality(Verifying)' <= Bound,
           Cardinality(Verifying)' \in Nat
    PROVE  LimiterInv'
<1>1. PICK s : WrongSums(s)
  BY DEF LimiterInv
<1> DEFINE u == [n \in 0 .. Window |-> IF n = 0 THEN 0 ELSE s[n] + 1]
<1>2. /\ wrong' = [wrong EXCEPT ![1] = wrong[1] + 1] /\ wrong \in [1 .. Window -> Nat]
      /\ Window \in Nat /\ 1 \in 1 .. Window
  BY SignInAssumption DEF RecordFailure, LimiterInv
<1>3. /\ wrong' \in [1 .. Window -> Nat] /\ wrong'[1] = wrong[1] + 1
      /\ \A n \in 2 .. Window : wrong'[n] = wrong[n]
      /\ \A n \in 1 .. Window : wrong[n] \in Nat
  BY <1>2
<1>4. /\ \A n \in 0 .. Window : s[n] = IF n = 0 THEN 0 ELSE s[n - 1] + wrong[n]
      /\ \A n \in 0 .. Window : s[n] \in Nat
      /\ s[0] = 0 /\ s[1] = wrong[1]
  <2>1. /\ \A n \in 0 .. Window : s[n] = IF n = 0 THEN 0 ELSE s[n - 1] + wrong[n]
        /\ \A n \in 0 .. Window : s[n] \in Nat
    BY <1>1 DEF WrongSums, IsSum
  <2>2. s[0] = 0 /\ s[1] = s[1 - 1] + wrong[1] /\ 1 - 1 = 0
    BY <1>2, <2>1
  <2> QED
    BY <1>2, <1>3, <2>1, <2>2
<1>5. /\ u \in [0 .. Window -> Nat] /\ u[0] = 0
      /\ \A n \in 1 .. Window : u[n] = s[n] + 1
  BY <1>2, <1>4
<1> HIDE DEF u
<1>6. IsSum(u, wrong', Window)
  <2>1. \A n \in 0 .. Window : u[n] = IF n = 0 THEN 0 ELSE u[n - 1] + wrong'[n]
    <3> SUFFICES ASSUME NEW n \in 0 .. Window
                 PROVE  u[n] = IF n = 0 THEN 0 ELSE u[n - 1] + wrong'[n]
      OBVIOUS
    <3>1. CASE n = 0
      BY <1>5, <3>1
    <3>2. CASE n = 1
      <4>1. u[1] = wrong[1] + 1 /\ u[0] = 0 /\ wrong'[1] = wrong[1] + 1 /\ wrong[1] \in Nat
        BY <1>2, <1>3, <1>4, <1>5
      <4> QED
        BY <3>2, <4>1
    <3>3. CASE n > 1
      <4>1. n \in 2 .. Window /\ n \in 1 .. Window /\ n - 1 \in 1 .. Window /\ n # 0
        BY <1>2, <3>3
      <4>2. u[n - 1] = s[n - 1] + 1 /\ s[n - 1] \in Nat /\ wrong[n] \in Nat
        BY <1>3, <1>4, <1>5, <4>1
      <4>3. u[n] = s[n] + 1 /\ s[n] = s[n - 1] + wrong[n] /\ wrong'[n] = wrong[n]
        BY <1>3, <1>4, <1>5, <4>1
      <4> QED
        BY <4>1, <4>2, <4>3
    <3> QED
      BY <1>2, <3>1, <3>2, <3>3
  <2> QED
    BY <1>5, <2>1 DEF IsSum
<1>7. /\ attempts.failures \in 0 .. Bound /\ attempts.age \in 0 .. 3 * Window - 1
      /\ attempts \in [failures : 0 .. Bound, age : 0 .. 3 * Window - 1]
  BY DEF LimiterInv
<1>8. SumsFit(s)
  BY <1>1 DEF WrongSums
<1>9. CASE attempts.failures = 0 \/ attempts.age >= Window
  <2>1. attempts' = [failures |-> 1, age |-> 0]
    BY <1>9 DEF RecordFailure
  <2>2. attempts'.failures = 1 /\ attempts'.age = 0
    BY <2>1
  <2>3. s[1] = 0 /\ s[Window] < Bound
    <3>1. CASE attempts.failures = 0
      <4>1. \A n \in 0 .. Window : s[n] = 0
        BY <1>8, <3>1 DEF SumsFit
      <4> QED
        BY <1>2, <4>1, BoundIsPositive
    <3>2. CASE attempts.failures # 0
      <4>1. attempts.age >= Window /\ attempts.failures > 0
        BY <1>7, <1>9, <3>2
      <4>2. /\ s[Window] < attempts.failures
            /\ \A n \in 0 .. Window : n + Window <= attempts.age + 1 => s[n] = 0
        BY <1>2, <1>7, <1>8, <4>1 DEF SumsFit
      <4>3. 1 \in 0 .. Window /\ 1 + Window <= attempts.age + 1
        BY <1>2, <1>7, <4>1
      <4>4. s[Window] \in Nat /\ Window \in 0 .. Window
        BY <1>2, <1>4
      <4> QED
        BY <1>7, <4>2, <4>3, <4>4, BoundIsPositive
    <3> QED
      BY <3>1, <3>2
  <2>4. wrong'[1] > 0 /\ u[1] = 1 /\ u[Window] - 1 < Bound
    <3>1. Window \in 1 .. Window /\ s[Window] \in Nat /\ wrong[1] \in Nat
      BY <1>2, <1>3, <1>4
    <3>2. u[1] = s[1] + 1 /\ u[Window] = s[Window] + 1
      BY <1>2, <1>5, <3>1
    <3>3. wrong'[1] > 0
      BY <1>3, <3>1
    <3>4. u[1] = 1
      BY <2>3, <3>2
    <3>5. u[Window] - 1 < Bound
      BY <2>3, <3>1, <3>2
    <3> QED
      BY <3>3, <3>4, <3>5
  <2>5. SumsFit(u)'
    BY <1>2, <2>2, <2>4 DEF SumsFit, Bound
  <2>6. attempts' \in [failures : 0 .. Bound, age : 0 .. 3 * Window - 1]
    BY <1>2, <2>1, BoundIsPositive
  <2>7. attempts'.failures + Cardinality(Verifying)' <= Bound
    BY <1>9, <2>2
  <2> QED
    BY <1>3, <1>5, <1>6, <2>2, <2>5, <2>6, <2>7 DEF LimiterInv, WrongSums, Bound
<1>10. CASE ~(attempts.failures = 0 \/ attempts.age >= Window)
  <2>1. attempts' = [attempts EXCEPT !.failures = attempts.failures + 1]
    BY <1>10 DEF RecordFailure
  <2>2. attempts'.failures = attempts.failures + 1 /\ attempts'.age = attempts.age
    BY <1>7, <2>1
  <2>3. attempts.failures > 0 /\ attempts.age < Window /\ attempts.age + 1 \in 1 .. Window
    BY <1>2, <1>7, <1>10
  <2>4. /\ wrong[attempts.age + 1] > 0 /\ s[attempts.age + 1] = attempts.failures
        /\ s[Window] - attempts.failures < Bound
    BY <1>2, <1>7, <1>8, <2>3 DEF SumsFit
  <2>5. wrong'[attempts.age + 1] > 0
    BY <1>2, <1>3, <2>3, <2>4
  <2>6. SumsFit(u)'
    <3>1. Window \in 1 .. Window /\ s[Window] \in Nat
      BY <1>2, <1>4
    <3>2. u[attempts.age + 1] = attempts.failures + 1 /\ u[Window] = s[Window] + 1
      BY <1>2, <1>5, <2>3, <2>4, <3>1
    <3>3. u[Window] - (attempts.failures + 1) < Bound /\ attempts.failures + 1 > 0
      BY <1>7, <2>4, <3>1, <3>2, BoundIsPositive
    <3> QED
      BY <2>2, <2>3, <2>5, <3>2, <3>3 DEF SumsFit, Bound
  <2>7. attempts'.failures + Cardinality(Verifying)' <= Bound
    BY <2>2, <2>3
  <2>8. attempts' \in [failures : 0 .. Bound, age : 0 .. 3 * Window - 1]
    <3>1. attempts.failures + 1 \in 0 .. Bound
      BY <1>7, <2>3, BoundIsPositive
    <3> QED
      BY <1>7, <2>1, <3>1
  <2> QED
    BY <1>3, <1>5, <1>6, <2>2, <2>3, <2>6, <2>7, <2>8 DEF LimiterInv, WrongSums, Bound
<1> QED
  BY <1>9, <1>10

\* A tick of the clock: the oldest guesses leave the sums, and the entry a
\* window that is over, or all of it when it is pruned.
LEMMA TickFits ==
    ASSUME LimiterInv, Tick
    PROVE  LimiterInv'
<1>1. PICK s : WrongSums(s)
  BY DEF LimiterInv
<1> DEFINE u == [n \in 0 .. Window |-> IF n = 0 THEN 0 ELSE s[n - 1]]
<1>2. /\ wrong' = [t \in 1 .. Window |-> IF t = 1 THEN 0 ELSE wrong[t - 1]]
      /\ Window \in Nat /\ Window >= 1 /\ Window \in 0 .. Window /\ Window - 1 \in 0 .. Window
      /\ UNCHANGED login
  BY SignInAssumption DEF Tick
<1>3. /\ \A n \in 0 .. Window : s[n] = IF n = 0 THEN 0 ELSE s[n - 1] + wrong[n]
      /\ \A n \in 0 .. Window : s[n] \in Nat
      /\ \A n \in 1 .. Window : wrong[n] \in Nat
      /\ s[0] = 0 /\ s[Window] = s[Window - 1] + wrong[Window]
  <2>1. /\ \A n \in 0 .. Window : s[n] = IF n = 0 THEN 0 ELSE s[n - 1] + wrong[n]
        /\ \A n \in 0 .. Window : s[n] \in Nat
    BY <1>1 DEF WrongSums, IsSum
  <2>2. \A n \in 1 .. Window : wrong[n] \in Nat
    BY DEF LimiterInv
  <2> QED
    BY <1>2, <2>1, <2>2
<1>4. /\ u \in [0 .. Window -> Nat] /\ u[0] = 0
      /\ \A n \in 1 .. Window : u[n] = s[n - 1]
  BY <1>2, <1>3
<1> HIDE DEF u
<1>5. /\ wrong' \in [1 .. Window -> Nat] /\ wrong'[1] = 0
      /\ \A n \in 2 .. Window : wrong'[n] = wrong[n - 1]
  <2>1. \A n \in 1 .. Window : n # 1 => wrong[n - 1] \in Nat
    BY <1>2, <1>3
  <2> QED
    BY <1>2, <2>1
<1>6. IsSum(u, wrong', Window)
  <2>1. \A n \in 0 .. Window : u[n] = IF n = 0 THEN 0 ELSE u[n - 1] + wrong'[n]
    <3> SUFFICES ASSUME NEW n \in 0 .. Window
                 PROVE  u[n] = IF n = 0 THEN 0 ELSE u[n - 1] + wrong'[n]
      OBVIOUS
    <3>1. CASE n = 0
      BY <1>4, <3>1
    <3>2. CASE n = 1
      <4>1. u[1] = s[1 - 1] /\ u[1 - 1] = 0 /\ s[1 - 1] = 0
        BY <1>2, <1>3, <1>4
      <4> QED
        BY <1>5, <3>2, <4>1
    <3>3. CASE n > 1
      <4>1. n \in 2 .. Window /\ n \in 1 .. Window /\ n - 1 \in 1 .. Window /\ n # 0
            /\ n - 1 \in 0 .. Window /\ n - 1 # 0
        BY <1>2, <3>3
      <4>2. u[n] = s[n - 1] /\ u[n - 1] = s[(n - 1) - 1] /\ wrong'[n] = wrong[n - 1]
        BY <1>4, <1>5, <4>1
      <4>3. s[n - 1] = s[(n - 1) - 1] + wrong[n - 1]
        BY <1>3, <4>1
      <4> QED
        BY <4>1, <4>2, <4>3
    <3> QED
      BY <1>2, <3>1, <3>2, <3>3
  <2> QED
    BY <1>4, <2>1 DEF IsSum
<1>7. /\ attempts \in [failures : 0 .. Bound, age : 0 .. 3 * Window - 1]
      /\ attempts.failures \in 0 .. Bound /\ attempts.age \in 0 .. 3 * Window - 1
      /\ attempts.failures = 0 => attempts.age = 0 /\ attempts = NoEntry
  BY DEF LimiterInv, NoEntry
<1>8. SumsFit(s)
  BY <1>1 DEF WrongSums
<1>9. Verifying' = Verifying /\ Bound \in Nat
  BY <1>2, BoundIsPositive DEF Verifying
<1>10. u[Window] <= s[Window] /\ u[Window] = s[Window - 1]
  BY <1>2, <1>3, <1>4
<1>11. CASE attempts = NoEntry \/ attempts.age + 1 >= 3 * Window
  <2>1. attempts' = NoEntry /\ attempts'.failures = 0 /\ attempts'.age = 0
    BY <1>11 DEF Tick, NoEntry
  <2>2. \A n \in 0 .. Window : s[n] = 0
    <3>1. CASE attempts.failures = 0
      BY <1>8, <3>1 DEF SumsFit
    <3>2. CASE attempts.failures # 0
      <4>1. attempts.age + 1 >= 3 * Window /\ attempts.failures > 0 /\ attempts.age >= Window
        BY <1>2, <1>7, <1>11, <3>2 DEF NoEntry
      <4>2. \A n \in 0 .. Window : n + Window <= attempts.age + 1 => s[n] = 0
        BY <1>2, <1>7, <1>8, <4>1 DEF SumsFit
      <4> QED
        BY <1>2, <1>7, <4>1, <4>2
    <3> QED
      BY <3>1, <3>2
  <2>3. \A n \in 0 .. Window : u[n] = 0
    <3>1. ASSUME NEW n \in 1 .. Window PROVE u[n] = 0
      <4>1. n - 1 \in 0 .. Window
        BY <1>2
      <4> QED
        BY <1>4, <2>2, <4>1
    <3> QED
      BY <1>2, <1>4, <3>1
  <2>4. SumsFit(u)'
    BY <2>1, <2>3 DEF SumsFit
  <2>5. attempts' \in [failures : 0 .. Bound, age : 0 .. 3 * Window - 1]
    BY <1>2, <1>9, <2>1 DEF NoEntry
  <2> QED
    BY <1>4, <1>5, <1>6, <2>1, <2>4, <2>5 DEF LimiterInv, WrongSums, Bound
<1>12. CASE ~(attempts = NoEntry \/ attempts.age + 1 >= 3 * Window)
  <2>1. attempts' = [attempts EXCEPT !.age = attempts.age + 1]
    BY <1>12 DEF Tick
  <2>2. /\ attempts'.failures = attempts.failures /\ attempts'.age = attempts.age + 1
        /\ attempts.age + 1 \in 0 .. 3 * Window - 1 /\ attempts.failures > 0
    BY <1>2, <1>7, <1>12, <2>1
  <2>3. attempts' \in [failures : 0 .. Bound, age : 0 .. 3 * Window - 1]
    BY <1>7, <2>1, <2>2
  <2>4. SumsFit(u)'
    <3>1. CASE attempts.age + 1 < Window
      <4>1. /\ wrong[attempts.age + 1] > 0 /\ s[attempts.age + 1] = attempts.failures
            /\ s[Window] - attempts.failures < Bound
        BY <1>2, <1>7, <1>8, <2>2, <3>1 DEF SumsFit
      <4>2. PICK k \in Nat : k = attempts.age + 1
        BY <2>2
      <4>3. k + 1 \in 2 .. Window /\ k + 1 \in 1 .. Window /\ (k + 1) - 1 = k
        BY <1>2, <1>7, <3>1, <4>2
      <4>4. wrong'[k + 1] > 0 /\ u[k + 1] = attempts.failures
        BY <1>4, <1>5, <4>1, <4>2, <4>3
      <4>5. u[Window] - attempts.failures < Bound
        BY <1>2, <1>3, <1>7, <1>9, <1>10, <4>1
      <4> QED
        BY <2>2, <3>1, <4>2, <4>4, <4>5 DEF SumsFit, Bound
    <3>2. CASE attempts.age + 1 = Window
      <4>1. wrong[Window] > 0 /\ s[Window] = attempts.failures
        BY <1>2, <1>7, <1>8, <2>2, <3>2 DEF SumsFit
      <4>2. u[Window] < attempts.failures
        <5>1. wrong[Window] \in Nat /\ s[Window - 1] \in Nat
          BY <1>2, <1>3
        <5> QED
          BY <1>3, <1>10, <4>1, <5>1
      <4>3. \A n \in 0 .. Window : n + Window <= (attempts.age + 1) + 1 => u[n] = 0
        <5>1. ASSUME NEW n \in 0 .. Window, n + Window <= (attempts.age + 1) + 1
              PROVE  u[n] = 0
          <6>1. n = 0 \/ n = 1
            BY <1>2, <3>2, <5>1
          <6>2. u[1] = s[1 - 1]
            BY <1>2, <1>4
          <6> QED
            BY <1>3, <1>4, <6>1, <6>2
        <5> QED
          BY <5>1
      <4> QED
        BY <1>2, <2>2, <3>2, <4>2, <4>3 DEF SumsFit
    <3>3. CASE attempts.age + 1 > Window
      <4>1. /\ s[Window] < attempts.failures /\ attempts.age >= Window
            /\ \A n \in 0 .. Window : n + Window <= attempts.age + 1 => s[n] = 0
        BY <1>2, <1>7, <1>8, <2>2, <3>3 DEF SumsFit
      <4>2. u[Window] < attempts.failures
        BY <1>2, <1>3, <1>4, <1>7, <1>10, <4>1
      <4>3. \A n \in 0 .. Window : n + Window <= (attempts.age + 1) + 1 => u[n] = 0
        <5>1. ASSUME NEW n \in 1 .. Window, n + Window <= (attempts.age + 1) + 1
              PROVE  u[n] = 0
          <6>1. n - 1 \in 0 .. Window /\ (n - 1) + Window <= attempts.age + 1
            BY <1>2, <1>7, <5>1
          <6> QED
            BY <1>4, <4>1, <6>1
        <5> QED
          BY <1>2, <1>4, <5>1
      <4> QED
        BY <1>2, <1>7, <2>2, <4>1, <4>2, <4>3 DEF SumsFit
    <3> QED
      BY <1>2, <2>2, <3>1, <3>2, <3>3
  <2>5. attempts'.age < Window => attempts'.failures + Cardinality(Verifying)' <= Bound
    <3>1. attempts.age < attempts.age + 1
      BY <1>7
    <3>2. attempts'.age < Window => attempts.age < Window
      BY <1>2, <1>7, <2>2
    <3> QED
      BY <1>9, <2>2, <3>2 DEF LimiterInv
  <2> QED
    BY <1>4, <1>5, <1>6, <2>2, <2>3, <2>4, <2>5 DEF LimiterInv, WrongSums, Bound
<1> QED
  BY <1>11, <1>12

\* Logins that no longer verify leave room.
LEMMA RestFits ==
    ASSUME LimiterInv, UNCHANGED <<attempts, wrong>>, Verifying' \in SUBSET Verifying
    PROVE  LimiterInv'
<1>1. /\ Cardinality(Verifying)' <= Cardinality(Verifying)
      /\ Cardinality(Verifying)' \in Nat /\ Cardinality(Verifying) \in Nat
  <2>1. PICK some \in SUBSET Verifying : some = Verifying'
    OBVIOUS
  <2> QED
    BY <2>1, VerifyingIsFinite, FS_Subset, FS_CardinalityType
<1>2. attempts.failures \in Nat /\ Bound \in Nat
  BY BoundIsPositive DEF LimiterInv
<1>3. \A s : WrongSums(s) => WrongSums(s)'
  BY DEF WrongSums, SumsFit, Bound
<1> QED
  BY <1>1, <1>2, <1>3 DEF LimiterInv, Bound

\* The limiter lets a login start, and hears how its verification ended.
LEMMA LoginFits ==
    ASSUME SignInInv, LimiterInv, NEW l \in Logins, StartLogin(l) \/ Verified(l)
    PROVE  LimiterInv'
<1>1. /\ attempts.failures \in 0 .. Bound /\ attempts.age \in 0 .. 3 * Window - 1
      /\ Window \in Nat /\ MaxFailures \in Nat /\ MaxFailures >= 1
  BY SignInAssumption DEF LimiterInv
<1>2. \A k \in Logins : login[k].step = "verify" => Serving /\ admin # 0
  BY DEF SignInInv, LoginsAreCurrent, Nowhere
<1>3. CASE StartLogin(l) /\ admin = 0
  <2>1. RecordFailure /\ UNCHANGED login /\ Allowed
    BY <1>3 DEF StartLogin
  <2>2. Verifying = {} /\ Verifying' = Verifying
    BY <1>2, <1>3, <2>1 DEF Verifying
  <2>3. Cardinality(Verifying)' = 0
    BY <2>2, FS_EmptySet
  <2>4. attempts.failures > 0 /\ attempts.age < Window => attempts.failures + 1 <= Bound
    BY <1>1, <2>1, BoundIsPositive DEF Allowed
  <2> QED
    BY <1>1, <2>1, <2>3, <2>4, FailureFits, BoundIsPositive
<1>4. CASE StartLogin(l) /\ admin # 0
  <2>1. UNCHANGED <<attempts, wrong>> /\ Allowed
    BY <1>4 DEF StartLogin
  <2>2. Cardinality(Verifying)' \in 0 .. Cardinality(Logins)
    <3>1. PICK some \in SUBSET Logins : some = Verifying'
      BY DEF Verifying
    <3> QED
      BY <3>1, SignInAssumption, FS_Subset, FS_CardinalityType
  <2>3. attempts.failures > 0 /\ attempts.age < Window =>
           attempts.failures + Cardinality(Verifying)' <= Bound
    <3>1. attempts.failures > 0 /\ attempts.age < Window => attempts.failures <= MaxFailures - 1
      BY <1>1, <2>1 DEF Allowed
    <3> QED
      BY <1>1, <2>2, <3>1, BoundIsPositive
  <2>4. \A s : WrongSums(s) => WrongSums(s)'
    BY <2>1 DEF WrongSums, SumsFit, Bound
  <2> QED
    BY <2>1, <2>3, <2>4 DEF LimiterInv, Bound
<1>5. CASE Verified(l)
  <2>1. l \in Verifying /\ DOMAIN login = Logins
    BY <1>5 DEF Verified, Verifying, SignInInv
  <2>2. /\ \A k \in Logins \ {l} : login'[k] = login[k]
        /\ login'[l].step # "verify"
    <3>1. login[l] \in [step : {"verify", "create"}, hash : {admin}]
      BY <1>5 DEF Verified, SignInInv, LoginsAreCurrent, Nowhere
    <3>2. PICK stage : stage = [login[l] EXCEPT !.step = "create"]
      OBVIOUS
    <3>3. stage.step = "create" /\ Nowhere.step = "idle"
      BY <3>1, <3>2 DEF Nowhere
    <3>4. login' = [login EXCEPT ![l] = Nowhere] \/ login' = [login EXCEPT ![l] = stage]
      BY <1>5, <3>2 DEF Verified
    <3> QED
      BY <2>1, <3>3, <3>4
  <2>3. Verifying' = Verifying \ {l}
    BY <2>1, <2>2 DEF Verifying
  <2>4. CASE RecordFailure
    <3>1. PICK some : some = Verifying \ {l}
      OBVIOUS
    <3>2. Cardinality(some) = Cardinality(Verifying) - 1 /\ Cardinality(some) \in Nat
      BY <2>1, <3>1, VerifyingIsFinite, FS_RemoveElement, FS_CardinalityType
    <3>3. Cardinality(Verifying)' = Cardinality(some)
      BY <2>3, <3>1
    <3>4. Cardinality(Verifying)' + 1 <= Bound
      BY <1>1, <3>2, <3>3, VerifyingIsFinite, BoundIsPositive
    <3>5. attempts.failures > 0 /\ attempts.age < Window =>
             attempts.failures + 1 + Cardinality(Verifying)' <= Bound
      BY <1>1, <3>2, <3>3, VerifyingIsFinite, BoundIsPositive DEF LimiterInv
    <3> QED
      BY <2>4, <3>2, <3>3, <3>4, <3>5, FailureFits
  <2>5. CASE RecordSuccess
    BY <2>5, ForgottenFits DEF RecordSuccess
  <2>6. CASE UNCHANGED <<attempts, wrong>>
    BY <2>3, <2>6, RestFits
  <2> QED
    BY <1>5, <2>4, <2>5, <2>6 DEF Verified
<1> QED
  BY <1>3, <1>4, <1>5

\* Every step keeps what is known of the limiter.
LEMMA LimiterStep ==
    ASSUME SignInInv, LimiterInv, [SignInNext]_signInVars
    PROVE  LimiterInv'
<1>1. CASE \E l \in Logins : StartLogin(l) \/ Verified(l)
  BY <1>1, LoginFits
<1>2. CASE \E l \in Logins : CreateSession(l)
  <2>1. UNCHANGED <<attempts, wrong>> /\ Verifying' \in SUBSET Verifying
    BY <1>2 DEF CreateSession, Verifying, Nowhere, SignInInv
  <2> QED
    BY <2>1, RestFits
<1>3. CASE \/ AutoSession \/ (\E s \in Sessions : Logout(s)) \/ StartServe
           \/ SetPassword \/ RevokeAll \/ FinishInit \/ UNCHANGED signInVars
  <2>1. UNCHANGED <<attempts, wrong, login>>
    BY <1>3 DEF AutoSession, Logout, StartServe, SetPassword, RevokeAll, FinishInit,
                signInVars
  <2>2. Verifying' \in SUBSET Verifying
    BY <2>1 DEF Verifying
  <2> QED
    BY <2>1, <2>2, RestFits
<1>4. CASE EndProcess
  <2>1. CASE Serving
    BY <1>4, <2>1, ForgottenFits DEF EndProcess
  <2>2. CASE ~Serving
    <3>1. UNCHANGED <<attempts, wrong, login>>
      BY <1>4, <2>2 DEF EndProcess
    <3>2. Verifying' \in SUBSET Verifying
      BY <3>1 DEF Verifying
    <3> QED
      BY <3>1, <3>2, RestFits
  <2> QED
    BY <2>1, <2>2
<1> QED
  BY <1>1, <1>2, <1>3, <1>4, TickFits DEF SignInNext

\* The limiter starts without an entry.
LEMMA LimiterBegins == SignInInit => LimiterInv
<1> SUFFICES ASSUME SignInInit PROVE LimiterInv
  OBVIOUS
<1>1. /\ attempts = NoEntry /\ wrong = [t \in 1 .. Window |-> 0]
      /\ attempts.failures = 0 /\ attempts.age = 0
  BY DEF SignInInit, NoEntry
<1> DEFINE s == [n \in 0 .. Window |-> 0]
<1>2. IsSum(s, wrong, Window)
  BY <1>1, SignInAssumption DEF IsSum
<1>3. s \in [0 .. Window -> Nat] /\ \A n \in 0 .. Window : s[n] = 0
  OBVIOUS
<1> HIDE DEF s
<1>4. WrongSums(s)
  BY <1>1, <1>2, <1>3 DEF SumsFit, WrongSums
<1>5. attempts \in [failures : 0 .. Bound, age : 0 .. 3 * Window - 1]
  BY <1>1, BoundIsPositive, SignInAssumption DEF NoEntry
<1> QED
  BY <1>1, <1>4, <1>5 DEF LimiterInv

-----------------------------------------------------------------------------
(* What follows.                                                           *)

\* The limiter, the sessions, the administrator and the processes keep their
\* types: failures of a window never exceed what the limit allows.
THEOREM SignInTyped == SignInSpec => []SignInTypeOK
<1>1. ASSUME SignInInv, LimiterInv PROVE SignInTypeOK
  <2>1. attempts \in [failures : 0 .. Guesses, age : 0 .. 3 * Window - 1]
    <3>1. Bound <= Guesses /\ Bound \in Nat /\ Guesses \in Nat
      BY BoundIsPositive
    <3>2. \A n \in 0 .. Bound : n \in 0 .. Guesses
      BY <3>1
    <3> QED
      BY <1>1, <3>2 DEF LimiterInv
  <2>2. ASSUME NEW s \in Sessions, session[s] # NoSession
        PROVE  session[s] \in [left : 0 .. Lifetime, revoked : BOOLEAN,
                               password : 1 .. MaxPasswords]
    <3>1. session[s] \in SessionRow /\ session[s].password <= admin
      BY <1>1, <2>2 DEF SignInInv, SessionsAreKnown
    <3>2. session[s].password \in 1 .. MaxPasswords
      BY <1>1, <3>1, SignInAssumption DEF SignInInv, SessionRow
    <3> QED
      BY <3>1, <3>2 DEF SessionRow
  <2>3. reported \in 0 .. MaxPasswords
    BY <1>1, SignInAssumption DEF SignInInv
  <2> QED
    BY <1>1, <2>1, <2>2, <2>3 DEF SignInInv, LimiterInv, SignInTypeOK
<1> QED
  BY <1>1, SignInBegins, SignInStep, LimiterBegins, LimiterStep, PTL DEF SignInSpec

\* Wherever its windows begin and however logins overlap, a source is told
\* of fewer than twice Bound wrong guesses in any Window ticks without a
\* success (auth/login.rs).
THEOREM GuessesStayBounded == SignInSpec => []GuessesAreBounded
<1>1. ASSUME LimiterInv PROVE GuessesAreBounded
  <2> DEFINE Adds(t) == t = [n \in 0 .. Window |-> IF n = 0 THEN 0 ELSE t[n - 1] + wrong[n]]
             total == CHOOSE t : Adds(t)
  <2>1. PICK s : WrongSums(s)
    BY <1>1 DEF LimiterInv
  <2>2. Adds(s) /\ \A t : Adds(t) <=> IsSum(t, wrong, Window)
    BY <2>1 DEF WrongSums, IsSum
  <2>3. Adds(total)
    <3> HIDE DEF Adds
    <3> QED
      BY <2>2
  <2>4. GuessesAreBounded <=> total[Window] <= Guesses
    BY DEF GuessesAreBounded
  <2>5. IsSum(total, wrong, Window) /\ IsSum(s, wrong, Window)
    BY <2>2, <2>3
  <2> HIDE DEF total
  <2>6. total[Window] = s[Window]
    BY <2>5, SumsAgree, SignInAssumption
  <2>7. s[Window] <= Guesses
    <3>1. /\ attempts.failures \in 0 .. Bound /\ attempts.age \in 0 .. 3 * Window - 1
          /\ attempts.failures > 0 /\ attempts.age < Window => attempts.failures <= Bound
          /\ Window \in 0 .. Window /\ s[Window] \in Nat /\ SumsFit(s)
      BY <1>1, <2>1, SignInAssumption DEF LimiterInv, WrongSums
    <3> QED
      BY <3>1, BoundIsPositive DEF SumsFit
  <2> QED
    BY <2>4, <2>6, <2>7
<1> QED
  BY <1>1, SignInBegins, SignInStep, LimiterBegins, LimiterStep, PTL DEF SignInSpec

\* However many logins read the old hash and sessions it opened: once a reset
\* has been reported (config/commands.rs), none of them is accepted.
THEOREM ResetsEndSessions == SignInSpec => []ResetEndsSessions
<1>1. SignInInv => ResetEndsSessions
  BY DEF SignInInv, SessionsAreKnown, ResetEndsSessions, Active
<1> QED
  BY <1>1, SignInBegins, SignInStep, PTL DEF SignInSpec

-----------------------------------------------------------------------------
(* The keys at rest.                                                       *)

\* Who is about to write has a key to write with.
WritersHaveKeys ==
    /\ overlay.kind = "cipher" => overlay.key # NoKey
    /\ \A u \in Users : IsAt(u, "write") => proc[u].known # NoKey

\* A key is generated only by who knows none.
CreatorsKnowNothing ==
    \A u \in Users : IsAt(u, "create") => proc[u].known = NoKey

\* The server that runs knows the key of the ciphertext it would replace.
ServerKnowsItsOverlay ==
    overlay.kind = "cipher" /\ ~IsAt(Server, "dead")
        => overlay.key = proc[Server].known

\* Nobody knows, and nothing was written with, any key but the one on disk.
OneKey ==
    /\ \A u \in Users : proc[u].known \in {NoKey, master}
    /\ overlay.kind = "cipher" => overlay.key = master
    /\ \A c \in Commands : output[c] \in {NoKey, master}

SecretsInv ==
    /\ SecretsTypeOK
    /\ WritersHaveKeys
    /\ CreatorsKnowNothing
    /\ ServerKnowsItsOverlay
    /\ ~tampered => OneKey

\* No key, at most the plaintext of an older version.
LEMMA SecretsBegin == SecretsInit => SecretsInv
<1> SUFFICES ASSUME SecretsInit PROVE SecretsInv
  OBVIOUS
<1>1. overlay \in [kind : {"none", "legacy"}, key : {NoKey}]
  BY DEF SecretsInit, NoOverlay
<1>2. \A u \in Users : proc[u] = [step |-> "dead", known |-> NoKey]
  BY DEF SecretsInit, Dead
<1>3. SecretsTypeOK
  BY <1>1 DEF SecretsInit, SecretsTypeOK, Dead, CallSteps
<1>4. WritersHaveKeys /\ CreatorsKnowNothing /\ ServerKnowsItsOverlay
  BY <1>1, <1>2 DEF WritersHaveKeys, CreatorsKnowNothing, ServerKnowsItsOverlay, IsAt
<1>5. OneKey
  BY <1>1, <1>2 DEF SecretsInit, OneKey
<1> QED BY <1>3, <1>4, <1>5 DEF SecretsInv

-----------------------------------------------------------------------------
(* What one step of one process does.                                      *)

\* A process that moves on without a file being written keeps what it knows,
\* or knows what is on disk.
LEMMA MoveKeeps ==
    ASSUME SecretsInv, NEW u \in Users, NEW step \in CallSteps,
           NEW known \in MasterKeys \cup {NoKey},
           proc' = [proc EXCEPT ![u] = [step |-> step, known |-> known]],
           UNCHANGED <<master, used, overlay, output, tampered>>,
           step = "write" => known # NoKey,
           step = "create" => known = NoKey,
           u = Server /\ overlay.kind = "cipher" /\ step # "dead"
              => overlay.key = known,
           ~tampered => known \in {NoKey, master}
    PROVE  SecretsInv'
<1>1. SecretsTypeOK'
  BY DEF SecretsInv, SecretsTypeOK
<1>2. \A v \in Users : proc'[v] = IF v = u THEN [step |-> step, known |-> known]
                                           ELSE proc[v]
  BY DEF SecretsInv, SecretsTypeOK
<1>3. WritersHaveKeys' /\ CreatorsKnowNothing'
  BY <1>2 DEF SecretsInv, WritersHaveKeys, CreatorsKnowNothing, IsAt
<1>4. ServerKnowsItsOverlay'
  BY <1>2 DEF SecretsInv, ServerKnowsItsOverlay, IsAt, Users
<1>5. ~tampered' => OneKey'
  BY <1>2 DEF SecretsInv, OneKey
<1> QED BY <1>1, <1>3, <1>4, <1>5 DEF SecretsInv

\* A step that changes only where the process stands.
LEMMA GoesIsMove ==
    ASSUME SecretsInv, NEW u \in Users, NEW step \in CallSteps, Goes(u, step)
    PROVE  /\ proc' = [proc EXCEPT ![u] = [step |-> step, known |-> proc[u].known]]
           /\ proc[u].known \in MasterKeys \cup {NoKey}
<1>1. proc[u] \in [step : CallSteps, known : MasterKeys \cup {NoKey}]
  BY DEF SecretsInv, SecretsTypeOK
<1>2. [proc[u] EXCEPT !.step = step] = [step |-> step, known |-> proc[u].known]
  BY <1>1
<1> QED BY <1>1, <1>2 DEF Goes

\* A call that fails leaves the process with what it knows.
LEMMA FailureKeeps ==
    ASSUME SecretsInv, NEW u \in Users, ~IsAt(u, "dead"), Goes(u, Failed(u)),
           UNCHANGED <<master, used, overlay, output, tampered>>
    PROVE  SecretsInv'
<1>1. Failed(u) \in {"idle", "dead"}
  BY DEF Failed
<1>2. Failed(u) \in CallSteps
  BY <1>1 DEF CallSteps
<1>3. /\ proc' = [proc EXCEPT ![u] = [step |-> Failed(u), known |-> proc[u].known]]
      /\ proc[u].known \in MasterKeys \cup {NoKey}
  BY <1>2, GoesIsMove
<1>4. u = Server /\ overlay.kind = "cipher" => overlay.key = proc[u].known
  BY DEF SecretsInv, ServerKnowsItsOverlay
<1>5. ~tampered => proc[u].known \in {NoKey, master}
  BY DEF SecretsInv, OneKey
<1> QED BY <1>1, <1>2, <1>3, <1>4, <1>5, MoveKeeps

\* The server starts with the key that opened its overlay.
LEMMA StartKeeps ==
    ASSUME SecretsInv, StartOverlay
    PROVE  SecretsInv'
<1>1. PICK step \in {"idle", "key"}, known \in {NoKey, master} :
         /\ proc' = [proc EXCEPT ![Server] = [step |-> step, known |-> known]]
         /\ overlay.kind = "cipher" => overlay.key = known
  BY DEF StartOverlay, Reads
<1>2. /\ Server \in Users /\ step \in CallSteps /\ step \notin {"write", "create"}
      /\ known \in MasterKeys \cup {NoKey}
  BY DEF Users, CallSteps, SecretsInv, SecretsTypeOK
<1> QED BY <1>1, <1>2, MoveKeeps DEF StartOverlay

\* A command starts knowing nothing.
LEMMA RunKeeps ==
    ASSUME SecretsInv, NEW c \in Commands, RunCommand(c)
    PROVE  SecretsInv'
<1>1. c \in Users /\ c # Server /\ "key" \in CallSteps
  BY ProviderSecretsAssumption DEF Users, CallSteps
<1> QED BY <1>1, MoveKeeps DEF RunCommand, Reads

\* A save begins with what the server knows.
LEMMA SaveKeeps ==
    ASSUME SecretsInv, NEW withKey \in BOOLEAN, SaveOverlay(withKey)
    PROVE  SecretsInv'
<1>1. PICK step \in {"key", "erase"} : Goes(Server, step)
  BY DEF SaveOverlay
<1>2. Server \in Users /\ step \in CallSteps /\ step \notin {"write", "create"}
  BY DEF Users, CallSteps
<1>3. /\ proc' = [proc EXCEPT ![Server] = [step |-> step, known |-> proc[Server].known]]
      /\ proc[Server].known \in MasterKeys \cup {NoKey}
  BY <1>1, <1>2, GoesIsMove
<1>4. overlay.kind = "cipher" => overlay.key = proc[Server].known
  BY DEF SecretsInv, ServerKnowsItsOverlay, SaveOverlay, IsAt
<1>5. ~tampered => proc[Server].known \in {NoKey, master}
  BY <1>2 DEF SecretsInv, OneKey
<1> QED BY <1>2, <1>3, <1>4, <1>5, MoveKeeps DEF SaveOverlay

\* The key on disk is taken only by who knows none or that one.
LEMMA GetKeeps ==
    ASSUME SecretsInv, NEW u \in Users, GetMaster(u)
    PROVE  SecretsInv'
<1> USE DEF CallSteps
<1>1. /\ UNCHANGED <<master, used, overlay, output, tampered>>
      /\ proc[u].step = "key"
  BY DEF GetMaster, IsAt
<1>2. CASE master # NoKey /\ proc[u].known \in {NoKey, master}
  <2>1. proc' = [proc EXCEPT ![u] = [step |-> "write", known |-> master]]
    BY <1>2 DEF GetMaster, Reads
  <2>2. u = Server /\ overlay.kind = "cipher" => overlay.key = master
    BY <1>1, <1>2 DEF SecretsInv, WritersHaveKeys, ServerKnowsItsOverlay, IsAt
  <2>3. master \in MasterKeys \cup {NoKey}
    BY DEF SecretsInv, SecretsTypeOK
  <2> QED BY <1>1, <1>2, <2>1, <2>2, <2>3, MoveKeeps
<1>3. CASE Goes(u, Failed(u))
  BY <1>1, <1>3, FailureKeeps DEF IsAt
<1>4. CASE proc[u].known = NoKey /\ Goes(u, "create")
  <2>1. /\ proc' = [proc EXCEPT ![u] = [step |-> "create", known |-> NoKey]]
        /\ NoKey \in MasterKeys \cup {NoKey}
    BY <1>4, GoesIsMove
  <2>2. u = Server /\ overlay.kind = "cipher" => overlay.key = NoKey
    BY <1>1, <1>4 DEF SecretsInv, ServerKnowsItsOverlay, IsAt
  <2> QED BY <1>1, <2>1, <2>2, MoveKeeps
<1> QED BY <1>2, <1>3, <1>4 DEF GetMaster

\* The first key is whoever's link succeeded; its maker and every loser go on
\* with the one on disk.
LEMMA CreateKeeps ==
    ASSUME SecretsInv, NEW u \in Users, NEW fresh \in MasterKeys, CreateMaster(u, fresh)
    PROVE  SecretsInv'
<1> DEFINE key == EstablishedKey(fresh)
<1>1. /\ proc' = [proc EXCEPT ![u] = [step |-> "write", known |-> key]]
      /\ UNCHANGED <<overlay, output, tampered>>
      /\ master' = key /\ used' = used \cup {fresh}
      /\ proc[u].step = "create"
  BY DEF CreateMaster, Reads, EstablishedKey, IsAt
<1>2. /\ master = NoKey => key = fresh
      /\ master # NoKey => key = master
      /\ master \in used \cup {NoKey} /\ used \subseteq MasterKeys
  BY DEF EstablishedKey, SecretsInv, SecretsTypeOK
<1>3. key \in used' /\ key \in MasterKeys /\ key # NoKey
  BY <1>1, <1>2, ProviderSecretsAssumption
<1> HIDE DEF key
<1>4. \A v \in Users : proc'[v] = IF v = u THEN [step |-> "write", known |-> key]
                                           ELSE proc[v]
  BY <1>1 DEF SecretsInv, SecretsTypeOK
<1>5. SecretsTypeOK'
  BY <1>1, <1>2, <1>3 DEF SecretsInv, SecretsTypeOK, CallSteps
<1>6. WritersHaveKeys'
  BY <1>1, <1>3, <1>4 DEF SecretsInv, WritersHaveKeys, IsAt
<1>7. ServerKnowsItsOverlay'
  <2>1. CASE u # Server
    BY <1>1, <1>4, <2>1 DEF SecretsInv, ServerKnowsItsOverlay, IsAt, Users
  <2>2. CASE u = Server
    <3>1. overlay.kind = "cipher" => overlay.key = proc[u].known
      BY <1>1, <2>2 DEF SecretsInv, ServerKnowsItsOverlay, IsAt
    <3>2. proc[u].known = NoKey
      BY <1>1 DEF SecretsInv, CreatorsKnowNothing, IsAt
    <3> QED BY <1>1, <3>1, <3>2 DEF SecretsInv, WritersHaveKeys, ServerKnowsItsOverlay
  <2> QED BY <2>1, <2>2
<1>8. ~tampered' => OneKey'
  BY <1>1, <1>2, <1>4 DEF SecretsInv, OneKey, WritersHaveKeys
<1> QED BY <1>4, <1>5, <1>6, <1>7, <1>8 DEF SecretsInv, CreatorsKnowNothing, IsAt

\* A file is written with the key its writer knows.
LEMMA WriteKeeps ==
    ASSUME SecretsInv, NEW u \in Users, WriteSecret(u)
    PROVE  SecretsInv'
<1> DEFINE key == proc[u].known
           next == IF u = Server THEN "idle" ELSE "dead"
<1>1. key \in MasterKeys /\ key # NoKey /\ (~tampered => key = master)
  BY DEF SecretsInv, SecretsTypeOK, WritersHaveKeys, OneKey, WriteSecret, IsAt
<1>2. next \in CallSteps /\ next # "write" /\ next # "create"
  BY DEF CallSteps
<1>3. proc' = [proc EXCEPT ![u] = [step |-> next, known |-> key]]
  BY <1>2, GoesIsMove DEF WriteSecret
<1>4. /\ UNCHANGED <<master, used, tampered>>
      /\ u = Server => overlay' = [kind |-> "cipher", key |-> key] /\ output' = output
      /\ u # Server => output' = [output EXCEPT ![u] = key] /\ overlay' = overlay
  BY DEF WriteSecret, Encrypted
<1>5. u # Server => u \in Commands
  BY DEF Users
<1> HIDE DEF key, next
<1>6. \A v \in Users : proc'[v] = IF v = u THEN [step |-> next, known |-> key]
                                           ELSE proc[v]
  BY <1>3 DEF SecretsInv, SecretsTypeOK
<1>7. SecretsTypeOK'
  BY <1>1, <1>2, <1>3, <1>4, <1>5 DEF SecretsInv, SecretsTypeOK
<1>8. WritersHaveKeys' /\ CreatorsKnowNothing'
  BY <1>1, <1>2, <1>4, <1>6 DEF SecretsInv, WritersHaveKeys, CreatorsKnowNothing, IsAt
<1>9. ServerKnowsItsOverlay'
  <2>1. CASE u = Server
    BY <1>4, <1>6, <2>1 DEF ServerKnowsItsOverlay
  <2>2. CASE u # Server
    BY <1>4, <1>6, <2>2 DEF SecretsInv, ServerKnowsItsOverlay, IsAt, Users
  <2> QED BY <2>1, <2>2
<1>10. ~tampered' => OneKey'
  <2>1. ASSUME ~tampered PROVE \A v \in Users : proc'[v].known \in {NoKey, master}
    BY <1>1, <1>6, <2>1 DEF SecretsInv, OneKey
  <2>2. ASSUME ~tampered PROVE overlay'.kind = "cipher" => overlay'.key = master
    BY <1>1, <1>4, <2>2 DEF SecretsInv, OneKey
  <2>3. ASSUME ~tampered PROVE \A c \in Commands : output'[c] \in {NoKey, master}
    BY <1>1, <1>4, <1>5, <2>3 DEF SecretsInv, SecretsTypeOK, OneKey
  <2> QED BY <1>4, <2>1, <2>2, <2>3 DEF OneKey
<1> QED BY <1>7, <1>8, <1>9, <1>10 DEF SecretsInv

\* An overlay without a key needs none.
LEMMA EraseKeeps ==
    ASSUME SecretsInv, EraseSecret
    PROVE  SecretsInv'
<1>1. Server \in Users /\ "idle" \in CallSteps
  BY DEF Users, CallSteps
<1>2. /\ proc' = [proc EXCEPT ![Server] = [step |-> "idle", known |-> proc[Server].known]]
      /\ proc[Server].known \in MasterKeys \cup {NoKey}
  BY <1>1, GoesIsMove DEF EraseSecret
<1>3. /\ overlay' = [kind |-> "clear", key |-> NoKey]
      /\ UNCHANGED <<master, used, output, tampered>>
  BY DEF EraseSecret
<1>4. \A v \in Users : /\ proc'[v].known = proc[v].known
                       /\ proc'[v].step \in {proc[v].step, "idle"}
  BY <1>2 DEF SecretsInv, SecretsTypeOK
<1>5. SecretsTypeOK'
  BY <1>1, <1>2, <1>3 DEF SecretsInv, SecretsTypeOK
<1>6. WritersHaveKeys' /\ CreatorsKnowNothing' /\ ServerKnowsItsOverlay'
  BY <1>3, <1>4 DEF SecretsInv, WritersHaveKeys, CreatorsKnowNothing,
     ServerKnowsItsOverlay, IsAt
<1>7. ~tampered' => OneKey'
  BY <1>3, <1>4 DEF SecretsInv, OneKey
<1> QED BY <1>5, <1>6, <1>7 DEF SecretsInv

\* A killed process knows nothing any more.
LEMMA KillKeeps ==
    ASSUME SecretsInv, NEW u \in Users, KillProcess(u)
    PROVE  SecretsInv'
<1>1. UNCHANGED <<master, used, overlay, output, tampered>>
  BY DEF KillProcess
<1>2. CASE proc' = [proc EXCEPT ![u] = Dead]
  <2>1. "dead" \in CallSteps
    BY DEF CallSteps
  <2> QED BY <1>1, <1>2, <2>1, MoveKeeps DEF Dead
<1>3. CASE Goes(u, Failed(u))
  BY <1>1, <1>3, FailureKeeps DEF KillProcess
<1> QED BY <1>2, <1>3 DEF KillProcess

\* A changed key file excuses what was written with the old one.
LEMMA TamperKeeps ==
    ASSUME SecretsInv, TamperMaster
    PROVE  SecretsInv'
<1>1. SecretsTypeOK'
  BY DEF SecretsInv, SecretsTypeOK, TamperMaster
<1> QED BY <1>1 DEF SecretsInv, WritersHaveKeys, CreatorsKnowNothing,
           ServerKnowsItsOverlay, IsAt, TamperMaster

\* Every step of a process or of somebody with the key file keeps the invariant.
LEMMA SecretsStep == SecretsInv /\ [SecretsNext]_secretsVars => SecretsInv'
<1> SUFFICES ASSUME SecretsInv, [SecretsNext]_secretsVars PROVE SecretsInv'
  OBVIOUS
<1>1. CASE UNCHANGED secretsVars
  BY <1>1 DEF secretsVars, SecretsInv, SecretsTypeOK, WritersHaveKeys,
     CreatorsKnowNothing, ServerKnowsItsOverlay, OneKey, IsAt
<1>2. CASE SecretsNext
  BY <1>2, StartKeeps, RunKeeps, SaveKeeps, GetKeeps, CreateKeeps, WriteKeeps,
     EraseKeeps, KillKeeps, TamperKeeps DEF SecretsNext
<1> QED BY <1>1, <1>2

-----------------------------------------------------------------------------
\* Files and processes keep their types, and the key on disk is one that was
\* generated or put there.
THEOREM SecretsTyped == SecretsSpec => []SecretsTypeOK
<1>1. SecretsInv => SecretsTypeOK
  BY DEF SecretsInv
<1> QED BY <1>1, SecretsBegin, SecretsStep, PTL DEF SecretsSpec

\* Every file written can be read with the key on disk, and ciphertext is
\* replaced only by a server that knows its key (config/encrypted_secrets.rs,
\* config/provider_overrides.rs).
THEOREM SecretsReadable == SecretsSpec => SecretsStayReadable
<1>1. SecretsInv =>
        (~tampered =>
            /\ overlay.kind = "cipher" => overlay.key = master
            /\ \A c \in Commands : output[c] # NoKey => output[c] = master)
  BY DEF SecretsInv, OneKey
<1>2. SecretsInv /\ [SecretsNext]_secretsVars =>
        [overlay.kind = "cipher" /\ overlay' # overlay
            => overlay.key = proc[Server].known]_secretsVars
  <2> SUFFICES ASSUME SecretsInv, SecretsNext, overlay.kind = "cipher",
                      overlay' # overlay
               PROVE  overlay.key = proc[Server].known
    BY DEF secretsVars
  <2>1. EraseSecret \/ \E u \in Users : u = Server /\ WriteSecret(u)
    BY DEF SecretsNext, StartOverlay, SaveOverlay, RunCommand, GetMaster, WriteSecret,
       KillProcess, CreateMaster, TamperMaster
  <2> QED BY <2>1 DEF SecretsInv, ServerKnowsItsOverlay, EraseSecret, WriteSecret, IsAt
<1> QED BY <1>1, <1>2, SecretsBegin, SecretsStep, PTL DEF SecretsSpec, SecretsStayReadable

-----------------------------------------------------------------------------
(* The blob store.                                                         *)

\* The server, the rows and the files have their types.
StoreTyped ==
    /\ excused \in [{"lost", "directory", "unread"} -> SUBSET Contents]
    /\ assets \subseteq Contents
    /\ synced \subseteq blobs /\ blobs \subseteq Contents
    /\ rows \in [Contents -> StorageStates]
    /\ server \in {"down", "scan", "reconcile", "up"}

\* A handler is idle or knows the content it writes, and there is none unless
\* the server is up: the scan meets nobody's file.
WritersTyped ==
    /\ DOMAIN writer = Writers
    /\ \A w \in Writers :
          \/ writer[w] = NotWriting
          \/ /\ server = "up"
             /\ writer[w] \in [step : {"staged", "renamed", "promoted"},
                               content : Contents]

\* A file is in its place after the rename and durable after the sync.
WritersAreDurable ==
    \A w \in Writers :
        /\ WriterAt(w, "renamed") => writer[w].content \in blobs \cup excused.lost
        /\ WriterAt(w, "promoted") => writer[w].content \in synced \cup excused.lost

TakenFiles == excused.lost \cup excused.directory

\* An asset has a row, its file's entry is on disk, and its row says so.
AssetsAreDurable ==
    \A c \in assets :
        /\ rows[c] # "none"
        /\ c \in synced \cup TakenFiles
        /\ rows[c] = "stored" \/ c \in TakenFiles \cup excused.unread

StoreInv ==
    StoreTyped /\ WritersTyped /\ WritersAreDurable /\ AssetsAreDurable

\* An empty store, with the server down.
LEMMA StoreBegins == StoreInit => StoreInv
  BY DEF StoreInit, StoreInv, StoreTyped, WritersTyped, WritersAreDurable,
         AssetsAreDurable, StorageStates, NotWriting, WriterAt, NothingTaken

-----------------------------------------------------------------------------
(* One lemma per action, or per group of actions that disturb the same.    *)

\* A file in tmp/ promises nothing.
LEMMA StageKeeps ==
    ASSUME StoreInv, NEW w \in Writers, NEW c \in Contents, Stage(w, c)
    PROVE  StoreInv'
  BY DEF StoreInv, StoreTyped, WritersTyped, WritersAreDurable, AssetsAreDurable, TakenFiles,
         Stage, Writes, WriterAt, NotWriting

\* A writer that ends without a row leaves rows and files alone.
LEMMA EndKeeps ==
    ASSUME StoreInv, NEW w \in Writers, Discard(w) \/ AbortMetadata(w)
    PROVE  StoreInv'
  BY DEF StoreInv, StoreTyped, WritersTyped, WritersAreDurable, AssetsAreDurable, TakenFiles,
         Discard, AbortMetadata, WriterAt, NotWriting

\* After the rename the file is under blobs/.
LEMMA PromoteKeeps ==
    ASSUME StoreInv, NEW w \in Writers, Promote(w)
    PROVE  StoreInv'
<1>1. writer[w].content \in Contents /\ server = "up"
  BY DEF StoreInv, WritersTyped, Promote, WriterAt, NotWriting
<1>2. StoreTyped'
  BY <1>1 DEF StoreInv, StoreTyped, Promote
<1>3. WritersTyped'
  BY <1>1 DEF StoreInv, WritersTyped, Promote, Writes, NotWriting
<1>4. WritersAreDurable'
  BY <1>1 DEF StoreInv, WritersTyped, WritersAreDurable, Promote, Writes, WriterAt
<1>5. AssetsAreDurable'
  BY DEF StoreInv, AssetsAreDurable, TakenFiles, Promote
<1> QED BY <1>2, <1>3, <1>4, <1>5 DEF StoreInv

\* After the sync the entries of the directory are on disk, or the file is
\* excused.
LEMMA SyncKeeps ==
    ASSUME StoreInv, NEW w \in Writers, SyncDir(w)
    PROVE  StoreInv'
<1> DEFINE c == writer[w].content
<1>1. c \in Contents /\ server = "up" /\ c \in blobs \cup excused.lost
  BY DEF StoreInv, WritersTyped, WritersAreDurable, SyncDir, WriterAt, NotWriting
<1>2. c \in PrefixOf(c)
  BY <1>1, PrefixDirsAssumption DEF PrefixOf
<1>3. /\ synced \subseteq synced' /\ synced' \subseteq blobs
      /\ excused' \in [{"lost", "directory", "unread"} -> SUBSET Contents]
      /\ excused.lost \subseteq excused'.lost /\ c \in synced' \cup excused'.lost
      /\ excused'.directory = excused.directory /\ excused'.unread = excused.unread
  <2>1. CASE synced' = synced \cup (PrefixOf(c) \cap blobs) /\ UNCHANGED excused
    BY <1>1, <1>2, <2>1 DEF StoreInv, StoreTyped
  <2>2. CASE excused' = [excused EXCEPT !.lost = @ \cup {c}] /\ UNCHANGED synced
    BY <1>1, <2>2 DEF StoreInv, StoreTyped
  <2> QED BY <2>1, <2>2 DEF SyncDir
<1>4. /\ writer' = [writer EXCEPT ![w] = [step |-> "promoted", content |-> c]]
      /\ UNCHANGED <<blobs, rows, assets, server>>
  BY DEF SyncDir, Writes
<1> HIDE DEF c
<1>5. StoreTyped'
  BY <1>3, <1>4 DEF StoreInv, StoreTyped
<1>6. WritersTyped'
  BY <1>1, <1>4 DEF StoreInv, WritersTyped
<1>7. WritersAreDurable'
  BY <1>3, <1>4 DEF StoreInv, WritersTyped, WritersAreDurable, WriterAt
<1>8. AssetsAreDurable'
  BY <1>3, <1>4 DEF StoreInv, AssetsAreDurable, TakenFiles
<1> QED BY <1>5, <1>6, <1>7, <1>8 DEF StoreInv

\* Finding contents again excuses them no longer and keeps the others.
LEMMA FoundExcuses ==
    ASSUME StoreTyped, NEW C
    PROVE  /\ Found(C) \in [{"lost", "directory", "unread"} -> SUBSET Contents]
           /\ Found(C).lost = excused.lost \ C
           /\ Found(C).directory = excused.directory \ C
           /\ Found(C).unread = excused.unread \ C
  BY DEF StoreTyped, Found

\* The row is committed for a file whose entry is on disk or that is excused;
\* the former is excused no longer.
LEMMA CommitKeeps ==
    ASSUME StoreInv, NEW w \in Writers, CommitMetadata(w)
    PROVE  StoreInv'
<1> DEFINE c == writer[w].content
<1>1. c \in Contents /\ c \in synced \cup excused.lost
  BY DEF StoreInv, WritersTyped, WritersAreDurable, CommitMetadata, WriterAt, NotWriting
<1>2. /\ rows' = [rows EXCEPT ![c] = "stored"]
      /\ assets' = assets \cup {c}
      /\ excused' = Found({c} \cap synced)
      /\ writer' = [writer EXCEPT ![w] = NotWriting]
      /\ UNCHANGED <<blobs, synced, server>>
  BY DEF CommitMetadata
<1> HIDE DEF c
<1>3. /\ excused' \in [{"lost", "directory", "unread"} -> SUBSET Contents]
      /\ excused'.lost = excused.lost \ ({c} \cap synced)
      /\ excused'.directory = excused.directory \ ({c} \cap synced)
      /\ excused'.unread = excused.unread \ ({c} \cap synced)
  BY <1>2, FoundExcuses DEF StoreInv
<1>4. StoreTyped'
  BY <1>1, <1>2, <1>3 DEF StoreInv, StoreTyped, StorageStates
<1>5. WritersTyped'
  BY <1>2 DEF StoreInv, WritersTyped
<1>6. WritersAreDurable'
  <2>1. /\ excused.lost \ synced \subseteq excused'.lost
        /\ synced' = synced /\ blobs' = blobs /\ synced \subseteq blobs
    BY <1>2, <1>3 DEF StoreInv, StoreTyped
  <2>2. \A v \in Writers : writer'[v] = writer[v] \/ writer'[v] = NotWriting
    BY <1>2 DEF StoreInv, WritersTyped
  <2> SUFFICES ASSUME NEW v \in Writers
               PROVE  /\ writer'[v].step = "renamed"
                            => writer'[v].content \in blobs' \cup excused'.lost
                      /\ writer'[v].step = "promoted"
                            => writer'[v].content \in synced' \cup excused'.lost
    BY DEF WritersAreDurable, WriterAt
  <2>3. CASE writer'[v] = NotWriting
    BY <2>3 DEF NotWriting
  <2>4. CASE writer'[v] = writer[v]
    <3>1. /\ writer[v].step = "renamed" => writer[v].content \in blobs \cup excused.lost
          /\ writer[v].step = "promoted" => writer[v].content \in synced \cup excused.lost
      BY DEF StoreInv, WritersAreDurable, WriterAt
    <3> QED BY <2>1, <2>4, <3>1
  <2> QED BY <2>2, <2>3, <2>4
<1>7. AssetsAreDurable'
  <2> SUFFICES ASSUME NEW d \in assets'
               PROVE  /\ rows'[d] # "none"
                      /\ d \in synced' \cup TakenFiles'
                      /\ rows'[d] = "stored" \/ d \in TakenFiles' \cup excused'.unread
    BY DEF AssetsAreDurable
  <2>1. CASE d = c
    BY <1>1, <1>2, <1>3, <2>1 DEF StoreInv, StoreTyped, TakenFiles
  <2>2. CASE d # c /\ d \in assets
    BY <1>2, <1>3, <2>2 DEF StoreInv, StoreTyped, AssetsAreDurable, TakenFiles
  <2> QED BY <1>2, <2>1, <2>2
<1> QED BY <1>4, <1>5, <1>6, <1>7 DEF StoreInv

\* The scan moves what has no row, and no asset is without.
LEMMA ScanKeeps ==
    ASSUME StoreInv, ScanFiles
    PROVE  StoreInv'
<1>1. PICK moved \in SUBSET (blobs \ Referenced) :
         blobs' = blobs \ moved /\ synced' = synced \ moved
  BY DEF ScanFiles
<1>2. /\ UNCHANGED <<writer, rows, assets, excused>>
      /\ server = "scan" /\ server' \in {"reconcile", "up"}
  BY DEF ScanFiles
<1>3. \A w \in Writers : writer[w] = NotWriting
  BY <1>2 DEF StoreInv, WritersTyped
<1>4. assets \cap moved = {}
  BY DEF StoreInv, StoreTyped, AssetsAreDurable, Referenced
<1>5. StoreTyped' /\ WritersTyped' /\ WritersAreDurable'
  BY <1>1, <1>2, <1>3 DEF StoreInv, StoreTyped, WritersTyped, WritersAreDurable,
     WriterAt, NotWriting
<1>6. AssetsAreDurable'
  BY <1>1, <1>2, <1>4 DEF StoreInv, AssetsAreDurable, TakenFiles
<1> QED BY <1>5, <1>6 DEF StoreInv

\* A row that the scan did not account for is a file it did not see: lost, or
\* in its place and from now on excused as unread.
LEMMA ReconcileKeeps ==
    ASSUME StoreInv, ReconcileRows
    PROVE  StoreInv'
<1>1. PICK done \in SUBSET Referenced :
         /\ rows' = [c \in Contents |->
                       IF c \notin done THEN rows[c]
                       ELSE IF c \in present THEN "stored" ELSE "missing"]
         /\ excused' = [Found(done \cap present \cap synced) EXCEPT
                          !.unread = @ \cup ((done \cap blobs) \ present)]
  BY DEF ReconcileRows
<1>2. /\ UNCHANGED <<writer, blobs, synced, assets>>
      /\ server = "reconcile" /\ server' = "up"
  BY DEF ReconcileRows
<1>3. done \subseteq Contents
  BY DEF Referenced
<1> DEFINE seen == done \cap present \cap synced
<1>4. /\ excused' \in [{"lost", "directory", "unread"} -> SUBSET Contents]
      /\ excused'.lost = excused.lost \ seen
      /\ excused'.directory = excused.directory \ seen
      /\ excused'.unread = (excused.unread \ seen) \cup ((done \cap blobs) \ present)
  <2>1. StoreTyped /\ blobs \subseteq Contents
    BY DEF StoreInv, StoreTyped
  <2> QED BY <1>1, <1>3, <2>1, FoundExcuses
<1>5. StoreTyped'
  BY <1>1, <1>2, <1>4 DEF StoreInv, StoreTyped, StorageStates
<1>6. WritersTyped' /\ WritersAreDurable'
  BY <1>2, <1>4 DEF StoreInv, WritersTyped, WritersAreDurable, WriterAt, NotWriting
<1>7. AssetsAreDurable'
  <2> SUFFICES ASSUME NEW c \in assets
               PROVE  /\ rows'[c] # "none"
                      /\ c \in synced \cup TakenFiles'
                      /\ rows'[c] = "stored" \/ c \in TakenFiles' \cup excused'.unread
    BY <1>2 DEF AssetsAreDurable
  <2>1. /\ c \in Contents /\ rows[c] # "none" /\ synced \subseteq blobs
        /\ c \in synced \cup excused.lost \cup excused.directory
        /\ rows[c] = "stored"
           \/ c \in excused.lost \cup excused.directory \cup excused.unread
    BY DEF StoreInv, StoreTyped, AssetsAreDurable, TakenFiles
  <2>2. CASE c \in seen
    BY <1>1, <2>1, <2>2
  <2>3. CASE c \notin seen
    BY <1>1, <1>4, <2>1, <2>3 DEF TakenFiles
  <2> QED BY <2>2, <2>3
<1> QED BY <1>5, <1>6, <1>7 DEF StoreInv

\* Starting and a kill: handlers are gone, files stay.
LEMMA RestartKeeps ==
    ASSUME StoreInv, StartServer \/ StoreKill
    PROVE  StoreInv'
<1>1. server' \in {"scan", "down"} /\ UNCHANGED <<blobs, synced, rows, assets, excused>>
  BY DEF StartServer, StoreKill
<1>2. DOMAIN writer' = Writers /\ \A w \in Writers : writer'[w] = NotWriting
  BY DEF StoreInv, WritersTyped, StartServer, StoreKill
<1>3. StoreTyped' /\ WritersTyped' /\ WritersAreDurable'
  BY <1>1, <1>2 DEF StoreInv, StoreTyped, WritersTyped, WritersAreDurable,
     WriterAt, NotWriting
<1>4. AssetsAreDurable'
  BY <1>1 DEF StoreInv, AssetsAreDurable, TakenFiles
<1> QED BY <1>3, <1>4 DEF StoreInv

\* A power loss: a synced file stays, or goes with its directory.
LEMMA PowerLossKeeps ==
    ASSUME StoreInv, PowerLoss
    PROVE  StoreInv'
<1>1. PICK gone \in SUBSET (PrefixDirs \ settled), kept \in SUBSET (blobs \ synced) :
         /\ blobs' = (synced \cup kept) \ UNION gone
         /\ excused' = [excused EXCEPT !.directory = @ \cup (synced \cap UNION gone)]
  BY DEF PowerLoss
<1>2. server' = "down" /\ synced' = blobs' /\ UNCHANGED <<rows, assets>>
  BY DEF PowerLoss
<1>3. /\ excused' \in [{"lost", "directory", "unread"} -> SUBSET Contents]
      /\ excused'.lost = excused.lost /\ excused'.unread = excused.unread
      /\ excused'.directory = excused.directory \cup (synced \cap UNION gone)
      /\ synced \subseteq blobs /\ blobs \subseteq Contents
  BY <1>1 DEF StoreInv, StoreTyped
<1>4. DOMAIN writer' = Writers /\ \A w \in Writers : writer'[w] = NotWriting
  BY DEF StoreInv, WritersTyped, PowerLoss
<1>5. StoreTyped' /\ WritersTyped' /\ WritersAreDurable'
  BY <1>1, <1>2, <1>3, <1>4 DEF StoreInv, StoreTyped, WritersTyped, WritersAreDurable,
     WriterAt, NotWriting
<1>6. AssetsAreDurable'
  BY <1>1, <1>2, <1>3 DEF StoreInv, AssetsAreDurable, TakenFiles
<1> QED BY <1>5, <1>6 DEF StoreInv

\* A file that disappears is excused.
LEMMA LossKeeps ==
    ASSUME StoreInv, NEW c \in Contents, LoseFile(c)
    PROVE  StoreInv'
<1>1. /\ excused' \in [{"lost", "directory", "unread"} -> SUBSET Contents]
      /\ excused'.lost = excused.lost \cup {c}
      /\ excused'.directory = excused.directory /\ excused'.unread = excused.unread
      /\ blobs' = blobs \ {c} /\ synced' = synced \ {c}
      /\ UNCHANGED <<writer, rows, assets, server>>
  BY DEF LoseFile, StoreInv, StoreTyped
<1>2. StoreTyped' /\ WritersTyped'
  BY <1>1 DEF StoreInv, StoreTyped, WritersTyped
<1>3. WritersAreDurable'
  BY <1>1 DEF StoreInv, WritersAreDurable, WriterAt
<1>4. AssetsAreDurable'
  BY <1>1 DEF StoreInv, AssetsAreDurable, TakenFiles
<1> QED BY <1>2, <1>3, <1>4 DEF StoreInv

\* Every step of the store keeps the invariant.
LEMMA StoreStep == StoreInv /\ [StoreNext]_storeVars => StoreInv'
<1> SUFFICES ASSUME StoreInv, [StoreNext]_storeVars PROVE StoreInv'
  OBVIOUS
<1>1. CASE UNCHANGED storeVars
  BY <1>1 DEF storeVars, StoreInv, StoreTyped, WritersTyped, WritersAreDurable,
     AssetsAreDurable, TakenFiles, WriterAt
<1>2. ASSUME NEW d \in PrefixDirs, Flush(d) PROVE StoreInv'
  BY <1>2 DEF Flush, StoreInv, StoreTyped, WritersTyped, WritersAreDurable,
     AssetsAreDurable, TakenFiles, WriterAt
<1>3. CASE StoreNext
  BY <1>2, <1>3, StageKeeps, EndKeeps, PromoteKeeps, SyncKeeps, CommitKeeps, ScanKeeps,
     ReconcileKeeps, RestartKeeps, PowerLossKeeps, LossKeeps DEF StoreNext
<1> QED BY <1>1, <1>3

-----------------------------------------------------------------------------
\* What a scan has seen was written by somebody, and a directory is one of the
\* prefix directories.
FilesTyped ==
    /\ present \subseteq Contents /\ settled \subseteq PrefixDirs

\* A scan sees files that are there, and a flush or what a power loss leaves
\* are prefix directories.
LEMMA FilesStep == StoreInv /\ FilesTyped /\ [StoreNext]_storeVars => FilesTyped'
<1> SUFFICES ASSUME StoreInv, FilesTyped, [StoreNext]_storeVars PROVE FilesTyped'
  OBVIOUS
<1>1. ASSUME NEW w \in Writers,
             \/ \E c \in Contents : Stage(w, c)
             \/ Discard(w) \/ Promote(w) \/ SyncDir(w)
             \/ CommitMetadata(w) \/ AbortMetadata(w)
      PROVE  FilesTyped'
  BY <1>1 DEF Stage, Discard, Promote, SyncDir, CommitMetadata, AbortMetadata, FilesTyped
<1>2. CASE ScanFiles
  BY <1>2 DEF ScanFiles, Referenced, FilesTyped, StoreInv, StoreTyped
<1>3. CASE StoreKill \/ PowerLoss
  BY <1>3 DEF StoreKill, PowerLoss, FilesTyped
<1>4. CASE \/ StartServer \/ ReconcileRows \/ UNCHANGED storeVars
           \/ \E c \in Contents : LoseFile(c)
           \/ \E d \in PrefixDirs : Flush(d)
  BY <1>4 DEF StartServer, ReconcileRows, LoseFile, Flush, storeVars, FilesTyped
<1> QED BY <1>1, <1>2, <1>3, <1>4 DEF StoreNext

\* The store holds contents, its rows have states and its handlers steps.
THEOREM StoreTypesHold == StoreSpec => []StoreTypeOK
<1>1. StoreInit => FilesTyped
  BY DEF StoreInit, FilesTyped
<1>2. StoreInv /\ FilesTyped => StoreTypeOK
  BY DEF StoreInv, StoreTyped, WritersTyped, FilesTyped, StoreTypeOK, NotWriting,
     NothingTaken
<1> QED BY <1>1, <1>2, StoreBegins, StoreStep, FilesStep, PTL DEF StoreSpec

\* What an asset row was given for is in its place (assets/upload.rs,
\* blob_store.rs) unless it was lost outside the program, in a failed sync or
\* with a prefix directory nobody synced into blobs/; and its row says so
\* (maintenance.rs) unless the scan of a start could not read it.
THEOREM AssetsKept == StoreSpec => []AssetsKeepTheirContent
<1>1. StoreInv => AssetsKeepTheirContent
  BY DEF StoreInv, StoreTyped, AssetsAreDurable, AssetsKeepTheirContent, TakenFiles
<1> QED BY <1>1, StoreBegins, StoreStep, PTL DEF StoreSpec

-----------------------------------------------------------------------------
(* Preparations of a PDF.                                                  *)

PrepRow == [state : {"preparing", "ready"}, count : 0..MaxPage, rev : Nat,
            pages : Pages, sealedAs : Pages]
SeenRow == [step : {"named"}, prep : Created]
             \cup [step : {"reading"}, prep : Created, rev : Nat]
             \cup [step : {"shown"}, prep : Created, rev : Nat, pages : Pages]

\* Preparations are numbered in the order they were created in.
PrepsTyped ==
    /\ \E n \in 0..MaxPreps : Created = 1..n
    /\ preps = [p \in Created |-> preps[p]]
    /\ \A p \in Created : preps[p] \in PrepRow
    /\ intact \subseteq Renderings

TabsTyped ==
    /\ DOMAIN tab = Tabs
    /\ \A t \in Tabs : tab[t] \in SeenRow \cup {NoTab, [step |-> "create"]}

\* A revision names one state of the pages: a row that was read has no
\* revision to come, so a tab that was shown the current revision was shown
\* the current pages, whatever was put in between its two statements.
Current(seen, prep) ==
    /\ seen.rev <= prep.rev
    /\ seen.step = "shown" /\ seen.rev = prep.rev => seen.pages = prep.pages

RevisionsName ==
    \A t \in Tabs : tab[t].step \in {"reading", "shown"} =>
        Current(tab[t], preps[tab[t].prep])

\* What is sealed has its pages and keeps them.
SealedIsShown ==
    \A p \in Created : preps[p].state = "ready" =>
        /\ preps[p].pages = preps[p].sealedAs
        /\ 1..preps[p].count \subseteq Present(p)

PrepsInv == PrepsTyped /\ TabsTyped /\ RevisionsName /\ SealedIsShown

\* Nothing is prepared and no tab was shown anything.
LEMMA PrepsBegin == PrepsInit => PrepsInv
<1> SUFFICES ASSUME PrepsInit PROVE PrepsInv
  OBVIOUS
<1>1. Created = {} /\ Created = 1..0
  BY DEF PrepsInit, Created
<1>2. PrepsTyped
  BY <1>1, PreparationsAssumption DEF PrepsInit, PrepsTyped, Created
<1> QED BY <1>1, <1>2
        DEF PrepsInit, PrepsInv, TabsTyped, RevisionsName, SealedIsShown, NoTab

-----------------------------------------------------------------------------
\* The prep after a page was written.
LEMMA WithPageRow ==
    ASSUME NEW r \in PrepRow, NEW n \in PageNumbers, NEW c \in Renderings
    PROVE  /\ WithPage(r, n, c) \in PrepRow
           /\ WithPage(r, n, c).rev = r.rev + 1
           /\ WithPage(r, n, c).state = r.state
<1>1. r.pages \in Pages /\ r.rev \in Nat
  BY DEF PrepRow
<1>2. [r.pages EXCEPT ![n] = c] \in Pages
  BY <1>1 DEF Pages
<1>3. WithPage(r, n, c) = [state |-> r.state, count |-> r.count, rev |-> r.rev + 1,
                           pages |-> [r.pages EXCEPT ![n] = c],
                           sealedAs |-> r.sealedAs]
  <2>1. WithPage(r, n, c) = [[r EXCEPT !.pages[n] = c] EXCEPT !.rev = r.rev + 1]
    BY DEF WithPage
  <2>2. [r EXCEPT !.pages[n] = c] =
          [state |-> r.state, count |-> r.count, rev |-> r.rev,
           pages |-> [r.pages EXCEPT ![n] = c], sealedAs |-> r.sealedAs]
    BY DEF PrepRow
  <2> QED BY <2>1, <2>2
<1> QED BY <1>1, <1>2, <1>3 DEF PrepRow

\* What a tab has seen is about a preparation, and has the parts of its step.
LEMMA SeenRows ==
    ASSUME PrepsInv, NEW t \in Tabs
    PROVE  /\ tab[t].step \in {"named", "reading", "shown"} => tab[t].prep \in Created
           /\ tab[t].step \in {"reading", "shown"} => tab[t].rev \in Nat
           /\ tab[t].step = "shown" => tab[t].pages \in Pages
  BY DEF PrepsInv, TabsTyped, SeenRow, NoTab

\* A tab that reads a preparation, leaves it or begins another one.
LEMMA TabMoves ==
    ASSUME PrepsInv, NEW t \in Tabs, NEW next, Tab(t, next),
           UNCHANGED <<preps, intact>>,
           next \in SeenRow \cup {NoTab, [step |-> "create"]},
           next.step \in {"reading", "shown"} => Current(next, preps[next.prep])
    PROVE  PrepsInv'
<1>1. \A s \in Tabs : tab'[s] = IF s = t THEN next ELSE tab[s]
  BY DEF Tab, PrepsInv, TabsTyped
<1>2. PrepsTyped' /\ SealedIsShown'
  BY DEF PrepsInv, PrepsTyped, SealedIsShown, Created, PrepRow, Present
<1>3. SeenRow' = SeenRow
  BY DEF SeenRow, Created
<1>4. TabsTyped'
  BY <1>1, <1>3 DEF PrepsInv, TabsTyped, Tab
<1>5. RevisionsName'
  <2> SUFFICES ASSUME NEW s \in Tabs, tab'[s].step \in {"reading", "shown"}
               PROVE  Current(tab'[s], preps[tab'[s].prep])
    BY DEF RevisionsName, Current
  <2>1. CASE s # t
    BY <1>1, <2>1 DEF PrepsInv, RevisionsName
  <2>2. CASE s = t
    BY <1>1, <2>2
  <2> QED BY <2>1, <2>2
<1> QED BY <1>2, <1>4, <1>5 DEF PrepsInv

\* The row that a GET reads has its revision, and the pages it reads after
\* that are those of this revision or of a later one.
LEMMA ReadingTabs ==
    ASSUME PrepsInv, NEW t \in Tabs
    PROVE  /\ \A p \in Created : /\ Named(p) \in SeenRow /\ Named(p).step = "named"
                                 /\ RowRead(p) \in SeenRow
                                 /\ RowRead(p).step = "reading"
                                 /\ Current(RowRead(p), preps[RowRead(p).prep])
           /\ tab[t].step = "reading" =>
                 /\ Shown(t) \in SeenRow
                 /\ Current(Shown(t), preps[Shown(t).prep])
<1>1. \A p \in Created : preps[p].rev \in Nat /\ preps[p].pages \in Pages
  BY DEF PrepsInv, PrepsTyped, PrepRow
<1>2. ASSUME NEW p \in Created
      PROVE  /\ Named(p) \in SeenRow /\ Named(p).step = "named"
             /\ RowRead(p) \in SeenRow /\ RowRead(p).step = "reading"
             /\ Current(RowRead(p), preps[RowRead(p).prep])
  BY <1>1 DEF Named, RowRead, SeenRow, Current
<1>3. ASSUME tab[t].step = "reading"
      PROVE  Shown(t) \in SeenRow /\ Current(Shown(t), preps[Shown(t).prep])
  <2>1. /\ tab[t].prep \in Created /\ tab[t].rev \in Nat
        /\ tab[t].rev <= preps[tab[t].prep].rev
    BY <1>3, SeenRows DEF PrepsInv, RevisionsName, Current
  <2> QED BY <1>1, <2>1 DEF Shown, SeenRow, Current
<1> QED BY <1>2, <1>3

\* A new prep is the next one; the tab that inserted it is told which.
LEMMA InsertKeeps ==
    ASSUME PrepsInv, NEW t \in Tabs, InsertPreparation(t)
    PROVE  PrepsInv'
<1>1. PICK n \in 0..MaxPreps : Created = 1..n
  BY DEF PrepsInv, PrepsTyped
<1>2. Cardinality(Created) = n
  BY <1>1, FS_Interval, PreparationsAssumption
<1>3. n < MaxPreps /\ n + 1 \in 1..MaxPreps /\ Created \cup {n + 1} = 1..n + 1
  BY <1>1, <1>2, PreparationsAssumption DEF InsertPreparation
<1>4. /\ preps' = [p \in 1..n + 1 |-> IF p \in Created THEN preps[p] ELSE NewPreparation]
      /\ Tab(t, Named(n + 1))
      /\ intact' = intact
  BY <1>2, <1>3 DEF InsertPreparation
<1>5. /\ Created' = 1..n + 1 /\ Created \subseteq Created'
      /\ n + 1 \notin Created /\ n + 1 \in Created'
      /\ preps'[n + 1] = NewPreparation
      /\ \A p \in Created : preps'[p] = preps[p]
  BY <1>1, <1>3, <1>4 DEF Created
<1>6. NewPreparation \in PrepRow
  BY PreparationsAssumption DEF NewPreparation, PrepRow, Pages, PageNumbers
<1>7. \A p \in Created' : p \in Created \/ p = n + 1
  BY <1>1, <1>3, <1>5
<1>8. PrepsTyped'
  <2>1. \E k \in 0..MaxPreps : Created' = 1..k
    BY <1>3, <1>5
  <2>2. \A p \in Created' : preps'[p] \in PrepRow
    BY <1>5, <1>6, <1>7 DEF PrepsInv, PrepsTyped
  <2>3. preps' = [p \in Created' |-> preps'[p]]
    BY <1>4, <1>5
  <2> QED BY <1>4, <2>1, <2>2, <2>3 DEF PrepsTyped, PrepsInv, PrepRow
<1>9. TabsTyped'
  BY <1>4, <1>5, <1>6 DEF PrepsInv, TabsTyped, Tab, SeenRow, Named
<1>10. RevisionsName'
  <2> SUFFICES ASSUME NEW s \in Tabs, tab'[s].step \in {"reading", "shown"}
               PROVE  Current(tab'[s], preps'[tab'[s].prep])
    BY DEF RevisionsName, Current
  <2>1. s # t /\ tab'[s] = tab[s]
    BY <1>4 DEF PrepsInv, TabsTyped, Tab, Named
  <2>2. tab[s].prep \in Created
    BY <2>1, SeenRows
  <2> QED BY <1>5, <2>1, <2>2 DEF PrepsInv, RevisionsName
<1>11. SealedIsShown'
  BY <1>5, <1>7 DEF PrepsInv, SealedIsShown, Present, NewPreparation
<1> QED BY <1>8, <1>9, <1>10, <1>11 DEF PrepsInv

\* A write to a preparation that is not sealed yet counts its revision on, so
\* what a tab was shown before is not current.
LEMMA RowMoves ==
    ASSUME PrepsInv, NEW p \in Created, NEW prep \in PrepRow,
           preps' = [preps EXCEPT ![p] = prep],
           prep.rev = preps[p].rev + 1,
           prep.state = "ready" => /\ prep.pages = prep.sealedAs
                                  /\ \A n \in 1..prep.count : /\ n \in PageNumbers
                                                             /\ prep.pages[n] # NoPage
    PROVE  /\ \A q \in Created : preps'[q] = IF q = p THEN prep ELSE preps[q]
           /\ Created' = Created
           /\ intact' = intact => PrepsTyped'
           /\ SealedIsShown'
           /\ tab' = tab => RevisionsName' /\ TabsTyped'
<1>1. /\ \A q \in Created : preps'[q] = IF q = p THEN prep ELSE preps[q]
      /\ Created' = Created
  BY DEF PrepsInv, PrepsTyped, Created
<1>2. intact' = intact => PrepsTyped'
  BY <1>1 DEF PrepsInv, PrepsTyped, PrepRow
<1>3. SealedIsShown'
  BY <1>1 DEF PrepsInv, SealedIsShown, Present
<1>4. ASSUME tab' = tab PROVE RevisionsName'
  <2> SUFFICES ASSUME NEW t \in Tabs, tab[t].step \in {"reading", "shown"}
               PROVE  Current(tab[t], preps'[tab[t].prep])
    BY <1>4 DEF RevisionsName, Current
  <2>1. tab[t].prep \in Created /\ tab[t].rev \in Nat
    BY SeenRows
  <2>2. preps[p].rev \in Nat
    BY DEF PrepsInv, PrepsTyped, PrepRow
  <2>3. Current(tab[t], preps[tab[t].prep])
    BY DEF PrepsInv, RevisionsName
  <2> QED BY <1>1, <2>1, <2>2, <2>3 DEF Current
<1>5. ASSUME tab' = tab PROVE TabsTyped'
  BY <1>1, <1>5 DEF PrepsInv, TabsTyped, SeenRow
<1> QED BY <1>1, <1>2, <1>3, <1>4, <1>5

\* A page is written while the preparation is open.
LEMMA PutKeeps ==
    ASSUME PrepsInv, NEW t \in Tabs, NEW n \in PageNumbers, NEW c \in Renderings,
           NEW ifMatch \in BOOLEAN, PutPage(t, n, c, ifMatch)
    PROVE  PrepsInv'
<1> DEFINE p == tab[t].prep
<1>1. UNCHANGED <<tab, intact>> /\ tab[t].step = "shown"
  BY DEF PutPage
<1>2. p \in Created
  BY <1>1, SeenRows
<1>3. CASE UNCHANGED preps
  BY <1>1, <1>3 DEF PrepsInv, PrepsTyped, TabsTyped, RevisionsName, Current,
     SealedIsShown, Created, Present, SeenRow, PrepRow
<1>4. CASE preps[p].state = "preparing" /\ preps' = [preps EXCEPT ![p] = WithPage(preps[p], n, c)]
  <2>1. preps[p] \in PrepRow
    BY <1>2 DEF PrepsInv, PrepsTyped
  <2>2. /\ WithPage(preps[p], n, c) \in PrepRow
        /\ WithPage(preps[p], n, c).rev = preps[p].rev + 1
        /\ WithPage(preps[p], n, c).state = preps[p].state
    BY <2>1, WithPageRow
  <2> HIDE DEF p
  <2> QED BY <1>1, <1>2, <1>4, <2>2, RowMoves DEF PrepsInv
<1> QED BY <1>3, <1>4 DEF PutPage

\* Completing seals the pages the tab was shown, for its revision is current.
LEMMA CompleteKeeps ==
    ASSUME PrepsInv, NEW t \in Tabs, NEW count \in PageNumbers, Complete(t, count)
    PROVE  PrepsInv'
<1> DEFINE p == tab[t].prep
           prep == [state |-> "ready", count |-> count, rev |-> preps[p].rev + 1,
                   pages |-> preps[p].pages, sealedAs |-> tab[t].pages]
<1>1. /\ tab[t].step = "shown" /\ preps[p].rev = tab[t].rev
      /\ 1..count \subseteq Present(p)
      /\ preps' = [preps EXCEPT ![p] = prep]
      /\ Tab(t, NoTab) /\ intact' = intact
  BY DEF Complete
<1>2. p \in Created
  BY <1>1, SeenRows
<1>3. preps[p] \in PrepRow /\ tab[t].pages = preps[p].pages
  BY <1>1, <1>2 DEF PrepsInv, PrepsTyped, RevisionsName, Current
<1>4. /\ prep.state = "ready" /\ prep.count = count /\ prep.rev = preps[p].rev + 1
      /\ prep.pages = preps[p].pages /\ prep.sealedAs = prep.pages
  BY <1>3
<1>5. prep \in PrepRow
  BY <1>3, <1>4, PreparationsAssumption DEF PrepRow, PageNumbers
<1>6. \A m \in 1..prep.count : m \in PageNumbers /\ prep.pages[m] # NoPage
  BY <1>1, <1>4 DEF Present
<1> HIDE DEF p, prep
<1>7. /\ \A q \in Created : preps'[q] = IF q = p THEN prep ELSE preps[q]
      /\ Created' = Created /\ PrepsTyped' /\ SealedIsShown'
  BY <1>1, <1>2, <1>4, <1>5, <1>6, RowMoves
<1>8. \A s \in Tabs : tab'[s] = IF s = t THEN NoTab ELSE tab[s]
  BY <1>1 DEF PrepsInv, TabsTyped, Tab
<1>9. TabsTyped'
  BY <1>1, <1>7, <1>8 DEF PrepsInv, TabsTyped, Tab, SeenRow
<1>10. RevisionsName'
  <2> SUFFICES ASSUME NEW s \in Tabs, tab'[s].step \in {"reading", "shown"}
               PROVE  Current(tab'[s], preps'[tab'[s].prep])
    BY DEF RevisionsName, Current
  <2>1. tab'[s] = tab[s]
    BY <1>8 DEF NoTab
  <2>2. tab[s].prep \in Created /\ tab[s].rev \in Nat /\ preps[p].rev \in Nat
    BY <1>3, <2>1, SeenRows DEF PrepRow
  <2>3. Current(tab[s], preps[tab[s].prep])
    BY <2>1 DEF PrepsInv, RevisionsName
  <2> QED BY <1>4, <1>7, <2>1, <2>2, <2>3 DEF Current
<1> QED BY <1>7, <1>9, <1>10 DEF PrepsInv

\* Every step of a tab or of the files keeps the invariant.
LEMMA PrepsStep == PrepsInv /\ [PrepsNext]_prepsVars => PrepsInv'
<1> SUFFICES ASSUME PrepsInv, [PrepsNext]_prepsVars PROVE PrepsInv'
  OBVIOUS
<1>1. CASE UNCHANGED prepsVars
  BY <1>1 DEF prepsVars, PrepsInv, PrepsTyped, TabsTyped, RevisionsName, Current,
     SealedIsShown, Created, Present, SeenRow, PrepRow
<1>2. ASSUME NEW c \in Renderings, LoseRendering(c) PROVE PrepsInv'
  BY <1>2 DEF LoseRendering, PrepsInv, PrepsTyped, TabsTyped, RevisionsName, Current,
     SealedIsShown, Created, Present, SeenRow, PrepRow
<1>3. ASSUME NEW t \in Tabs, NEW createNew \in BOOLEAN, FindOrCreate(t, createNew)
      PROVE  PrepsInv'
  BY <1>3, TabMoves, ReadingTabs DEF FindOrCreate, Unsealed
<1>4. ASSUME NEW t \in Tabs, Leave(t) PROVE PrepsInv'
  BY <1>4, TabMoves DEF Leave, NoTab
<1>5. ASSUME NEW t \in Tabs, NEW p \in PrepIds, Refresh(t, p) PROVE PrepsInv'
  BY <1>5, TabMoves, ReadingTabs DEF Refresh
<1>6. ASSUME NEW t \in Tabs, ShowPages(t) PROVE PrepsInv'
  BY <1>6, TabMoves, ReadingTabs DEF ShowPages
<1> QED BY <1>1, <1>2, <1>3, <1>4, <1>5, <1>6, InsertKeeps, PutKeeps, CompleteKeeps
        DEF PrepsNext

\* Pages are written below the bound, so sealing goes one beyond it at most.
RevisionsEnd ==
    \A p \in Created : /\ preps[p].rev \in 1..MaxPrepRev + 1
                       /\ preps[p].state = "preparing" => preps[p].rev <= MaxPrepRev

\* Every step keeps revisions below the bound.
LEMMA RevisionsStep == PrepsInv /\ RevisionsEnd /\ [PrepsNext]_prepsVars => RevisionsEnd'
<1> SUFFICES ASSUME PrepsInv, RevisionsEnd, [PrepsNext]_prepsVars PROVE RevisionsEnd'
  OBVIOUS
<1>1. CASE UNCHANGED preps
  BY <1>1 DEF RevisionsEnd, Created
<1>2. ASSUME NEW t \in Tabs, InsertPreparation(t) PROVE RevisionsEnd'
  <2>1. PICK n : preps' = [p \in Created \cup {n} |->
                              IF p \in Created THEN preps[p] ELSE NewPreparation]
    BY <1>2 DEF InsertPreparation
  <2>2. NewPreparation.rev = 1 /\ 1 \in 1..MaxPrepRev + 1 /\ 1 <= MaxPrepRev
    BY PreparationsAssumption DEF NewPreparation
  <2>3. Created' = Created \cup {n}
    BY <2>1 DEF Created
  <2>4. ASSUME NEW p \in Created'
        PROVE  /\ preps'[p].rev \in 1..MaxPrepRev + 1
               /\ preps'[p].state = "preparing" => preps'[p].rev <= MaxPrepRev
    BY <2>1, <2>2, <2>3 DEF RevisionsEnd
  <2> QED BY <2>4 DEF RevisionsEnd
<1>3. ASSUME NEW p \in Created, NEW prep, preps' = [preps EXCEPT ![p] = prep],
             prep.rev = preps[p].rev + 1, preps[p].state = "preparing",
             prep.state = "preparing" => preps[p].rev < MaxPrepRev
      PROVE  RevisionsEnd'
  <2>1. Created' = Created /\ \A q \in Created : preps'[q] = IF q = p THEN prep ELSE preps[q]
    BY <1>3 DEF Created
  <2>2. preps[p].rev \in 1..MaxPrepRev
    BY <1>3, PreparationsAssumption DEF RevisionsEnd
  <2>3. /\ prep.rev \in 1..MaxPrepRev + 1
        /\ prep.state = "preparing" => prep.rev <= MaxPrepRev
    BY <1>3, <2>2, PreparationsAssumption
  <2> QED BY <2>1, <2>3 DEF RevisionsEnd
<1>4. ASSUME NEW t \in Tabs, tab[t].step = "shown"
      PROVE  tab[t].prep \in Created /\ preps[tab[t].prep] \in PrepRow
  BY <1>4 DEF PrepsInv, PrepsTyped, TabsTyped, SeenRow, NoTab
<1>5. ASSUME NEW t \in Tabs, NEW n \in PageNumbers, NEW c \in Renderings,
             NEW ifMatch \in BOOLEAN, PutPage(t, n, c, ifMatch)
      PROVE  RevisionsEnd'
  <2>1. PICK p : p = tab[t].prep
    OBVIOUS
  <2>2. p \in Created /\ preps[p] \in PrepRow
    BY <1>4, <1>5, <2>1 DEF PutPage
  <2>3. CASE UNCHANGED preps
    BY <1>1, <2>3
  <2>4. CASE /\ preps[p].state = "preparing" /\ preps[p].rev < MaxPrepRev
             /\ preps' = [preps EXCEPT ![p] = WithPage(preps[p], n, c)]
    <3>1. PICK prep : prep = WithPage(preps[p], n, c)
      OBVIOUS
    <3>2. prep.rev = preps[p].rev + 1
      BY <2>2, <3>1, WithPageRow
    <3> QED BY <1>3, <2>2, <2>4, <3>1, <3>2
  <2> QED BY <1>5, <2>1, <2>3, <2>4 DEF PutPage
<1>6. ASSUME NEW t \in Tabs, NEW count \in PageNumbers, Complete(t, count)
      PROVE  RevisionsEnd'
  <2>1. PICK p : p = tab[t].prep
    OBVIOUS
  <2>2. p \in Created
    BY <1>4, <1>6, <2>1 DEF Complete
  <2>3. PICK prep : prep = [state |-> "ready", count |-> count, rev |-> preps[p].rev + 1,
                          pages |-> preps[p].pages, sealedAs |-> tab[t].pages]
    OBVIOUS
  <2>4. preps' = [preps EXCEPT ![p] = prep] /\ preps[p].state = "preparing"
    BY <1>6, <2>1, <2>3 DEF Complete
  <2>5. prep.rev = preps[p].rev + 1 /\ prep.state = "ready"
    BY <2>3
  <2> QED BY <1>3, <2>2, <2>4, <2>5
<1>7. CASE \/ UNCHANGED prepsVars
           \/ \E c \in Renderings : LoseRendering(c)
           \/ \E t \in Tabs : \/ Leave(t) \/ ShowPages(t)
                              \/ \E createNew \in BOOLEAN : FindOrCreate(t, createNew)
                              \/ \E p \in PrepIds : Refresh(t, p)
  BY <1>1, <1>7 DEF prepsVars, LoseRendering, Leave, FindOrCreate, Refresh,
       ShowPages
<1> QED BY <1>2, <1>5, <1>6, <1>7 DEF PrepsNext

\* The invariant holds at all times.
LEMMA PrepsAlways == PrepsSpec => []PrepsInv
  BY PrepsBegin, PrepsStep, PTL DEF PrepsSpec

-----------------------------------------------------------------------------
\* Preparations are numbered rows with revisions below the bound, tabs are
\* where they can be.
THEOREM PreparationsTyped == PrepsSpec => []PrepsTypeOK
<1>1. PrepsInit => RevisionsEnd
  BY DEF PrepsInit, RevisionsEnd, Created
<1>2. PrepsInv /\ RevisionsEnd => PrepsTypeOK
  <2> SUFFICES ASSUME PrepsInv, RevisionsEnd PROVE PrepsTypeOK
    OBVIOUS
  <2>1. Created \subseteq PrepIds
    BY PreparationsAssumption DEF PrepsInv, PrepsTyped, PrepIds
  <2>2. ASSUME NEW p \in Created
        PROVE  preps[p] \in [state : {"preparing", "ready"}, count : 0..MaxPage,
                             rev : 1..MaxPrepRev + 1, pages : Pages, sealedAs : Pages]
    BY DEF PrepsInv, PrepsTyped, PrepRow, RevisionsEnd
  <2>3. \A t \in Tabs : tab[t].step \in {"idle", "create", "named", "reading", "shown"}
    BY DEF PrepsInv, TabsTyped, SeenRow, NoTab
  <2> QED BY <2>1, <2>2, <2>3 DEF PrepsTypeOK, PrepsInv, PrepsTyped
<1> QED BY <1>1, <1>2, PrepsBegin, PrepsStep, RevisionsStep, PTL DEF PrepsSpec

\* A sealed preparation that a quote accepts has the pages its sealer was
\* shown and no others (repo/preparations.rs, write_page and complete; assess).
THEOREM SealedIsWhatWasSeen == PrepsSpec => []UsableIsWhatWasSealed
<1>1. PrepsInv => UsableIsWhatWasSealed
  <2> SUFFICES ASSUME PrepsInv, NEW p \in Created, preps[p].state = "ready", Compatible(p)
               PROVE  /\ preps[p].pages = preps[p].sealedAs
                      /\ Present(p) = 1..preps[p].count
                      /\ \A n \in Present(p) : preps[p].pages[n] \in intact
    BY DEF UsableIsWhatWasSealed
  <2>1. preps[p].pages = preps[p].sealedAs
    BY DEF PrepsInv, SealedIsShown
  <2>2. preps[p].count \in Nat /\ Present(p) \subseteq 1..MaxPage
    <3>1. preps[p] \in PrepRow
      BY DEF PrepsInv, PrepsTyped
    <3> QED BY <3>1, PreparationsAssumption DEF PrepRow, Present, PageNumbers
  <2>3. /\ 1..preps[p].count \subseteq Present(p)
        /\ \A n \in Present(p) : n <= preps[p].count /\ preps[p].pages[n] \in intact
    BY DEF Compatible
  <2>4. Present(p) = 1..preps[p].count
    <3>1. \A n \in Present(p) : n \in 1..preps[p].count
      BY <2>2, <2>3, PreparationsAssumption
    <3> QED BY <2>3, <3>1
  <2> QED BY <2>1, <2>3, <2>4
<1> QED BY <1>1, PrepsAlways, PTL

-----------------------------------------------------------------------------
(* How a server is configured and started.                                 *)

Owning == {"locked", "ready", "executing", "serving", "stopping"}
Answering == {"ready", "executing", "serving", "stopping"}

\* What Settings::load lets pass.
LegalSettings(s) ==
    /\ s.lease \in 1 .. MaxLease /\ s.renew \in 1 .. s.lease - 1
    /\ s.remoteGeneration \in 1 .. MaxRemote /\ s.maxPages > 0

\* A command line that a start accepts with the sources as they are.
Permitted(line) ==
    Loads(line) /\ (line.command = "serve" => ListenSecure(line))

\* A process that loaded its settings, and what they are.
Ran(stage) ==
    /\ stage.step \in {"loaded", "prepared"} \cup Owning
    /\ stage = [step |-> stage.step, line |-> stage.line, edits |-> stage.edits,
              settings |-> stage.settings]
    /\ LegalSettings(stage.settings)
    /\ stage.line.command \in {"serve", "init"}
    /\ stage.line.command = "serve" => (stage.settings.exposed => stage.settings.proxied)
    /\ stage.step \in Answering => stage.line.command = "serve"

\* A process that was refused, but for its client: if the sources are still
\* what they were, they would refuse it again; and no check passed that
\* command line then.
Refused(stage) ==
    /\ stage.step = "refused"
    /\ stage.by # "client" =>
         /\ stage.line \in CommandLines
         /\ stage.edits \in 0 .. edits
         /\ stage.edits = edits => ~Permitted(stage.line)
         /\ foretold # [line |-> [stage.line EXCEPT !.command = "check"],
                        edits |-> stage.edits]

\* The last check that passed would pass again as long as nobody edits.
Foretells ==
    \/ foretold = NoVerdict
    \/ /\ foretold = [line |-> foretold.line, edits |-> foretold.edits]
       /\ foretold.line \in CommandLines
       /\ foretold.edits \in 0 .. edits
       /\ foretold.edits = edits => Loads(foretold.line) /\ ListenSecure(foretold.line)

SourcesOK ==
    /\ written = [place \in Places |-> written[place]]
    /\ Section(written["environment"])
    /\ \A place \in Places : written[place] = NoFile \/ Section(written[place])

OneOwner ==
    \A p, q \in Launches :
        launch[p].step \in Owning /\ launch[q].step \in Owning => p = q

OwnSchema ==
    \A p \in Launches : launch[p].step \in Answering => schema = SchemaOf[p]

ConfigurationInv ==
    /\ edits \in 0 .. MaxEdits /\ prepared \in BOOLEAN /\ schema \in Nat
    /\ SourcesOK
    /\ launch = [p \in Launches |-> launch[p]]
    /\ \A p \in Launches : launch[p] = Idle \/ Refused(launch[p]) \/ Ran(launch[p])
    /\ Foretells /\ OneOwner /\ OwnSchema

-----------------------------------------------------------------------------
(* The command is no source of a setting: check and serve read the same.   *)

\* Of one command line, check loads what serve loads and minds the listener
\* alike.
LEMMA CommandIsNoSource ==
    ASSUME NEW line \in Typed
    PROVE  LET other == [line EXCEPT !.command = "check"]
           IN  /\ other \in Typed
               /\ Loads(other) <=> Loads(line)
               /\ ListenSecure(other) <=> ListenSecure(line)
<1> DEFINE other == [line EXCEPT !.command = "check"]
<1>1. /\ other \in Typed
      /\ other.config = line.config /\ other.dataDir = line.dataDir
      /\ other.listen = line.listen
  BY DEF Typed
<1> HIDE DEF other
<1>2. FileOf(other) = FileOf(line)
  BY <1>1 DEF FileOf
<1>3. \A o : InFile(other, o) = InFile(line, o)
  BY <1>2 DEF InFile
<1>4. \A o : Given(other, o) = Given(line, o)
  BY <1>1, <1>3 DEF Given, OnCommandLine
<1>5. \A o : Number(other, o) = Number(line, o)
  BY <1>4 DEF Number
<1>6. FileReadable(other) <=> FileReadable(line)
  BY <1>2 DEF FileReadable
<1>7. TlsGiven(other) <=> TlsGiven(line)
  BY <1>3, <1>4 DEF TlsGiven
<1>8. /\ JobsLegal(other) <=> JobsLegal(line)
      /\ LimitsLegal(other) <=> LimitsLegal(line)
      /\ TextsLegal(other) <=> TextsLegal(line)
  BY <1>4, <1>5 DEF JobsLegal, LimitsLegal, TextsLegal
<1>9. TlsLegal(other) <=> TlsLegal(line)
  BY <1>4, <1>7 DEF TlsLegal
<1>10. Loads(other) <=> Loads(line)
  BY <1>4, <1>6, <1>8, <1>9 DEF Loads
<1>11. ListenSecure(other) <=> ListenSecure(line)
  BY <1>4, <1>7 DEF ListenSecure
<1> QED
  BY <1>1, <1>10, <1>11 DEF other

\* While nobody edits, a command line loads what it loaded.
LEMMA SourcesDecide ==
    ASSUME written' = written
    PROVE  \A line : /\ Loads(line)' <=> Loads(line)
                     /\ ListenSecure(line)' <=> ListenSecure(line)
<1> SUFFICES ASSUME NEW line
             PROVE  /\ Loads(line)' <=> Loads(line)
                    /\ ListenSecure(line)' <=> ListenSecure(line)
  OBVIOUS
<1>1. \A o : FromEnvironment(o)' = FromEnvironment(o)
  BY DEF FromEnvironment, InEnvironment
<1>2. FileOf(line)' = FileOf(line)
  BY DEF FileOf, InEnvironment
<1>3. \A o : Given(line, o)' = Given(line, o)
  BY <1>1, <1>2 DEF Given, InFile, OnCommandLine
<1>4. \A o : Number(line, o)' = Number(line, o)
  BY <1>3 DEF Number
<1>5. FileReadable(line)' <=> FileReadable(line)
  BY <1>2 DEF FileReadable
<1>6. TlsGiven(line)' <=> TlsGiven(line)
  BY <1>2, <1>3 DEF TlsGiven, InFile
<1>7. /\ JobsLegal(line)' <=> JobsLegal(line)
      /\ LimitsLegal(line)' <=> LimitsLegal(line)
      /\ TextsLegal(line)' <=> TextsLegal(line)
  BY <1>3, <1>4 DEF JobsLegal, LimitsLegal, TextsLegal
<1>8. TlsLegal(line)' <=> TlsLegal(line)
  BY <1>3, <1>6 DEF TlsLegal
<1>9. Loads(line)' <=> Loads(line)
  BY <1>3, <1>5, <1>7, <1>8 DEF Loads
<1>10. ListenSecure(line)' <=> ListenSecure(line)
  BY <1>3, <1>6 DEF ListenSecure
<1> QED
  BY <1>9, <1>10

\* What loaded is legal, and a serve that loaded minds the listener.
LEMMA LoadedIsLegal ==
    ASSUME NEW line, Permitted(line)
    PROVE  /\ LegalSettings(Settings(line))
           /\ line.command = "serve" =>
                 (Settings(line).exposed => Settings(line).proxied)
<1>1. JobsLegal(line) /\ LimitsLegal(line)
  BY DEF Permitted, Loads
<1>2. /\ Settings(line).lease = Number(line, "lease")
      /\ Settings(line).renew = Number(line, "renew")
      /\ Settings(line).remoteGeneration = Number(line, "remoteGeneration")
      /\ Settings(line).maxPages = Number(line, "maxPages")
      /\ Settings(line).exposed = (Given(line, "listen") = "anywhere")
      /\ Settings(line).proxied = (Given(line, "proxies") = "some")
  BY DEF Settings
<1>3. LegalSettings(Settings(line))
  BY <1>1, <1>2 DEF LegalSettings, JobsLegal, LimitsLegal
<1>4. ASSUME line.command = "serve" PROVE Settings(line).exposed => Settings(line).proxied
  BY <1>2, <1>4 DEF Permitted, ListenSecure
<1> QED
  BY <1>3, <1>4

\* A process that takes a step of its own keeps what it loaded.
LEMMA StepsKeepSettings ==
    ASSUME NEW stage, Ran(stage), NEW step \in {"prepared"} \cup Owning,
           step \in Answering => stage.line.command = "serve"
    PROVE  /\ Ran([stage EXCEPT !.step = step])
           /\ [stage EXCEPT !.step = step].step = step
<1> DEFINE next == [stage EXCEPT !.step = step]
<1>1. stage = [step |-> stage.step, line |-> stage.line, edits |-> stage.edits,
             settings |-> stage.settings]
  BY DEF Ran
<1>2. next = [step |-> step, line |-> stage.line, edits |-> stage.edits,
              settings |-> stage.settings]
  <2>1. \A a, b, c, d :
           [[step |-> a, line |-> b, edits |-> c, settings |-> d] EXCEPT !.step = step]
             = [step |-> step, line |-> b, edits |-> c, settings |-> d]
    OBVIOUS
  <2> QED
    BY <1>1, <2>1
<1>3. /\ next.step = step /\ next.line = stage.line /\ next.edits = stage.edits
      /\ next.settings = stage.settings
  BY <1>2
<1> HIDE DEF next
<1>4. next = [step |-> next.step, line |-> next.line, edits |-> next.edits,
              settings |-> next.settings]
  BY <1>2, <1>3
<1>5. Ran(next)
  BY <1>3, <1>4 DEF Ran
<1> QED
  BY <1>3, <1>5 DEF next

-----------------------------------------------------------------------------
(* Steps of a process.                                                     *)

\* A process moves and the sources stay: it may own the directory only if it
\* did or nobody does, and the schema moves only while nobody answers.
LEMMA LaunchMoves ==
    ASSUME ConfigurationInv, NEW p \in Launches, NEW stage,
           UNCHANGED <<written, edits, foretold>>,
           prepared' \in BOOLEAN, schema' \in Nat,
           launch' = [launch EXCEPT ![p] = stage],
           stage = Idle \/ Refused(stage) \/ Ran(stage),
           stage.step \in Owning => launch[p].step \in Owning \/ Owners = {},
           stage.step \in Answering => schema' = SchemaOf[p],
           schema' = schema \/ Owners = {} \/ Owners = {p}
    PROVE  ConfigurationInv'
<1> USE DEF ConfigurationInv
<1>1. /\ edits' \in 0 .. MaxEdits
      /\ launch' = [q \in Launches |-> launch'[q]]
      /\ launch'[p] = stage
      /\ \A q \in Launches \ {p} : launch'[q] = launch[q]
  OBVIOUS
<1>2. SourcesOK'
  BY DEF SourcesOK, Section
<1>3. \A r : Refused(r) => Refused(r)'
  <2>1. written' = written
    OBVIOUS
  <2>2. \A line : Permitted(line)' <=> Permitted(line)
    BY <2>1, SourcesDecide DEF Permitted
  <2> QED
    BY <2>2 DEF Refused
<1>4. ASSUME NEW q \in Launches
      PROVE  (launch[q] = Idle \/ Refused(launch[q]) \/ Ran(launch[q]))'
  <2>1. PICK r : r = launch'[q]
    OBVIOUS
  <2>2. r = Idle \/ Refused(r) \/ Ran(r)
    BY <1>1, <2>1
  <2>3. r = Idle \/ Refused(r)' \/ Ran(r)
    BY <1>3, <2>2
  <2> QED
    BY <2>1, <2>3 DEF Idle, Ran, LegalSettings, Refused
<1>5. Foretells'
  <2>1. Foretells /\ written' = written
    OBVIOUS
  <2>2. \A line : /\ Loads(line)' <=> Loads(line)
                  /\ ListenSecure(line)' <=> ListenSecure(line)
    BY <2>1, SourcesDecide
  <2> QED
    BY <2>1, <2>2 DEF Foretells, NoVerdict
<1>6. OneOwner'
  BY <1>1 DEF OneOwner, Owners, Owning
<1>7. OwnSchema'
  BY <1>1 DEF OwnSchema, Owners, Owning, Answering
<1> QED
  BY <1>1, <1>2, <1>4, <1>5, <1>6, <1>7

\* A start is refused only what no check of the same sources passed.
LEMMA LoadKeeps ==
    ASSUME ConfigurationInv, NEW p \in Launches, NEW line \in CommandLines, Load(p, line)
    PROVE  ConfigurationInv'
<1> DEFINE accepted == Loads(line) /\ (line.command = "serve" => ListenSecure(line))
           ran == [step |-> "loaded", line |-> line, edits |-> edits,
                   settings |-> Settings(line)]
           refused == [step |-> "refused", line |-> line, edits |-> edits, by |-> "settings"]
<1>1. PICK stage : stage = IF accepted THEN ran ELSE refused
  OBVIOUS
<1>2. launch' = [launch EXCEPT ![p] = stage]
  BY <1>1 DEF Load
<1>3. CASE accepted
  <2>1. Permitted(line)
    BY <1>3 DEF Permitted
  <2>2. LegalSettings(Settings(line)) /\ (line.command = "serve" =>
              (Settings(line).exposed => Settings(line).proxied))
    BY <2>1, LoadedIsLegal
  <2>3. /\ stage = ran /\ stage.step = "loaded" /\ stage.line = line /\ stage.edits = edits
        /\ stage.settings = Settings(line)
    BY <1>1, <1>3
  <2>4. Ran(stage)
    <3> HIDE DEF accepted
    <3>1. stage = [step |-> stage.step, line |-> stage.line, edits |-> stage.edits,
                 settings |-> stage.settings]
      BY <2>3
    <3>2. line.command \in {"serve", "init"}
      BY DEF Load
    <3> QED
      BY <2>2, <2>3, <3>1, <3>2 DEF Ran, Answering
  <2>5. stage.step \notin Owning /\ stage.step \notin Answering
    BY <2>3 DEF Owning, Answering
  <2> QED
    BY <1>2, <2>4, <2>5, LaunchMoves DEF Load, ConfigurationInv
<1>4. CASE ~accepted
  <2>1. stage = refused /\ stage.step = "refused" /\ stage.line = line /\ stage.edits = edits
    BY <1>1, <1>4
  <2>2. ~Permitted(line)
    BY <1>4 DEF Permitted
  <2>3. foretold # [line |-> [line EXCEPT !.command = "check"], edits |-> edits]
    <3> SUFFICES ASSUME foretold = [line |-> [line EXCEPT !.command = "check"],
                                    edits |-> edits]
                 PROVE  FALSE
      OBVIOUS
    <3>1. line \in Typed
      BY SourcesAssumption
    <3>2. /\ [line EXCEPT !.command = "check"] \in Typed
          /\ Loads([line EXCEPT !.command = "check"]) <=> Loads(line)
          /\ ListenSecure([line EXCEPT !.command = "check"]) <=> ListenSecure(line)
      BY <3>1, CommandIsNoSource
    <3>3. /\ foretold.line = [line EXCEPT !.command = "check"]
          /\ foretold.edits = edits
      OBVIOUS
    <3>4. foretold # NoVerdict
      BY <3>2, <3>3, SourcesAssumption DEF NoVerdict
    <3>5. Loads(foretold.line) /\ ListenSecure(foretold.line)
      BY <3>3, <3>4 DEF ConfigurationInv, Foretells
    <3> QED
      BY <2>2, <3>2, <3>3, <3>5 DEF Permitted
  <2>4. edits \in 0 .. edits
    BY DEF ConfigurationInv
  <2>5. Refused(stage)
    BY <2>1, <2>2, <2>3, <2>4 DEF Refused
  <2>6. stage.step \notin Owning /\ stage.step \notin Answering
    BY <2>1 DEF Owning, Answering
  <2> QED
    BY <1>2, <2>5, <2>6, LaunchMoves DEF Load, ConfigurationInv
<1> QED
  BY <1>3, <1>4

\* A step that ends a process.
LEMMA ExitKeeps ==
    ASSUME ConfigurationInv, NEW p \in Launches, Exits(p),
           UNCHANGED <<written, edits, prepared, schema, foretold>>
    PROVE  ConfigurationInv'
<1>1. PICK stage : stage = Idle
  OBVIOUS
<1>2. stage.step \notin Owning /\ stage.step \notin Answering
  BY <1>1 DEF Idle, Owning, Answering
<1>3. launch' = [launch EXCEPT ![p] = stage]
  BY <1>1 DEF Exits
<1> QED
  BY <1>1, <1>2, <1>3, LaunchMoves DEF ConfigurationInv

\* A process that loaded goes on to another step.
LEMMA ProceedKeeps ==
    ASSUME ConfigurationInv, NEW p \in Launches, NEW step \in {"prepared"} \cup Owning,
           Proceeds(p, step), launch[p].step \in {"loaded", "prepared"} \cup Owning,
           UNCHANGED <<written, edits, schema, foretold>>, prepared' \in BOOLEAN,
           step \in Owning => launch[p].step \in Owning \/ Owners = {},
           step \in Answering =>
               launch[p].line.command = "serve" /\ schema = SchemaOf[p]
    PROVE  ConfigurationInv'
<1>1. PICK stage : stage = [launch[p] EXCEPT !.step = step]
  OBVIOUS
<1>2. Ran(launch[p])
  BY DEF ConfigurationInv, Idle, Refused, Owning
<1>3. Ran(stage) /\ stage.step = step
  BY <1>1, <1>2, StepsKeepSettings
<1>4. launch' = [launch EXCEPT ![p] = stage]
  BY <1>1 DEF Proceeds
<1> QED
  BY <1>3, <1>4, LaunchMoves DEF ConfigurationInv

\* The directory is prepared before it is locked.
LEMMA PrepareKeeps ==
    ASSUME ConfigurationInv, NEW p \in Launches, Prepare(p)
    PROVE  ConfigurationInv'
<1>1. CASE Proceeds(p, "prepared")
  <2>1. prepared' \in BOOLEAN
    BY DEF Prepare, ConfigurationInv
  <2>2. "prepared" \notin Owning /\ "prepared" \notin Answering
    BY DEF Owning, Answering
  <2> QED
    BY <1>1, <2>1, <2>2, ProceedKeeps DEF Prepare, IsIn
<1>2. CASE Exits(p) /\ UNCHANGED prepared
  BY <1>2, ExitKeeps DEF Prepare
<1> QED
  BY <1>1, <1>2 DEF Prepare

\* The lock is given only while nobody owns the directory.
LEMMA LockKeeps ==
    ASSUME ConfigurationInv, NEW p \in Launches, Lock(p)
    PROVE  ConfigurationInv'
<1>1. CASE Owners = {} /\ Proceeds(p, "locked")
  <2>1. "locked" \in Owning /\ "locked" \notin Answering /\ prepared' \in BOOLEAN
    BY DEF Owning, Answering, Lock, ConfigurationInv
  <2> QED
    BY <1>1, <2>1, ProceedKeeps DEF Lock, IsIn
<1>2. CASE Exits(p)
  BY <1>2, ExitKeeps DEF Lock
<1> QED
  BY <1>1, <1>2 DEF Lock

\* Only the owner of the directory migrates, before it answers anybody.
LEMMA MigrateKeeps ==
    ASSUME ConfigurationInv, NEW p \in Launches, Migrate(p)
    PROVE  ConfigurationInv'
<1>1. /\ launch[p].step = "locked" /\ SchemaOf[p] \in Nat
      /\ UNCHANGED <<written, edits, prepared, foretold>>
  BY ConfigurationAssumption DEF Migrate, IsIn
<1>2. CASE schema > SchemaOf[p]
  <2>1. Exits(p) /\ UNCHANGED schema
    BY <1>1, <1>2 DEF Migrate, ConfigurationInv
  <2> QED
    BY <1>1, <2>1, ExitKeeps
<1>3. CASE schema < SchemaOf[p]
  <2>1. schema' = schema + 1 /\ UNCHANGED launch
    BY <1>1, <1>3 DEF Migrate, ConfigurationInv
  <2>2. PICK stage : stage = launch[p]
    OBVIOUS
  <2>3. launch' = [launch EXCEPT ![p] = stage]
    BY <2>1, <2>2 DEF ConfigurationInv
  <2>4. stage = Idle \/ Refused(stage) \/ Ran(stage)
    BY <2>2 DEF ConfigurationInv
  <2>5. stage.step \in Owning /\ stage.step \notin Answering /\ launch[p].step \in Owning
    BY <1>1, <2>2 DEF Owning, Answering
  <2>6. Owners = {p}
    BY <1>1 DEF ConfigurationInv, OneOwner, Owners, Owning
  <2>7. schema' \in Nat /\ prepared' \in BOOLEAN
    BY <1>1, <2>1 DEF ConfigurationInv
  <2> QED
    BY <1>1, <2>3, <2>4, <2>5, <2>6, <2>7, LaunchMoves
<1>4. CASE schema = SchemaOf[p]
  <2>1. /\ IF launch[p].line.command = "init" THEN Exits(p) ELSE Proceeds(p, "ready")
        /\ UNCHANGED schema
    BY <1>1, <1>4 DEF Migrate, ConfigurationInv
  <2>2. CASE launch[p].line.command = "init"
    BY <1>1, <2>1, <2>2, ExitKeeps
  <2>3. CASE launch[p].line.command # "init"
    <3>1. launch[p].line.command = "serve"
      BY <1>1, <2>3 DEF ConfigurationInv, Idle, Refused, Ran
    <3>2. /\ "ready" \in Owning /\ launch[p].step \in Owning /\ prepared' \in BOOLEAN
          /\ Proceeds(p, "ready")
      BY <1>1, <2>1, <2>3 DEF Owning, ConfigurationInv
    <3> QED
      BY <1>1, <1>4, <2>1, <3>1, <3>2, ProceedKeeps
  <2> QED
    BY <2>2, <2>3
<1> QED
  BY <1>1, <1>2, <1>3, <1>4 DEF ConfigurationInv

\* What Settings::load let pass, the executor does not refuse; the client
\* may be.
LEMMA StartExecutorKeeps ==
    ASSUME ConfigurationInv, NEW p \in Launches, StartExecutor(p)
    PROVE  ConfigurationInv'
<1>1. launch[p].step = "ready" /\ UNCHANGED <<written, edits, prepared, schema, foretold>>
  BY DEF StartExecutor, IsIn
<1>2. Ran(launch[p])
  BY <1>1 DEF ConfigurationInv, Idle, Refused
<1>3. ExecutorLegal(launch[p].settings)
  BY <1>2, ConfigurationAssumption DEF Ran, LegalSettings, ExecutorLegal
<1>4. CASE Proceeds(p, "executing")
  <2>1. /\ "executing" \in Owning /\ launch[p].step \in Owning /\ prepared' \in BOOLEAN
        /\ launch[p].line.command = "serve" /\ schema = SchemaOf[p]
    BY <1>1, <1>2 DEF Owning, Ran, Answering, ConfigurationInv, OwnSchema
  <2> QED
    BY <1>1, <1>4, <2>1, ProceedKeeps
<1>5. CASE launch' = [launch EXCEPT ![p] = [step |-> "refused", line |-> @.line,
                                            edits |-> @.edits, by |-> "client"]]
  <2>1. PICK stage : stage = [step |-> "refused", line |-> launch[p].line,
                              edits |-> launch[p].edits, by |-> "client"]
    OBVIOUS
  <2>2. stage.step = "refused" /\ stage.by = "client"
    BY <2>1
  <2>3. Refused(stage) /\ stage.step \notin Owning /\ stage.step \notin Answering
    BY <2>2 DEF Refused, Owning, Answering
  <2>4. launch' = [launch EXCEPT ![p] = stage]
    BY <1>5, <2>1
  <2> QED
    BY <1>1, <2>3, <2>4, LaunchMoves DEF ConfigurationInv
<1> QED
  BY <1>3, <1>4, <1>5 DEF StartExecutor

\* A server that binds has the settings it was checked with.
LEMMA BindKeeps ==
    ASSUME ConfigurationInv, NEW p \in Launches, Bind(p)
    PROVE  ConfigurationInv'
<1>1. launch[p].step = "executing" /\ UNCHANGED <<written, edits, prepared, schema, foretold>>
  BY DEF Bind, IsIn
<1>2. Ran(launch[p])
  BY <1>1 DEF ConfigurationInv, Idle, Refused
<1>3. /\ "serving" \in Owning /\ launch[p].step \in Owning /\ prepared' \in BOOLEAN
      /\ launch[p].line.command = "serve" /\ schema = SchemaOf[p]
  BY <1>1, <1>2 DEF Owning, Ran, Answering, ConfigurationInv, OwnSchema
<1>4. CASE Proceeds(p, "serving")
  BY <1>1, <1>3, <1>4, ProceedKeeps
<1>5. CASE Exits(p)
  BY <1>1, <1>5, ExitKeeps
<1> QED
  BY <1>4, <1>5 DEF Bind

\* A server that stops owns the directory until it is gone.
LEMMA StopServingKeeps ==
    ASSUME ConfigurationInv, NEW p \in Launches, StopServing(p)
    PROVE  ConfigurationInv'
<1>1. /\ launch[p].step = "serving" /\ Proceeds(p, "stopping")
      /\ UNCHANGED <<written, edits, prepared, schema, foretold>>
  BY DEF StopServing, IsIn
<1>2. Ran(launch[p])
  BY <1>1 DEF ConfigurationInv, Idle, Refused
<1>3. /\ "stopping" \in Owning /\ launch[p].step \in Owning /\ prepared' \in BOOLEAN
      /\ launch[p].line.command = "serve" /\ schema = SchemaOf[p]
  BY <1>1, <1>2 DEF Owning, Ran, Answering, ConfigurationInv, OwnSchema
<1> QED
  BY <1>1, <1>3, ProceedKeeps

-----------------------------------------------------------------------------
(* The administrator.                                                      *)

\* An edit keeps files files, and no verdict of before is about what is
\* written now.
LEMMA EditKeeps ==
    ASSUME ConfigurationInv, Edit
    PROVE  ConfigurationInv'
<1>1. /\ edits' = edits + 1 /\ edits \in 0 .. MaxEdits /\ edits < MaxEdits /\ MaxEdits \in Nat
      /\ UNCHANGED <<prepared, schema, launch, foretold>>
  BY ConfigurationAssumption DEF ConfigurationInv, Edit
<1>2. SourcesOK'
  <2>1. SourcesOK
    BY DEF ConfigurationInv
  <2>2. ASSUME NEW place \in Places, NEW option \in Options, written[place] # NoFile,
               NEW value \in Enterable(option) \cup {NotSet},
               written' = [written EXCEPT ![place][option] = value]
        PROVE  SourcesOK'
    <3>1. Section(written[place])
      BY <2>1, <2>2 DEF SourcesOK
    <3>2. PICK section : section = [written[place] EXCEPT ![option] = value]
      OBVIOUS
    <3>3. Section(section)
      BY <2>2, <3>1, <3>2 DEF Section
    <3>4. written' = [written EXCEPT ![place] = section]
      BY <2>2, <3>2
    <3>5. /\ written' = [q \in Places |-> written'[q]]
          /\ written'[place] = section
          /\ \A q \in Places \ {place} : written'[q] = written[q]
      BY <2>1, <3>4 DEF SourcesOK
    <3>6. \A q \in Places : written'[q] = NoFile \/ Section(written'[q])
      BY <2>1, <3>3, <3>5 DEF SourcesOK
    <3>7. Section(written'["environment"])
      BY <2>1, <3>3, <3>5 DEF SourcesOK, Places
    <3> QED
      BY <3>5, <3>6, <3>7 DEF SourcesOK, Section
  <2>3. ASSUME NEW place \in Files, written' = [written EXCEPT ![place] = NoFile]
        PROVE  SourcesOK'
    <3>1. /\ written' = [q \in Places |-> written'[q]]
          /\ written'[place] = NoFile /\ place # "environment"
          /\ \A q \in Places \ {place} : written'[q] = written[q]
      BY <2>1, <2>3 DEF SourcesOK, Places, Files
    <3>2. \A q \in Places : written'[q] = NoFile \/ Section(written'[q])
      BY <2>1, <3>1 DEF SourcesOK
    <3>3. Section(written'["environment"])
      BY <2>1, <3>1 DEF SourcesOK, Places
    <3> QED
      BY <3>1, <3>2, <3>3 DEF SourcesOK, Section
  <2>4. \A place \in Places : OptionsOf(place) \subseteq Options
    BY DEF OptionsOf
  <2> QED
    BY <2>2, <2>3, <2>4 DEF Edit
<1>3. \A r : Refused(r) => Refused(r)'
  BY <1>1 DEF Refused
<1>4. ASSUME NEW q \in Launches
      PROVE  (launch[q] = Idle \/ Refused(launch[q]) \/ Ran(launch[q]))'
  <2>1. PICK r : r = launch'[q]
    OBVIOUS
  <2>2. r = Idle \/ Refused(r) \/ Ran(r)
    BY <1>1, <2>1 DEF ConfigurationInv
  <2>3. r = Idle \/ Refused(r)' \/ Ran(r)
    BY <1>3, <2>2
  <2> QED
    BY <2>1, <2>3 DEF Idle, Ran, LegalSettings, Refused
<1>5. Foretells'
  BY <1>1 DEF ConfigurationInv, Foretells, NoVerdict
<1>6. OneOwner' /\ OwnSchema'
  BY <1>1 DEF ConfigurationInv, OneOwner, OwnSchema
<1> QED
  BY <1>1, <1>2, <1>4, <1>5, <1>6 DEF ConfigurationInv

\* A check passes what no start of the same sources was refused.
LEMMA CheckKeeps ==
    ASSUME ConfigurationInv, NEW p \in Launches, NEW line \in CommandLines, Check(p, line)
    PROVE  ConfigurationInv'
<1>1. /\ Loads(line) /\ ListenSecure(line)
      /\ foretold' = [line |-> line, edits |-> edits]
      /\ UNCHANGED <<written, edits, prepared, schema, launch>>
      /\ edits \in Nat
  BY ConfigurationAssumption DEF Check, ConfigurationInv
<1>2. \A l : /\ Loads(l)' <=> Loads(l)
             /\ ListenSecure(l)' <=> ListenSecure(l)
  BY <1>1, SourcesDecide
<1>3. Foretells'
  <2>1. foretold'.line = line /\ foretold'.edits = edits
    BY <1>1
  <2>2. /\ foretold' = [line |-> foretold'.line, edits |-> foretold'.edits]
        /\ foretold'.edits \in 0 .. edits'
    BY <1>1, <2>1
  <2>3. Loads(line)' /\ ListenSecure(line)'
    BY <1>1, <1>2
  <2>4. PICK l : l = foretold'.line
    OBVIOUS
  <2>5. Loads(l)' /\ ListenSecure(l)' /\ l \in CommandLines
    BY <2>1, <2>3, <2>4
  <2> QED
    BY <2>2, <2>4, <2>5 DEF Foretells
<1>4. ASSUME NEW r, Refused(r)
      PROVE  Refused(r)'
  <2>1. Permitted(r.line)' <=> Permitted(r.line)
    BY <1>2 DEF Permitted
  <2>2. ASSUME foretold' = [line |-> [r.line EXCEPT !.command = "check"],
                            edits |-> r.edits],
               r.by # "client"
        PROVE  FALSE
    <3>1. line = [r.line EXCEPT !.command = "check"] /\ edits = r.edits
      BY <1>1, <2>2
    <3>2. r.line \in Typed /\ ~Permitted(r.line)
      BY <1>4, <2>2, <3>1, SourcesAssumption DEF Refused
    <3>3. /\ Loads([r.line EXCEPT !.command = "check"]) <=> Loads(r.line)
          /\ ListenSecure([r.line EXCEPT !.command = "check"]) <=> ListenSecure(r.line)
      BY <3>2, CommandIsNoSource
    <3> QED
      BY <1>1, <3>1, <3>2, <3>3 DEF Permitted
  <2> QED
    BY <1>1, <1>4, <2>1, <2>2 DEF Refused
<1>5. ASSUME NEW q \in Launches
      PROVE  (launch[q] = Idle \/ Refused(launch[q]) \/ Ran(launch[q]))'
  <2>1. PICK r : r = launch'[q]
    OBVIOUS
  <2>2. r = Idle \/ Refused(r) \/ Ran(r)
    BY <1>1, <2>1 DEF ConfigurationInv
  <2>3. r = Idle \/ Refused(r)' \/ Ran(r)
    BY <1>4, <2>2
  <2> QED
    BY <2>1, <2>3 DEF Idle, Ran, LegalSettings, Refused
<1>6. SourcesOK' /\ OneOwner' /\ OwnSchema'
  BY <1>1 DEF ConfigurationInv, SourcesOK, Section, OneOwner, OwnSchema
<1> QED
  BY <1>1, <1>3, <1>5, <1>6 DEF ConfigurationInv

-----------------------------------------------------------------------------

\* No process, and sources as they were first written.
LEMMA ConfigurationBegins == ConfigurationInit => ConfigurationInv
<1> SUFFICES ASSUME ConfigurationInit PROVE ConfigurationInv
  OBVIOUS
<1>1. SourcesOK
  BY SourcesAssumption DEF ConfigurationInit, SourcesOK, Places
<1>2. \A p \in Launches : launch[p] = Idle /\ launch[p].step = "none"
  BY DEF ConfigurationInit, Idle
<1>3. OneOwner /\ OwnSchema
  BY <1>2 DEF OneOwner, OwnSchema, Owning, Answering
<1> QED
  BY <1>1, <1>2, <1>3, ConfigurationAssumption
     DEF ConfigurationInit, ConfigurationInv, Foretells

\* Every step keeps the invariant.
LEMMA ConfigurationKept ==
    ConfigurationInv /\ [ConfigurationNext]_configVars => ConfigurationInv'
<1> SUFFICES ASSUME ConfigurationInv, [ConfigurationNext]_configVars
             PROVE  ConfigurationInv'
  OBVIOUS
<1>1. CASE Edit
  BY <1>1, EditKeeps
<1>2. ASSUME NEW p \in Launches, NEW line \in CommandLines, Check(p, line) \/ Load(p, line)
      PROVE  ConfigurationInv'
  BY <1>2, CheckKeeps, LoadKeeps
<1>3. ASSUME NEW p \in Launches,
             \/ Prepare(p) \/ Lock(p) \/ Migrate(p) \/ StartExecutor(p)
             \/ Bind(p) \/ StopServing(p) \/ End(p)
      PROVE  ConfigurationInv'
  BY <1>3, PrepareKeeps, LockKeeps, MigrateKeeps, StartExecutorKeeps, BindKeeps,
     StopServingKeeps, ExitKeeps DEF End
<1>4. CASE UNCHANGED configVars
  <2>1. \A l : /\ Loads(l)' <=> Loads(l)
               /\ ListenSecure(l)' <=> ListenSecure(l)
    BY <1>4, SourcesDecide DEF configVars
  <2>2. \A r : Refused(r) => Refused(r)'
    BY <1>4, <2>1 DEF configVars, Refused, Permitted
  <2>3. ASSUME NEW q \in Launches
        PROVE  (launch[q] = Idle \/ Refused(launch[q]) \/ Ran(launch[q]))'
    <3>1. PICK r : r = launch'[q]
      OBVIOUS
    <3>2. r = Idle \/ Refused(r) \/ Ran(r)
      BY <1>4, <3>1 DEF ConfigurationInv, configVars
    <3>3. r = Idle \/ Refused(r)' \/ Ran(r)
      BY <2>2, <3>2
    <3> QED
      BY <3>1, <3>3 DEF Idle, Ran, LegalSettings, Refused
  <2>4. Foretells'
    BY <1>4, <2>1 DEF ConfigurationInv, configVars, Foretells, NoVerdict
  <2> QED
    BY <1>4, <2>3, <2>4
       DEF ConfigurationInv, configVars, SourcesOK, Section, OneOwner, OwnSchema
<1> QED
  BY <1>1, <1>2, <1>3, <1>4 DEF ConfigurationNext

\* Files stay files, and a process is in one of the steps of a start.
THEOREM ConfigurationTyped == ConfigurationSpec => []ConfigurationTypeOK
<1>1. ConfigurationInv => ConfigurationTypeOK
  <2> SUFFICES ASSUME ConfigurationInv PROVE ConfigurationTypeOK
    OBVIOUS
  <2>1. ASSUME NEW p \in Launches
        PROVE  launch[p].step \in
                  {"none", "refused", "loaded", "prepared", "locked", "ready",
                   "executing", "serving", "stopping"}
    <3>1. launch[p] = Idle \/ Refused(launch[p]) \/ Ran(launch[p])
      BY DEF ConfigurationInv
    <3> QED
      BY <3>1 DEF Idle, Refused, Ran, Owning
  <2> QED
    BY <2>1 DEF ConfigurationInv, ConfigurationTypeOK, SourcesOK
<1> QED
  BY <1>1, ConfigurationBegins, ConfigurationKept, PTL DEF ConfigurationSpec

\* Whatever mixture of sources a process was started with and whoever else
\* is on the directory: the executor runs alone, on its own schema, with
\* legal leases and limits, exposed only behind a proxy (Settings::load,
\* DirLock, the migrations, run_serve); and of what a check of the same line
\* just passed, a start is refused nothing but the timeout of its client.
THEOREM StartsAreAsChecked == ConfigurationSpec => []ServersAreAsChecked
<1>1. ConfigurationInv => ServersAreAsChecked
  <2> SUFFICES ASSUME ConfigurationInv, NEW p \in Launches
               PROVE  /\ launch[p].step \in {"executing", "serving", "stopping"} =>
                         LET s == launch[p].settings
                         IN  /\ Owners = {p} /\ schema = SchemaOf[p]
                             /\ 1 <= s.renew /\ s.renew < s.lease /\ s.lease <= MaxLease
                             /\ 1 <= s.remoteGeneration /\ s.remoteGeneration <= MaxRemote
                             /\ s.maxPages > 0
                             /\ s.exposed => s.proxied
                      /\ launch[p].step = "refused" /\ launch[p].by # "client" =>
                         foretold # [line |-> [launch[p].line EXCEPT !.command = "check"],
                                     edits |-> launch[p].edits]
    BY DEF ServersAreAsChecked
  <2>1. launch[p] = Idle \/ Refused(launch[p]) \/ Ran(launch[p])
    BY DEF ConfigurationInv
  <2>2. ASSUME launch[p].step \in {"executing", "serving", "stopping"}
        PROVE  LET s == launch[p].settings
               IN  /\ Owners = {p} /\ schema = SchemaOf[p]
                   /\ 1 <= s.renew /\ s.renew < s.lease /\ s.lease <= MaxLease
                   /\ 1 <= s.remoteGeneration /\ s.remoteGeneration <= MaxRemote
                   /\ s.maxPages > 0
                   /\ s.exposed => s.proxied
    <3>1. Ran(launch[p])
      BY <2>1, <2>2 DEF Idle, Refused
    <3>2. launch[p].line.command = "serve"
      BY <2>2, <3>1 DEF Ran, Answering
    <3>3. Owners = {p}
      BY <2>2 DEF ConfigurationInv, OneOwner, Owners, Owning
    <3>4. schema = SchemaOf[p]
      BY <2>2 DEF ConfigurationInv, OwnSchema, Answering
    <3>5. LegalSettings(launch[p].settings)
      BY <3>1 DEF Ran
    <3>6. launch[p].settings.exposed => launch[p].settings.proxied
      BY <3>1, <3>2 DEF Ran
    <3> QED
      BY <3>3, <3>4, <3>5, <3>6, ConfigurationAssumption DEF LegalSettings
  <2>3. ASSUME launch[p].step = "refused", launch[p].by # "client"
        PROVE  foretold # [line |-> [launch[p].line EXCEPT !.command = "check"],
                           edits |-> launch[p].edits]
    <3>1. Refused(launch[p])
      BY <2>1, <2>3 DEF Idle, Ran, Owning
    <3> QED
      BY <2>3, <3>1 DEF Refused
  <2> QED
    BY <2>2, <2>3
<1> QED
  BY <1>1, ConfigurationBegins, ConfigurationKept, PTL DEF ConfigurationSpec

-----------------------------------------------------------------------------
(* Backup and restore.                                                     *)

BackupRow ==
    [step : {"snapshot", "scrub"}, dir : Dirs, out : Archives]
      \cup [step : {"copy"}, dir : Dirs, out : Archives, left : SUBSET Blobs]

RestoreRow ==
    [step : {"checked"}, from : Archives, dir : Dirs]
      \cup [step : {"copy"}, from : Archives, dir : Dirs,
            left : SUBSET (Blobs \cup {"db"})]

\* A backup that has all of its source: every row, every file that was there.
WholeArchive(a) ==
    /\ a.rows = a.source.rows /\ ~a.sessions
    /\ a.rows \subseteq a.files \cup a.missing

\* Nothing is recorded as missing that was there.
Sound(a) ==
    /\ a.files \cup a.missing \subseteq a.rows
    /\ a.missing \cap a.source.files = {}
    /\ a.manifest => WholeArchive(a)

\* A running backup has its source under its lock, and its rows from it.
BackupInv ==
    backup # NotRunning =>
        LET a == archive[backup.out]
        IN  /\ a \in ArchiveRow /\ ~a.manifest
            /\ dir[backup.dir] = a.source /\ a.source.db
            /\ backup.step = "snapshot" => a.rows = {}
            /\ backup.step # "snapshot" => a.rows = a.source.rows
            /\ backup.step = "copy" =>
                  /\ ~a.sessions /\ backup.left \subseteq a.rows
                  /\ a.rows \subseteq a.files \cup a.missing \cup backup.left

\* A restore that passed its checks has a complete backup, which nobody
\* writes; what it copied is in its target, which nobody else touches.
RestoreInv ==
    restore # NotRunning =>
        LET a == archive[restore.from]
            d == restore.dir
        IN  /\ a \in ArchiveRow /\ WholeArchive(a)
            /\ backup # NotRunning => backup.out # restore.from
            /\ restore.step = "copy" =>
                  /\ dir[d] \in DirRow
                  /\ backup # NotRunning => backup.dir # d
                  /\ a.files \subseteq dir[d].files \cup restore.left
                  /\ "db" \notin restore.left =>
                        dir[d].rows = a.rows /\ ~dir[d].sessions

BackupsInv ==
    /\ dir \in [Dirs -> DirRow \cup {NoFiles}]
    /\ archive \in [Archives -> ArchiveRow \cup {NoFiles}]
    /\ backup \in BackupRow \cup {NotRunning}
    /\ restore \in RestoreRow \cup {NotRunning}
    /\ \A b \in Archives : archive[b] # NoFiles => Sound(archive[b])
    /\ BackupInv /\ RestoreInv

-----------------------------------------------------------------------------
(* The rows of the commands.                                               *)

\* What a call is about: one that does not run is about nothing.
LEMMA BackupRows ==
    /\ NotRunning \notin BackupRow /\ NotRunning \notin RestoreRow
    /\ \A r \in BackupRow :
          /\ r.dir \in Dirs /\ r.out \in Archives
          /\ r.step \in {"snapshot", "scrub", "copy"}
          /\ r.step = "copy" => r \in [step : {"copy"}, dir : Dirs, out : Archives,
                                       left : SUBSET Blobs]
    /\ \A r \in RestoreRow :
          /\ r.dir \in Dirs /\ r.from \in Archives /\ r.step \in {"checked", "copy"}
          /\ r.step = "copy" => r \in [step : {"copy"}, from : Archives, dir : Dirs,
                                       left : SUBSET (Blobs \cup {"db"})]
<1>1. \A r \in BackupRow : r.step \in {"snapshot", "scrub", "copy"}
  BY DEF BackupRow
<1>2. \A r \in RestoreRow : r.step \in {"checked", "copy"}
  BY DEF RestoreRow
<1>3. NotRunning.step = "none"
  BY DEF NotRunning
<1>4. NotRunning \notin BackupRow /\ NotRunning \notin RestoreRow
  BY <1>1, <1>2, <1>3
<1>5. \A r \in BackupRow : r.dir \in Dirs /\ r.out \in Archives
  BY DEF BackupRow
<1>6. \A r \in RestoreRow : r.dir \in Dirs /\ r.from \in Archives
  BY DEF RestoreRow
<1>7. \A r \in BackupRow :
         r.step = "copy" => r \in [step : {"copy"}, dir : Dirs, out : Archives,
                                   left : SUBSET Blobs]
  BY DEF BackupRow
<1>8. \A r \in RestoreRow :
         r.step = "copy" => r \in [step : {"copy"}, from : Archives, dir : Dirs,
                                   left : SUBSET (Blobs \cup {"db"})]
  BY DEF RestoreRow
<1> QED
  BY <1>1, <1>2, <1>4, <1>5, <1>6, <1>7, <1>8

\* A command that runs has a row of its kind.
LEMMA Running ==
    ASSUME BackupsInv
    PROVE  /\ backup # NotRunning <=> backup \in BackupRow
           /\ restore # NotRunning <=> restore \in RestoreRow
           /\ backup # NotRunning <=> backup.step # "none"
           /\ restore # NotRunning <=> restore.step # "none"
BY BackupRows DEF BackupsInv, NotRunning

-----------------------------------------------------------------------------
(* Data directories between the commands.                                  *)

\* A directory that no command holds changes under no command.
LEMMA UnlockedKeeps ==
    ASSUME BackupsInv, NEW d \in Dirs, ~Locked(d), NEW r \in DirRow,
           dir' = [dir EXCEPT ![d] = r], UNCHANGED <<archive, backup, restore>>
    PROVE  BackupsInv'
<1>1. dir' \in [Dirs -> DirRow \cup {NoFiles}]
  BY DEF BackupsInv
<1>2. \A e \in Dirs \ {d} : dir'[e] = dir[e]
  BY DEF BackupsInv
<1>3. BackupInv'
  <2>1. ASSUME backup # NotRunning PROVE backup.dir \in Dirs \ {d}
    BY <2>1, Running, BackupRows DEF Locked
  <2> QED
    BY <1>2, <2>1 DEF BackupsInv, BackupInv
<1>4. RestoreInv'
  <2>1. ASSUME restore # NotRunning, restore.step = "copy"
        PROVE  restore.dir \in Dirs \ {d}
    BY <2>1, Running, BackupRows DEF Locked
  <2> QED
    BY <1>2, <2>1 DEF BackupsInv, RestoreInv, WholeArchive
<1> QED
  BY <1>1, <1>3, <1>4 DEF BackupsInv, Sound, WholeArchive

\* A new data directory is empty and consistent.
LEMMA InitDirKeeps ==
    ASSUME BackupsInv, NEW d \in Dirs, InitDir(d)
    PROVE  BackupsInv'
<1>1. PICK r : r = IF dir[d] = NoFiles THEN [EmptyDir EXCEPT !.db = TRUE]
                   ELSE [dir[d] EXCEPT !.db = TRUE]
  OBVIOUS
<1>2. dir' = [dir EXCEPT ![d] = r]
  BY <1>1 DEF InitDir
<1>3. EmptyDir \in DirRow
  BY DEF EmptyDir, DirRow
<1>4. \A x \in DirRow : [x EXCEPT !.db = TRUE] \in DirRow
  BY DEF DirRow
<1>5. r \in DirRow
  BY <1>1, <1>3, <1>4 DEF BackupsInv
<1> QED
  BY <1>2, <1>5, UnlockedKeeps DEF InitDir

\* A server that uses a directory adds rows with their blobs.
LEMMA UseDirKeeps ==
    ASSUME BackupsInv, NEW d \in Dirs, UseDir(d)
    PROVE  BackupsInv' /\ dir[d].rows \subseteq dir'[d].rows
<1>1. PICK c \in Blobs :
         dir' = [dir EXCEPT ![d].rows = @ \cup {c}, ![d].files = @ \cup {c},
                            ![d].sessions = TRUE]
  BY DEF UseDir
<1>2. dir[d] \in DirRow
  BY DEF UseDir, HasDb, BackupsInv
<1>3. PICK r1 : r1 = [dir[d] EXCEPT !.rows = dir[d].rows \cup {c}]
  OBVIOUS
<1>4. PICK r2 : r2 = [r1 EXCEPT !.files = dir[d].files \cup {c}]
  OBVIOUS
<1>5. PICK r : r = [r2 EXCEPT !.sessions = TRUE]
  OBVIOUS
<1>6. r1 \in DirRow /\ r1.files = dir[d].files /\ r1.rows = dir[d].rows \cup {c}
  BY <1>2, <1>3 DEF DirRow
<1>7. r2 \in DirRow /\ r2.rows = dir[d].rows \cup {c}
  BY <1>2, <1>4, <1>6 DEF DirRow
<1>8. r \in DirRow /\ r.rows = dir[d].rows \cup {c}
  BY <1>5, <1>7 DEF DirRow
<1>9. dir' = [dir EXCEPT ![d] = r]
  BY <1>1, <1>2, <1>3, <1>4, <1>5, <1>6 DEF BackupsInv
<1>10. BackupsInv'
  BY <1>8, <1>9, UnlockedKeeps DEF UseDir
<1> QED
  BY <1>8, <1>9, <1>10 DEF BackupsInv

\* A blob that is lost takes no row with it.
LEMMA LoseBlobKeeps ==
    ASSUME BackupsInv, NEW d \in Dirs, NEW c \in Blobs, LoseBlob(d, c)
    PROVE  BackupsInv' /\ dir[d].rows \subseteq dir'[d].rows
<1>1. dir[d] \in DirRow
  BY DEF LoseBlob, HasDb, BackupsInv
<1>2. PICK r : r = [dir[d] EXCEPT !.files = @ \ {c}]
  OBVIOUS
<1>3. r \in DirRow /\ r.rows = dir[d].rows
  BY <1>1, <1>2 DEF DirRow
<1>4. dir' = [dir EXCEPT ![d] = r]
  BY <1>2 DEF LoseBlob
<1>5. BackupsInv'
  BY <1>3, <1>4, UnlockedKeeps DEF LoseBlob
<1> QED
  BY <1>3, <1>4, <1>5 DEF BackupsInv

-----------------------------------------------------------------------------
(* backup                                                                  *)

\* What a running backup, at a step, has in its archive.
Holds(a, step, source, left) ==
    /\ ~a.manifest /\ source = a.source /\ a.source.db
    /\ step = "snapshot" => a.rows = {}
    /\ step # "snapshot" => a.rows = a.source.rows
    /\ step = "copy" =>
          /\ ~a.sessions /\ left \subseteq a.rows
          /\ a.rows \subseteq a.files \cup a.missing \cup left

\* The invariant of the running backup, in terms of its archive.
LEMMA BackupHolds ==
    BackupInv <=>
        (backup # NotRunning =>
            /\ archive[backup.out] \in ArchiveRow
            /\ Holds(archive[backup.out], backup.step, dir[backup.dir], backup.left))
BY DEF BackupInv, Holds

\* A backup begins with an archive that holds nothing yet.
LEMMA StartBackupKeeps ==
    ASSUME BackupsInv, NEW d \in Dirs, NEW b \in Archives, StartBackup(d, b)
    PROVE  BackupsInv'
<1>1. /\ backup = NotRunning /\ ~Locked(d) /\ dir[d] \in DirRow /\ dir[d].db
      /\ archive[b] = NoFiles /\ UNCHANGED <<dir, restore>>
  BY DEF StartBackup, HasDb, BackupsInv
<1>2. PICK a : a = [rows |-> {}, files |-> {}, missing |-> {}, sessions |-> FALSE,
                    manifest |-> FALSE, bad |-> {}, source |-> dir[d]]
  OBVIOUS
<1>3. /\ a \in ArchiveRow /\ a.rows = {} /\ a.files = {} /\ a.missing = {}
      /\ ~a.manifest /\ a.source = dir[d]
  BY <1>1, <1>2 DEF ArchiveRow
<1>4. /\ archive' = [archive EXCEPT ![b] = a]
      /\ backup' = [step |-> "snapshot", dir |-> d, out |-> b]
  BY <1>2 DEF StartBackup
<1>5. /\ archive'[b] = a /\ archive' \in [Archives -> ArchiveRow \cup {NoFiles}]
      /\ \A e \in Archives \ {b} : archive'[e] = archive[e]
  BY <1>3, <1>4 DEF BackupsInv
<1>6. /\ backup' \in BackupRow /\ backup'.step = "snapshot" /\ backup'.out = b
      /\ backup'.dir = d
  BY <1>4 DEF BackupRow
<1>7. Sound(a)
  BY <1>3 DEF Sound
<1>8. BackupInv'
  BY <1>1, <1>3, <1>5, <1>6 DEF BackupInv
<1>9. RestoreInv'
  <2>1. ASSUME restore # NotRunning
        PROVE  /\ restore.from \in Archives \ {b}
               /\ archive'[restore.from] = archive[restore.from]
               /\ restore.step = "copy" => restore.dir # d
    <3>1. archive[restore.from] \in ArchiveRow /\ restore.from \in Archives
      BY <2>1, Running, BackupRows DEF BackupsInv, RestoreInv
    <3>2. restore.from # b
      BY <1>1, <3>1, BackupsAssumption
    <3>3. restore.step = "copy" => restore.dir # d
      BY <1>1 DEF Locked
    <3> QED
      BY <1>5, <3>1, <3>2, <3>3
  <2> QED
    BY <1>1, <1>6, <2>1 DEF BackupsInv, RestoreInv, WholeArchive
<1>10. \A e \in Archives : archive'[e] # NoFiles => Sound(archive'[e])
  BY <1>5, <1>7 DEF BackupsInv
<1> QED
  BY <1>1, <1>5, <1>6, <1>8, <1>9, <1>10 DEF BackupsInv, Sound, WholeArchive

\* A running backup writes to its own archive, which no restore reads.
LEMMA WriteRowKeeps ==
    ASSUME BackupsInv, backup # NotRunning, NEW a \in ArchiveRow,
           archive' = [archive EXCEPT ![backup.out] = a], Sound(a),
           UNCHANGED <<dir, restore>>,
           \/ backup' = NotRunning
           \/ /\ backup' \in BackupRow
              /\ backup'.out = backup.out /\ backup'.dir = backup.dir
              /\ Holds(a, backup'.step, dir[backup.dir], backup'.left)
    PROVE  BackupsInv'
<1>1. backup.out \in Archives /\ backup.dir \in Dirs
  BY Running, BackupRows
<1>2. /\ archive'[backup.out] = a /\ archive' \in [Archives -> ArchiveRow \cup {NoFiles}]
      /\ \A e \in Archives \ {backup.out} : archive'[e] = archive[e]
  BY <1>1 DEF BackupsInv
<1>3. BackupInv'
  <2>1. CASE backup' = NotRunning
    BY <2>1 DEF BackupInv, NotRunning
  <2>2. CASE backup' # NotRunning
    BY <1>1, <1>2, <2>2 DEF BackupInv, Holds
  <2> QED
    BY <2>1, <2>2
<1>4. RestoreInv'
  <2>1. ASSUME restore # NotRunning
        PROVE  /\ restore.from \in Archives \ {backup.out}
               /\ archive'[restore.from] = archive[restore.from]
    BY <1>2, <2>1, Running, BackupRows DEF BackupsInv, RestoreInv
  <2>2. backup' # NotRunning => backup'.out = backup.out /\ backup'.dir = backup.dir
    OBVIOUS
  <2> QED
    BY <2>1, <2>2 DEF BackupsInv, RestoreInv, WholeArchive, NotRunning
<1>5. \A e \in Archives : archive'[e] # NoFiles => Sound(archive'[e])
  BY <1>2 DEF BackupsInv
<1> QED
  BY <1>2, <1>3, <1>4, <1>5 DEF BackupsInv, Sound, WholeArchive, NotRunning

\* The archive a running backup writes, as its invariant has it.
LEMMA OwnArchive ==
    ASSUME BackupsInv, backup # NotRunning
    PROVE  /\ backup \in BackupRow /\ backup.out \in Archives /\ backup.dir \in Dirs
           /\ archive[backup.out] \in ArchiveRow /\ Sound(archive[backup.out])
           /\ Holds(archive[backup.out], backup.step, dir[backup.dir], backup.left)
<1>1. backup \in BackupRow /\ backup.out \in Archives /\ backup.dir \in Dirs
  BY Running, BackupRows
<1>2. /\ archive[backup.out] \in ArchiveRow
      /\ Holds(archive[backup.out], backup.step, dir[backup.dir], backup.left)
  BY BackupHolds DEF BackupsInv
<1>3. Sound(archive[backup.out])
  BY <1>1, <1>2, BackupsAssumption DEF BackupsInv
<1> QED
  BY <1>1, <1>2, <1>3

\* The snapshot has the rows of the directory at that moment.
LEMMA SnapshotKeeps ==
    ASSUME BackupsInv, Snapshot
    PROVE  BackupsInv'
<1> DEFINE a == archive[backup.out]
<1>1. backup # NotRunning /\ backup.step = "snapshot"
  BY DEF Snapshot, NotRunning
<1>2. /\ backup \in BackupRow /\ backup.out \in Archives /\ backup.dir \in Dirs
      /\ a \in ArchiveRow /\ Sound(a)
      /\ Holds(a, backup.step, dir[backup.dir], backup.left)
  BY <1>1, OwnArchive
<1>3. PICK r1 : r1 = [a EXCEPT !.rows = dir[backup.dir].rows]
  OBVIOUS
<1>4. PICK r : r = [r1 EXCEPT !.sessions = dir[backup.dir].sessions]
  OBVIOUS
<1>5. archive' = [archive EXCEPT ![backup.out] = r]
  BY <1>2, <1>3, <1>4 DEF Snapshot, BackupsInv
<1>6. /\ dir[backup.dir] = a.source /\ a.source \in DirRow /\ a.source.db
      /\ a.source.rows \in SUBSET Blobs /\ a.source.sessions \in BOOLEAN
  BY <1>2 DEF Holds, ArchiveRow, DirRow
<1>7. /\ r1 \in ArchiveRow /\ r1.rows = a.source.rows /\ r1.source = a.source
      /\ r1.files = a.files /\ r1.missing = a.missing /\ r1.manifest = a.manifest
  <2> HIDE DEF a
  <2> QED
    BY <1>2, <1>3, <1>6 DEF ArchiveRow
<1>8. /\ r \in ArchiveRow /\ r.rows = a.source.rows /\ r.source = a.source
      /\ r.files = a.files /\ r.missing = a.missing /\ r.manifest = a.manifest
  <2> HIDE DEF a
  <2> QED
    BY <1>4, <1>6, <1>7 DEF ArchiveRow
<1> HIDE DEF a
<1>9. a.rows = {} /\ a.files = {} /\ a.missing = {} /\ ~a.manifest
  BY <1>1, <1>2 DEF Holds, Sound
<1>10. Sound(r)
  BY <1>8, <1>9 DEF Sound
<1>11. \A x \in BackupRow : x.step = "snapshot" =>
           x \in [step : {"snapshot", "scrub"}, dir : Dirs, out : Archives]
  BY DEF BackupRow
<1>12. /\ backup' \in BackupRow /\ backup'.step = "scrub" /\ backup'.out = backup.out
       /\ backup'.dir = backup.dir
  BY <1>1, <1>2, <1>11 DEF Snapshot, BackupRow
<1>13. Holds(r, "scrub", dir[backup.dir], backup'.left)
  BY <1>6, <1>8, <1>9 DEF Holds
<1> QED
  BY <1>1, <1>5, <1>8, <1>10, <1>12, <1>13, WriteRowKeeps DEF Snapshot

\* The sessions leave the copy, and what its rows name is still to be
\* copied.
LEMMA ScrubKeeps ==
    ASSUME BackupsInv, Scrub
    PROVE  BackupsInv'
<1> DEFINE a == archive[backup.out]
<1>1. backup # NotRunning /\ backup.step = "scrub"
  BY DEF Scrub, NotRunning
<1>2. /\ backup \in BackupRow /\ backup.out \in Archives /\ backup.dir \in Dirs
      /\ a \in ArchiveRow /\ Sound(a)
      /\ Holds(a, backup.step, dir[backup.dir], backup.left)
  BY <1>1, OwnArchive
<1>3. PICK r : r = [a EXCEPT !.sessions = FALSE]
  OBVIOUS
<1>4. archive' = [archive EXCEPT ![backup.out] = r]
  BY <1>3 DEF Scrub
<1>5. /\ r \in ArchiveRow /\ r.rows = a.rows /\ r.source = a.source /\ ~r.sessions
      /\ r.files = a.files /\ r.missing = a.missing /\ r.manifest = a.manifest
  <2> HIDE DEF a
  <2> QED
    BY <1>2, <1>3 DEF ArchiveRow
<1>6. /\ backup' \in BackupRow /\ backup'.step = "copy" /\ backup'.out = backup.out
      /\ backup'.dir = backup.dir /\ backup'.left = a.rows
  BY <1>2 DEF Scrub, BackupRow, ArchiveRow
<1> HIDE DEF a
<1>7. Sound(r)
  BY <1>2, <1>5 DEF Sound, Holds
<1>8. Holds(r, "copy", dir[backup.dir], backup'.left)
  BY <1>1, <1>2, <1>5, <1>6 DEF Holds
<1> QED
  BY <1>1, <1>4, <1>5, <1>6, <1>7, <1>8, WriteRowKeeps DEF Scrub

\* One blob is copied or found missing; nothing else of the archive changes.
LEMMA BackUpBlobKeeps ==
    ASSUME BackupsInv, NEW c \in Blobs, BackUpBlob(c)
    PROVE  BackupsInv'
<1> DEFINE a == archive[backup.out]
           there == c \in dir[backup.dir].files
<1>1. backup # NotRunning /\ backup.step = "copy" /\ c \in backup.left
  BY DEF BackUpBlob, NotRunning
<1>2. /\ backup \in BackupRow /\ backup.out \in Archives /\ backup.dir \in Dirs
      /\ a \in ArchiveRow /\ Sound(a)
      /\ Holds(a, backup.step, dir[backup.dir], backup.left)
  BY <1>1, OwnArchive
<1>3. PICK r : r = IF there THEN [a EXCEPT !.files = a.files \cup {c}]
                   ELSE [a EXCEPT !.missing = a.missing \cup {c}]
  OBVIOUS
<1>4. archive' = [archive EXCEPT ![backup.out] = r]
  BY <1>2, <1>3 DEF BackUpBlob, BackupsInv
<1>5. /\ r \in ArchiveRow /\ r.rows = a.rows /\ r.source = a.source
      /\ r.sessions = a.sessions /\ r.manifest = a.manifest
      /\ r.files = IF there THEN a.files \cup {c} ELSE a.files
      /\ r.missing = IF there THEN a.missing ELSE a.missing \cup {c}
  <2> HIDE DEF a, there
  <2> QED
    BY <1>2, <1>3 DEF ArchiveRow
<1>6. backup \in [step : {"copy"}, dir : Dirs, out : Archives, left : SUBSET Blobs]
  BY <1>1, <1>2, BackupRows
<1>7. /\ backup' \in BackupRow /\ backup'.step = "copy" /\ backup'.out = backup.out
      /\ backup'.dir = backup.dir /\ backup'.left = backup.left \ {c}
  BY <1>6 DEF BackUpBlob, BackupRow
<1>8. /\ dir[backup.dir] = a.source /\ a.rows = a.source.rows /\ ~a.manifest
      /\ a.source.db /\ ~a.sessions /\ backup.left \subseteq a.rows
      /\ a.rows \subseteq a.files \cup a.missing \cup backup.left
  BY <1>1, <1>2 DEF Holds
<1>9. there <=> c \in a.source.files
  BY <1>8
<1> HIDE DEF a, there
<1>10. Sound(r)
  BY <1>1, <1>2, <1>5, <1>8, <1>9 DEF Sound
<1>11. Holds(r, "copy", dir[backup.dir], backup'.left)
  BY <1>1, <1>5, <1>7, <1>8 DEF Holds
<1> QED
  BY <1>1, <1>4, <1>5, <1>7, <1>10, <1>11, WriteRowKeeps DEF BackUpBlob

\* The manifest is written when every row was fetched or found missing.
LEMMA WriteManifestKeeps ==
    ASSUME BackupsInv, WriteManifest
    PROVE  BackupsInv'
<1> DEFINE a == archive[backup.out]
<1>1. backup # NotRunning /\ backup.step = "copy" /\ backup.left = {}
  BY DEF WriteManifest, NotRunning
<1>2. /\ a \in ArchiveRow /\ Sound(a)
      /\ Holds(a, backup.step, dir[backup.dir], backup.left)
  BY <1>1, OwnArchive
<1>3. PICK r : r = [a EXCEPT !.manifest = TRUE]
  OBVIOUS
<1>4. archive' = [archive EXCEPT ![backup.out] = r]
  BY <1>3 DEF WriteManifest
<1>5. /\ r \in ArchiveRow /\ r.rows = a.rows /\ r.source = a.source
      /\ r.sessions = a.sessions /\ r.files = a.files /\ r.missing = a.missing
  <2> HIDE DEF a
  <2> QED
    BY <1>2, <1>3 DEF ArchiveRow
<1> HIDE DEF a
<1>6. Sound(r)
  BY <1>1, <1>2, <1>5 DEF Sound, WholeArchive, Holds
<1> QED
  BY <1>1, <1>4, <1>5, <1>6, WriteRowKeeps DEF WriteManifest

\* A backup that ends, or is killed, leaves what it wrote.
LEMMA EndBackupKeeps ==
    ASSUME BackupsInv, EndBackup
    PROVE  BackupsInv'
<1>1. BackupInv'
  BY DEF EndBackup, BackupInv, NotRunning
<1>2. RestoreInv'
  BY DEF EndBackup, BackupsInv, RestoreInv, WholeArchive, NotRunning
<1> QED
  BY <1>1, <1>2 DEF EndBackup, BackupsInv, Sound, WholeArchive, NotRunning

-----------------------------------------------------------------------------
(* restore                                                                 *)

\* What a restore, at a step, knows of its backup and of its target.
Fetched(a, target, left) ==
    /\ target \in DirRow
    /\ a.files \subseteq target.files \cup left
    /\ "db" \notin left => target.rows = a.rows /\ ~target.sessions

\* The invariant of the running restore, in terms of its archive.
LEMMA RestoreKnows ==
    RestoreInv <=>
        (restore # NotRunning =>
            /\ archive[restore.from] \in ArchiveRow /\ WholeArchive(archive[restore.from])
            /\ backup # NotRunning => backup.out # restore.from
            /\ restore.step = "copy" =>
                  /\ backup # NotRunning => backup.dir # restore.dir
                  /\ Fetched(archive[restore.from], dir[restore.dir], restore.left))
BY DEF RestoreInv, Fetched

\* A restore that ends leaves everything as it is.
LEMMA EndRestoreKeeps ==
    ASSUME BackupsInv, restore' = NotRunning, UNCHANGED <<dir, archive, backup>>
    PROVE  BackupsInv'
<1>1. BackupInv'
  BY DEF BackupsInv, BackupInv, NotRunning
<1>2. RestoreInv'
  BY DEF RestoreInv, NotRunning
<1> QED
  BY <1>1, <1>2 DEF BackupsInv, Sound, WholeArchive, NotRunning

\* A complete backup, whatever its medium did since, is what is restored.
LEMMA StartRestoreKeeps ==
    ASSUME BackupsInv, NEW b \in Archives, NEW d \in Dirs, StartRestore(b, d)
    PROVE  BackupsInv'
<1>1. /\ archive[b] \in ArchiveRow /\ archive[b].manifest /\ WholeArchive(archive[b])
      /\ UNCHANGED <<dir, archive, backup>>
  BY DEF StartRestore, BackupsInv, Sound
<1>2. /\ restore' \in RestoreRow /\ restore'.step = "checked" /\ restore'.from = b
      /\ restore'.dir = d
  BY DEF StartRestore, RestoreRow
<1>3. backup # NotRunning => backup.out # b
  BY <1>1 DEF BackupsInv, BackupInv
<1>4. RestoreInv'
  BY <1>1, <1>2, <1>3 DEF RestoreInv, WholeArchive, NotRunning
<1>5. BackupInv'
  BY <1>1 DEF BackupsInv, BackupInv, NotRunning
<1> QED
  BY <1>1, <1>2, <1>4, <1>5 DEF BackupsInv, Sound, WholeArchive, NotRunning

\* The backup a running restore reads, as its invariant has it.
LEMMA OwnBackup ==
    ASSUME BackupsInv, restore # NotRunning
    PROVE  /\ restore \in RestoreRow /\ restore.from \in Archives /\ restore.dir \in Dirs
           /\ archive[restore.from] \in ArchiveRow /\ WholeArchive(archive[restore.from])
           /\ backup # NotRunning => backup.out # restore.from
           /\ restore.step = "copy" =>
                 /\ backup # NotRunning => backup.dir # restore.dir
                 /\ Fetched(archive[restore.from], dir[restore.dir], restore.left)
                 /\ restore \in [step : {"copy"}, from : Archives, dir : Dirs,
                                 left : SUBSET (Blobs \cup {"db"})]
<1>1. restore \in RestoreRow /\ restore.from \in Archives /\ restore.dir \in Dirs
  BY Running, BackupRows
<1>2. /\ archive[restore.from] \in ArchiveRow /\ WholeArchive(archive[restore.from])
      /\ backup # NotRunning => backup.out # restore.from
      /\ restore.step = "copy" =>
            /\ backup # NotRunning => backup.dir # restore.dir
            /\ Fetched(archive[restore.from], dir[restore.dir], restore.left)
  BY RestoreKnows DEF BackupsInv
<1>3. restore.step = "copy" =>
         restore \in [step : {"copy"}, from : Archives, dir : Dirs,
                      left : SUBSET (Blobs \cup {"db"})]
  BY <1>1, BackupRows
<1> QED
  BY <1>1, <1>2, <1>3

\* A restore writes to its target, which no backup reads.
LEMMA TargetKeeps ==
    ASSUME BackupsInv, restore # NotRunning, NEW r \in DirRow,
           dir' = [dir EXCEPT ![restore.dir] = r], UNCHANGED <<archive, backup>>,
           backup # NotRunning => backup.dir # restore.dir \/ dir[restore.dir] = r,
           \/ restore' = NotRunning
           \/ /\ restore' \in RestoreRow /\ restore'.step = "copy"
              /\ restore'.from = restore.from /\ restore'.dir = restore.dir
              /\ backup # NotRunning => backup.dir # restore.dir
              /\ Fetched(archive[restore.from], r, restore'.left)
    PROVE  BackupsInv'
<1>1. /\ restore.from \in Archives /\ restore.dir \in Dirs
      /\ archive[restore.from] \in ArchiveRow /\ WholeArchive(archive[restore.from])
      /\ backup # NotRunning => backup.out # restore.from
  BY OwnBackup
<1>2. /\ dir' \in [Dirs -> DirRow \cup {NoFiles}] /\ dir'[restore.dir] = r
      /\ \A d \in Dirs \ {restore.dir} : dir'[d] = dir[d]
  BY <1>1 DEF BackupsInv
<1>3. BackupInv'
  <2>1. ASSUME backup # NotRunning PROVE dir'[backup.dir] = dir[backup.dir]
    BY <1>2, <2>1, Running, BackupRows
  <2> QED
    BY <2>1 DEF BackupsInv, BackupInv, NotRunning
<1>4. RestoreInv'
  <2>1. CASE restore' = NotRunning
    BY <2>1 DEF RestoreInv, NotRunning
  <2>2. CASE restore' # NotRunning
    BY <1>1, <1>2, <2>2 DEF RestoreInv, Fetched, WholeArchive, NotRunning
  <2> QED
    BY <2>1, <2>2
<1> QED
  BY <1>2, <1>3, <1>4 DEF BackupsInv, Sound, WholeArchive, NotRunning

\* A directory with nothing in it is one.
LEMMA EmptyIsDirectory == EmptyDir \in DirRow
BY DEF EmptyDir, DirRow

\* Who was there since the check keeps what they have.
LEMMA OpenTargetKeeps ==
    ASSUME BackupsInv, OpenTarget
    PROVE  /\ BackupsInv'
           /\ \A d \in Dirs : dir[d] # NoFiles => dir'[d] = dir[d]
<1>1. restore # NotRunning /\ restore.step = "checked" /\ UNCHANGED <<archive, backup>>
  BY DEF OpenTarget, NotRunning
<1>2. /\ restore.from \in Archives /\ restore.dir \in Dirs
      /\ archive[restore.from] \in ArchiveRow
  BY <1>1, OwnBackup
<1>3. PICK r : r = IF dir[restore.dir] = NoFiles THEN EmptyDir ELSE dir[restore.dir]
  OBVIOUS
<1>4. dir' = [dir EXCEPT ![restore.dir] = r]
  BY <1>3 DEF OpenTarget
<1>5. r \in DirRow
  BY <1>2, <1>3, EmptyIsDirectory DEF BackupsInv
<1>6. backup # NotRunning => backup.dir # restore.dir \/ dir[restore.dir] = r
  <2>1. ASSUME backup # NotRunning, backup.dir = restore.dir
        PROVE  dir[restore.dir] # NoFiles
    <3>1. /\ archive[backup.out] \in ArchiveRow
          /\ dir[restore.dir] = archive[backup.out].source
      BY <2>1 DEF BackupsInv, BackupInv
    <3>2. dir[restore.dir] \in DirRow
      BY <3>1 DEF ArchiveRow
    <3> QED
      BY <3>2, BackupsAssumption
  <2> QED
    BY <1>3, <2>1
<1>7. \/ restore' = NotRunning
      \/ /\ restore' \in RestoreRow /\ restore'.step = "copy"
         /\ restore'.from = restore.from /\ restore'.dir = restore.dir
         /\ backup # NotRunning => backup.dir # restore.dir
         /\ Fetched(archive[restore.from], r, restore'.left)
  <2>1. CASE Locked(restore.dir)
    BY <2>1 DEF OpenTarget
  <2>2. CASE ~Locked(restore.dir)
    <3>1. restore' = [step |-> "copy", from |-> restore.from, dir |-> restore.dir,
                      left |-> archive[restore.from].files \cup {"db"}]
      BY <2>2 DEF OpenTarget
    <3>2. archive[restore.from].files \in SUBSET Blobs
      BY <1>2 DEF ArchiveRow
    <3>3. /\ restore' \in RestoreRow /\ restore'.step = "copy"
          /\ restore'.from = restore.from /\ restore'.dir = restore.dir
          /\ restore'.left = archive[restore.from].files \cup {"db"}
      BY <1>2, <3>1, <3>2 DEF RestoreRow
    <3> QED
      BY <1>5, <2>2, <3>3 DEF Locked, Fetched
  <2> QED
    BY <2>1, <2>2
<1>8. BackupsInv'
  BY <1>1, <1>4, <1>5, <1>6, <1>7, TargetKeeps
<1> QED
  BY <1>2, <1>3, <1>4, <1>8 DEF BackupsInv

\* The database is copied to where there is none.
LEMMA RestoreDatabaseKeeps ==
    ASSUME BackupsInv, RestoreDatabase
    PROVE  /\ BackupsInv'
           /\ \A d \in Dirs : HasDb(d) => dir'[d] = dir[d]
<1> DEFINE b == restore.from
           d == restore.dir
<1>1. /\ restore # NotRunning /\ restore.step = "copy" /\ "db" \in restore.left
      /\ UNCHANGED <<archive, backup>>
  BY DEF RestoreDatabase, NotRunning
<1>2. /\ b \in Archives /\ d \in Dirs /\ archive[b] \in ArchiveRow
      /\ WholeArchive(archive[b]) /\ Fetched(archive[b], dir[d], restore.left)
      /\ backup # NotRunning => backup.dir # d
      /\ restore \in [step : {"copy"}, from : Archives, dir : Dirs,
                      left : SUBSET (Blobs \cup {"db"})]
  BY <1>1, OwnBackup
<1>3. CASE ~Copyable(d)
  <2>1. UNCHANGED dir /\ restore' = NotRunning
    BY <1>3 DEF RestoreDatabase
  <2> QED
    BY <1>1, <2>1, EndRestoreKeeps
<1>4. CASE Copyable(d)
  <2>1. PICK r1 : r1 = [dir[d] EXCEPT !.db = TRUE]
    OBVIOUS
  <2>2. PICK r2 : r2 = [r1 EXCEPT !.rows = archive[b].rows]
    OBVIOUS
  <2>3. PICK r : r = [r2 EXCEPT !.sessions = archive[b].sessions]
    OBVIOUS
  <2>4. dir[d] \in DirRow /\ archive[b].rows \in SUBSET Blobs
        /\ archive[b].sessions \in BOOLEAN
    BY <1>2 DEF Fetched, ArchiveRow
  <2>5. r1 \in DirRow /\ r1.files = dir[d].files
    BY <2>1, <2>4 DEF DirRow
  <2>6. r2 \in DirRow /\ r2.files = dir[d].files /\ r2.rows = archive[b].rows
    BY <2>2, <2>4, <2>5 DEF DirRow
  <2>7. /\ r \in DirRow /\ r.files = dir[d].files /\ r.rows = archive[b].rows
        /\ r.sessions = archive[b].sessions
    BY <2>3, <2>4, <2>6 DEF DirRow
  <2>8. /\ dir' = [dir EXCEPT ![d].db = TRUE, ![d].rows = archive[b].rows,
                              ![d].sessions = archive[b].sessions]
        /\ restore' = IF "db" \in archive[b].bad THEN NotRunning
                      ELSE [restore EXCEPT !.left = @ \ {"db"}]
    BY <1>4 DEF RestoreDatabase
  <2>9. dir' = [dir EXCEPT ![d] = r]
    <3> HIDE DEF d, b
    <3> QED
      BY <1>2, <2>1, <2>2, <2>3, <2>8 DEF BackupsInv
  <2>10. \/ restore' = NotRunning
         \/ /\ restore' \in RestoreRow /\ restore'.step = "copy"
            /\ restore'.from = b /\ restore'.dir = d
            /\ Fetched(archive[b], r, restore'.left)
    <3>1. CASE "db" \in archive[b].bad
      BY <2>8, <3>1
    <3>2. CASE "db" \notin archive[b].bad
      <4>1. restore' = [restore EXCEPT !.left = restore.left \ {"db"}]
        BY <2>8, <3>2
      <4>2. /\ restore' \in RestoreRow /\ restore'.step = "copy"
            /\ restore'.from = b /\ restore'.dir = d
            /\ restore'.left = restore.left \ {"db"}
        BY <1>2, <4>1 DEF RestoreRow
      <4>3. "db" \notin archive[b].files
        BY <1>2, BackupsAssumption DEF ArchiveRow
      <4> HIDE DEF d, b
      <4>4. Fetched(archive[b], r, restore'.left)
        BY <1>2, <2>7, <4>2, <4>3 DEF Fetched, WholeArchive
      <4> QED
        BY <4>2, <4>4
    <3> QED
      BY <3>1, <3>2
  <2>11. BackupsInv'
    BY <1>1, <1>2, <2>7, <2>9, <2>10, TargetKeeps
  <2>12. ~HasDb(d)
    BY <1>4 DEF Copyable
  <2> QED
    BY <1>2, <2>9, <2>11, <2>12 DEF BackupsInv
<1> QED
  BY <1>3, <1>4

\* One blob is restored, or the restore ends: the blob is bad or already
\* there.
LEMMA RestoreBlobKeeps ==
    ASSUME BackupsInv, NEW c \in Blobs, RestoreBlob(c)
    PROVE  /\ BackupsInv'
           /\ \A d \in Dirs : HasDb(d) => dir'[d].rows = dir[d].rows
<1> DEFINE b == restore.from
           d == restore.dir
<1>1. /\ restore # NotRunning /\ restore.step = "copy"
      /\ c \in restore.left /\ "db" \notin restore.left
      /\ UNCHANGED <<archive, backup>>
  BY DEF RestoreBlob, NotRunning
<1>2. /\ b \in Archives /\ d \in Dirs /\ archive[b] \in ArchiveRow
      /\ WholeArchive(archive[b]) /\ Fetched(archive[b], dir[d], restore.left)
      /\ backup # NotRunning => backup.dir # d
      /\ restore \in [step : {"copy"}, from : Archives, dir : Dirs,
                      left : SUBSET (Blobs \cup {"db"})]
  BY <1>1, OwnBackup
<1>3. CASE restore' = NotRunning /\ UNCHANGED dir
  BY <1>1, <1>3, EndRestoreKeeps
<1>4. CASE /\ restore' = [restore EXCEPT !.left = @ \ {c}]
           /\ dir' = [dir EXCEPT ![restore.dir].files = @ \cup {c}]
  <2>1. PICK r : r = [dir[d] EXCEPT !.files = dir[d].files \cup {c}]
    OBVIOUS
  <2>2. r \in DirRow /\ r.rows = dir[d].rows /\ r.sessions = dir[d].sessions
        /\ r.files = dir[d].files \cup {c}
    BY <1>2, <2>1 DEF Fetched, DirRow
  <2>3. dir' = [dir EXCEPT ![d] = r]
    BY <1>2, <1>4, <2>1 DEF BackupsInv
  <2>4. /\ restore' \in RestoreRow /\ restore'.step = "copy"
        /\ restore'.from = b /\ restore'.dir = d
        /\ restore'.left = restore.left \ {c}
    BY <1>2, <1>4 DEF RestoreRow
  <2> HIDE DEF d, b
  <2>5. Fetched(archive[b], r, restore'.left)
    BY <1>1, <1>2, <2>2, <2>4 DEF Fetched
  <2> USE DEF d, b
  <2>6. BackupsInv'
    BY <1>1, <1>2, <2>2, <2>3, <2>4, <2>5, TargetKeeps
  <2> QED
    BY <1>2, <2>2, <2>3, <2>6 DEF BackupsInv
<1> QED
  BY <1>3, <1>4 DEF RestoreBlob

\* A restore that reports success rebuilt what was backed up.
LEMMA VerifyRestoredShows ==
    ASSUME BackupsInv, NEW d \in Dirs, VerifyRestored(d)
    PROVE  LET source == archive[restore.from].source
           IN  /\ dir[d].rows = source.rows
               /\ source.rows \cap source.files \subseteq dir[d].files
               /\ ~dir[d].sessions
<1> DEFINE a == archive[restore.from]
<1>1. /\ restore # NotRunning /\ restore.step = "copy" /\ restore.left = {}
      /\ restore.dir = d /\ dir[d].rows \subseteq dir[d].files \cup a.missing
  BY DEF VerifyRestored, NotRunning
<1>2. /\ a \in ArchiveRow /\ WholeArchive(a) /\ Fetched(a, dir[d], {})
      /\ restore.from \in Archives
  BY <1>1, OwnBackup
<1>3. Sound(a)
  BY <1>2, BackupsAssumption DEF BackupsInv
<1> HIDE DEF a
<1>4. /\ dir[d].rows = a.source.rows
      /\ a.source.rows \cap a.source.files \subseteq dir[d].files
      /\ ~dir[d].sessions
  BY <1>1, <1>2, <1>3 DEF WholeArchive, Fetched, Sound
<1> QED
  BY <1>4 DEF a

-----------------------------------------------------------------------------

\* Whatever goes bad, a backup still holds what it held.
LEMMA DamageKeeps ==
    ASSUME BackupsInv, NEW b \in Archives, Damage(b)
    PROVE  BackupsInv'
<1>1. /\ archive[b] \in ArchiveRow /\ archive[b].manifest /\ Sound(archive[b])
      /\ UNCHANGED <<dir, backup, restore>>
  BY DEF Damage, BackupsInv
<1>2. PICK a : a = archive[b]
  OBVIOUS
<1>3. PICK r \in ArchiveRow :
               /\ archive' = [archive EXCEPT ![b] = r]
               /\ r.rows = a.rows /\ r.files = a.files /\ r.missing = a.missing
               /\ r.sessions = a.sessions /\ r.source = a.source
               /\ r.manifest => a.manifest
  <2>1. ASSUME NEW x \in a.files \cup {"db"},
               archive' = [archive EXCEPT ![b].bad = @ \cup {x}]
        PROVE  \E r \in ArchiveRow :
                  /\ archive' = [archive EXCEPT ![b] = r]
                  /\ r.rows = a.rows /\ r.files = a.files /\ r.missing = a.missing
                  /\ r.sessions = a.sessions /\ r.source = a.source
                  /\ r.manifest => a.manifest
    <3>1. PICK r : r = [a EXCEPT !.bad = a.bad \cup {x}]
      OBVIOUS
    <3>2. archive' = [archive EXCEPT ![b] = r]
      BY <1>2, <2>1, <3>1 DEF BackupsInv
    <3>3. /\ r \in ArchiveRow
          /\ r.rows = a.rows /\ r.files = a.files /\ r.missing = a.missing
          /\ r.sessions = a.sessions /\ r.source = a.source /\ r.manifest = a.manifest
      BY <1>1, <1>2, <3>1 DEF ArchiveRow
    <3> QED
      BY <3>2, <3>3
  <2>2. ASSUME archive' = [archive EXCEPT ![b].manifest = FALSE]
        PROVE  \E r \in ArchiveRow :
                  /\ archive' = [archive EXCEPT ![b] = r]
                  /\ r.rows = a.rows /\ r.files = a.files /\ r.missing = a.missing
                  /\ r.sessions = a.sessions /\ r.source = a.source
                  /\ r.manifest => a.manifest
    <3>1. PICK r : r = [a EXCEPT !.manifest = FALSE]
      OBVIOUS
    <3>2. archive' = [archive EXCEPT ![b] = r]
      BY <1>2, <2>2, <3>1 DEF BackupsInv
    <3>3. /\ r \in ArchiveRow
          /\ r.rows = a.rows /\ r.files = a.files /\ r.missing = a.missing
          /\ r.sessions = a.sessions /\ r.source = a.source /\ ~r.manifest
      BY <1>1, <1>2, <3>1 DEF ArchiveRow
    <3> QED
      BY <3>2, <3>3
  <2> QED
    BY <1>2, <2>1, <2>2 DEF Damage
<1>4. /\ archive'[b] = r /\ archive' \in [Archives -> ArchiveRow \cup {NoFiles}]
      /\ \A e \in Archives \ {b} : archive'[e] = archive[e]
  BY <1>3 DEF BackupsInv
<1>5. /\ WholeArchive(a) => WholeArchive(r)
      /\ Sound(r)
  BY <1>1, <1>2, <1>3 DEF Sound, WholeArchive
<1>6. BackupInv'
  <2>1. ASSUME backup # NotRunning PROVE archive'[backup.out] = archive[backup.out]
    BY <1>1, <1>4, <2>1, OwnArchive DEF BackupsInv, BackupInv
  <2> QED
    BY <1>1, <2>1 DEF BackupsInv, BackupInv, NotRunning
<1>7. RestoreInv'
  <2>1. ASSUME restore # NotRunning
        PROVE  /\ archive'[restore.from] \in ArchiveRow
               /\ WholeArchive(archive'[restore.from])
               /\ archive'[restore.from].files = archive[restore.from].files
               /\ archive'[restore.from].rows = archive[restore.from].rows
    BY <1>2, <1>3, <1>4, <1>5, <2>1, OwnBackup
  <2> QED
    BY <1>1, <2>1 DEF BackupsInv, RestoreInv, WholeArchive, NotRunning
<1>8. \A e \in Archives : archive'[e] # NoFiles => Sound(archive'[e])
  BY <1>4, <1>5 DEF BackupsInv
<1> QED
  BY <1>1, <1>4, <1>6, <1>7, <1>8 DEF BackupsInv, Sound, WholeArchive, NotRunning

\* Nothing runs and there are no archives.
LEMMA BackupsBegin == BackupsInit => BackupsInv
BY DEF BackupsInit, BackupsInv, BackupInv, RestoreInv

\* A step of the commands keeps the invariant and no database's rows go.
LEMMA BackupsStep ==
    ASSUME BackupsInv, [BackupsNext]_backupsVars
    PROVE  /\ BackupsInv'
           /\ \A d \in Dirs : HasDb(d) => dir[d].rows \subseteq dir'[d].rows
<1>1. ASSUME NEW d \in Dirs, InitDir(d)
      PROVE  BackupsInv' /\ \A e \in Dirs : HasDb(e) => dir[e].rows \subseteq dir'[e].rows
  <2>1. \A e \in Dirs : HasDb(e) => dir'[e] = dir[e]
    BY <1>1 DEF InitDir, BackupsInv
  <2> QED
    BY <1>1, <2>1, InitDirKeeps
<1>2. ASSUME NEW d \in Dirs, UseDir(d) \/ \E c \in Blobs : LoseBlob(d, c)
      PROVE  BackupsInv' /\ \A e \in Dirs : HasDb(e) => dir[e].rows \subseteq dir'[e].rows
  <2>1. BackupsInv' /\ dir[d].rows \subseteq dir'[d].rows
    BY <1>2, UseDirKeeps, LoseBlobKeeps
  <2>2. \A e \in Dirs \ {d} : dir'[e] = dir[e]
    BY <1>2 DEF UseDir, LoseBlob, BackupsInv
  <2> QED
    BY <2>1, <2>2
<1>3. ASSUME NEW d \in Dirs, VerifyRestored(d)
      PROVE  BackupsInv' /\ UNCHANGED dir
  BY <1>3, EndRestoreKeeps DEF VerifyRestored
<1>4. ASSUME NEW d \in Dirs, NEW b \in Archives, StartBackup(d, b) \/ StartRestore(b, d)
      PROVE  BackupsInv' /\ UNCHANGED dir
  BY <1>4, StartBackupKeeps, StartRestoreKeeps DEF StartBackup, StartRestore
<1>5. ASSUME Snapshot \/ Scrub \/ WriteManifest \/ EndBackup \/ EndRestore
      PROVE  BackupsInv' /\ UNCHANGED dir
  <2>1. UNCHANGED dir
    BY <1>5 DEF Snapshot, Scrub, WriteManifest, EndBackup, EndRestore
  <2>2. BackupsInv'
    BY <1>5, SnapshotKeeps, ScrubKeeps, WriteManifestKeeps, EndBackupKeeps,
       EndRestoreKeeps DEF EndRestore
  <2> QED
    BY <2>1, <2>2
<1>6. ASSUME OpenTarget \/ RestoreDatabase
      PROVE  BackupsInv' /\ \A d \in Dirs : HasDb(d) => dir'[d] = dir[d]
  BY <1>6, OpenTargetKeeps, RestoreDatabaseKeeps DEF HasDb
<1>7. ASSUME NEW c \in Blobs, BackUpBlob(c)
      PROVE  BackupsInv' /\ UNCHANGED dir
  BY <1>7, BackUpBlobKeeps DEF BackUpBlob
<1>8. ASSUME NEW c \in Blobs, RestoreBlob(c)
      PROVE  BackupsInv' /\ \A d \in Dirs : HasDb(d) => dir'[d].rows = dir[d].rows
  BY <1>8, RestoreBlobKeeps
<1>9. ASSUME NEW b \in Archives, Damage(b)
      PROVE  BackupsInv' /\ UNCHANGED dir
  BY <1>9, DamageKeeps DEF Damage
<1>10. ASSUME UNCHANGED backupsVars
       PROVE  BackupsInv' /\ UNCHANGED dir
  <2>1. BackupInv'
    BY <1>10 DEF backupsVars, BackupsInv, BackupInv, NotRunning
  <2>2. RestoreInv'
    BY <1>10 DEF backupsVars, BackupsInv, RestoreInv, WholeArchive, NotRunning
  <2> QED
    BY <1>10, <2>1, <2>2 DEF backupsVars, BackupsInv, Sound, WholeArchive, NotRunning
<1> QED
  BY <1>1, <1>2, <1>3, <1>4, <1>5, <1>6, <1>7, <1>8, <1>9, <1>10 DEF BackupsNext

\* Directories and backups keep their types, and a backup has no file without
\* its row.
THEOREM BackupsTyped == BackupsSpec => []BackupsTypeOK
<1>1. BackupsInv => BackupsTypeOK
  BY Running, BackupRows DEF BackupsInv, BackupsTypeOK, Sound, NotRunning
<1>2. BackupsInv /\ [BackupsNext]_backupsVars => BackupsInv'
  BY BackupsStep
<1> QED
  BY <1>1, <1>2, BackupsBegin, PTL DEF BackupsSpec

\* Whatever was killed, damaged or created in between: a restore that reports
\* success rebuilt the directory that was backed up, and no command ever
\* replaces the rows of a database (backup.rs, restore.rs, DirLock).
THEOREM RestoresAreWhole == BackupsSpec => RestoresAreWholeOrRefused
<1> DEFINE Entire == /\ \A d \in Dirs : HasDb(d) => dir[d].rows \subseteq dir'[d].rows
                    /\ \A d \in Dirs : VerifyRestored(d) =>
                         LET source == archive[restore.from].source
                         IN  /\ dir[d].rows = source.rows
                             /\ source.rows \cap source.files \subseteq dir[d].files
                             /\ ~dir[d].sessions
<1>1. BackupsInv /\ [BackupsNext]_backupsVars => [Entire]_backupsVars
  BY BackupsStep, VerifyRestoredShows
<1>2. BackupsInv /\ [BackupsNext]_backupsVars => BackupsInv'
  BY BackupsStep
<1> QED
  BY <1>1, <1>2, BackupsBegin, PTL DEF BackupsSpec, RestoresAreWholeOrRefused

-----------------------------------------------------------------------------
(* The components together.                                                *)

platformVars ==
    <<part, signInVars, storeVars, backupsVars, prepsVars, secretsVars, knowledgeVars,
      modelFilesVars, modelCheckVars, pricingVars, contentVars, configVars>>

\* A step of the platform is one of one component and leaves the others alone:
\* what is true of a component on its own is true of it here.
THEOREM ComponentsMoveAlone ==
    PlatformSpec => /\ SignInSpec /\ StoreSpec /\ BackupsSpec /\ PrepsSpec /\ SecretsSpec
                    /\ KnowledgeSpec /\ ModelFilesSpec /\ ModelCheckSpec /\ PricingSpec
                    /\ ContentSpec /\ ConfigurationSpec
<1>1. PlatformInit =>
        /\ SignInInit /\ StoreInit /\ BackupsInit /\ PrepsInit /\ SecretsInit
        /\ KnowledgeInit /\ ModelFilesInit /\ ModelCheckInit /\ PricingInit
        /\ ContentInit /\ ConfigurationInit
  BY DEF PlatformInit
<1>2. [PlatformNext]_platformVars =>
        /\ [SignInNext]_signInVars /\ [StoreNext]_storeVars /\ [BackupsNext]_backupsVars
        /\ [PrepsNext]_prepsVars /\ [SecretsNext]_secretsVars
        /\ [KnowledgeNext]_knowledgeVars /\ [ModelFilesNext]_modelFilesVars
        /\ [ModelCheckNext]_modelCheckVars /\ [PricingNext]_pricingVars
        /\ [ContentNext]_contentVars /\ [ConfigurationNext]_configVars
  BY DEF PlatformNext, platformVars
<1> QED
  BY <1>1, <1>2, PTL DEF PlatformSpec, platformVars, SignInSpec, StoreSpec, BackupsSpec,
     PrepsSpec, SecretsSpec, KnowledgeSpec, ModelFilesSpec, ModelCheckSpec, PricingSpec,
     ContentSpec, ConfigurationSpec

\* On the platform every component's state keeps its types, however many
\* processes, tabs, files, pages and edits there are.
THEOREM PlatformTyped == PlatformSpec => []PlatformTypeOK
<1>1. /\ SignInTypeOK /\ StoreTypeOK /\ BackupsTypeOK /\ PrepsTypeOK /\ SecretsTypeOK
      /\ KnowledgeTypeOK /\ ModelFilesTypeOK /\ ModelCheckTypeOK /\ PricingTypeOK
      /\ ContentTypeOK /\ ConfigurationTypeOK
      => PlatformTypeOK
  BY DEF PlatformTypeOK
<1> QED
  BY <1>1, ComponentsMoveAlone, SignInTyped, StoreTypesHold, BackupsTyped,
     PreparationsTyped, SecretsTyped, KnowledgeTyped, ModelFilesTyped, ModelCheckTyped,
     PricingTyped, ContentTypesHold, ConfigurationTyped, PTL

=============================================================================
