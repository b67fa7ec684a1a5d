---- MODULE LoginLimiter ----
(***************************************************************************)
(* The login route and its limiter, for one key (address and user name).   *)
(* The check, the comparison of the password and the record of a failure   *)
(* are three steps of a request, and requests run in parallel.             *)
(***************************************************************************)
EXTENDS Naturals, FiniteSets

CONSTANTS
    LoginRequest,     \* the requests the server runs in parallel
    MaxLoginFailures, \* max_attempts
    LoginTries        \* bound on the logins that reach the password

ASSUME LoginAssumption == MaxLoginFailures \in Nat \ {0} /\ IsFiniteSet(LoginRequest)

VARIABLES
    loginFailures, \* the failures of the key that are inside the window
    loginStep,     \* of each request: "new", "checked", "wrong" or "right"
    loginTries
loginVars == <<loginFailures, loginStep, loginTries>>

LoginInit ==
    /\ loginFailures = 0
    /\ loginStep = [r \in LoginRequest |-> "new"]
    /\ loginTries = 0

Allowed_OneMore == loginFailures <= MaxLoginFailures
\* check: the failures that have left the window are forgotten first.
Allowed == loginFailures < MaxLoginFailures

CheckLogin(r) ==
    /\ loginStep[r] = "new"
    /\ loginTries < LoginTries
    /\ Allowed
    /\ loginTries' = loginTries + 1
    /\ loginStep' = [loginStep EXCEPT ![r] = "checked"]
    /\ UNCHANGED loginFailures

\* authenticate_password; a user who is no member fails after the reset.
ComparePassword(r) ==
    /\ loginStep[r] = "checked"
    /\ \E result \in {"wrong", "right"} : loginStep' = [loginStep EXCEPT ![r] = result]
    /\ UNCHANGED <<loginFailures, loginTries>>

RecordLogin(r) ==
    /\ loginStep[r] \in {"wrong", "right"}
    /\ loginFailures' = IF loginStep[r] = "wrong" THEN loginFailures + 1 ELSE 0
    /\ loginStep' = [loginStep EXCEPT ![r] = "new"]
    /\ UNCHANGED loginTries

\* The oldest failure leaves the window.
ForgetFailure ==
    /\ loginFailures > 0
    /\ loginFailures' = loginFailures - 1
    /\ UNCHANGED <<loginStep, loginTries>>

\* The limiter lives in the process.
RestartLogin ==
    /\ loginFailures' = 0
    /\ loginStep' = [r \in LoginRequest |-> "new"]
    /\ UNCHANGED loginTries

LoginNext ==
    \/ \E r \in LoginRequest : CheckLogin(r) \/ ComparePassword(r) \/ RecordLogin(r)
    \/ ForgetFailure \/ RestartLogin

LoginSpec == LoginInit /\ [][LoginNext]_loginVars

\* The limiter is exact but for the requests that passed the check together:
\* failures inside the window and passwords still being compared never exceed
\* the limit by more than the other requests.
LoginsBounded ==
    loginFailures + Cardinality({r \in LoginRequest : loginStep[r] # "new"})
        < MaxLoginFailures + Cardinality(LoginRequest)
====
