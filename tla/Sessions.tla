------------------------------ MODULE Sessions ------------------------------
(***************************************************************************)
(* Login, authentication and logout (service/auth.go) as requests that     *)
(* overlap.  A login reads the user, later reads the clock, later inserts  *)
(* the session; an authenticated request reads the session row, later      *)
(* compares what it read with the clock, and later still acts, on the      *)
(* principal it was given.                                                 *)
(*                                                                         *)
(* Users are left out: nothing in the program changes or disables one, so  *)
(* the user a session names is always there and active, and a principal is *)
(* its session.  A token is its session too: tokens are random and their   *)
(* hash is unique.                                                         *)
(***************************************************************************)
EXTENDS Naturals, FiniteSets

CONSTANTS
  Ids,        \* session identifiers
  Requests,   \* HTTP requests in flight
  None,
  SessionTTL, \* lifetime of a session
  MaxTime     \* bound on the clock

ASSUME SessionsAssumption ==
  SessionTTL \in Nat \ {0} /\ MaxTime \in Nat /\ None \notin Ids

VARIABLES
  session, \* sessions
  logouts, \* audit rows "user_logout" of each session
  request, \* the requests
  now      \* the clock

sessionVars == <<session, logouts, request, now>>

NoSession == [exists |-> FALSE, expires |-> 0, revoked |-> FALSE]

\* `row` is the session row a request has read or is about to write; `late` is history:
\* the session had already ended when the request came in.
NoRequest == [step |-> "none", id |-> None, row |-> NoSession, late |-> FALSE]

SessionsInit ==
  /\ session = [s \in Ids |-> NoSession]
  /\ logouts = [s \in Ids |-> 0]
  /\ request = [r \in Requests |-> NoRequest]
  /\ now = 0

Set(r, value) == request' = [request EXCEPT ![r] = value]

\* Session.IsActive, on a row as it was read.
IsActive(row) == ~row.revoked /\ row.expires > now

\* Login with the right password.
Login(r) ==
  /\ request[r].step = "none"
  /\ Set(r, [NoRequest EXCEPT !.step = "credentials"])
  /\ UNCHANGED <<session, logouts, now>>

\* The password has been compared; the session is made up.
StampSession(r) ==
  /\ request[r].step = "credentials"
  /\ Set(r, [NoRequest EXCEPT !.step = "stamped",
               !.row = [exists |-> TRUE, expires |-> now + SessionTTL, revoked |-> FALSE]])
  /\ UNCHANGED <<session, logouts, now>>

InsertSession(r, s) ==
  /\ request[r].step = "stamped"
  /\ ~session[s].exists
  /\ session' = [session EXCEPT ![s] = request[r].row]
  /\ Set(r, NoRequest)
  /\ UNCHANGED <<logouts, now>>

\* A request with a bearer token comes in.
Arrive(r, s) ==
  /\ request[r].step = "none"
  /\ session[s].exists
  /\ Set(r, [NoRequest EXCEPT !.step = "arrived", !.id = s, !.late = ~IsActive(session[s])])
  /\ UNCHANGED <<session, logouts, now>>

ReadSession(r) ==
  /\ request[r].step = "arrived"
  /\ Set(r, [request[r] EXCEPT !.step = "read", !.row = session[request[r].id]])
  /\ UNCHANGED <<session, logouts, now>>

\* Mutant: a revoked session passes until it expires.
PassesUnexpired(row) == row.expires > now

\* Authenticate's last check.
Passes(row) == IsActive(row)

\* The handler gets the principal, or the client gets 401.
Judge(r) ==
  /\ request[r].step = "read"
  /\ Set(r, IF Passes(request[r].row) THEN [request[r] EXCEPT !.step = "admitted"]
                                      ELSE NoRequest)
  /\ UNCHANGED <<session, logouts, now>>

\* Any handler but logout: it does not look at the session again.
Handle(r) ==
  /\ request[r].step = "admitted"
  /\ Set(r, NoRequest)
  /\ UNCHANGED <<session, logouts, now>>

\* RevokeSession finds a row to update.
Revocable(s) == session[s].exists /\ ~session[s].revoked

\* A logout: it revokes the session and is audited, or it fails and is neither.
Logout(r) ==
  /\ request[r].step = "admitted"
  /\ LET s == request[r].id
     IN IF Revocable(s)
        THEN /\ session' = [session EXCEPT ![s].revoked = TRUE]
             /\ logouts' = [logouts EXCEPT ![s] = @ + 1]
        ELSE UNCHANGED <<session, logouts>>
  /\ Set(r, NoRequest)
  /\ UNCHANGED now

Tick ==
  /\ now < MaxTime
  /\ now' = now + 1
  /\ UNCHANGED <<session, logouts, request>>

\* The step a request takes next by itself; the write of a login is InsertSession's.
RequestStep(r) ==
  \/ StampSession(r) \/ ReadSession(r) \/ Judge(r) \/ Handle(r) \/ Logout(r)
  \/ \E s \in Ids : InsertSession(r, s)

-----------------------------------------------------------------------------
(* Properties.                                                             *)

\* README: "logout revokes it and expired sessions are rejected": no request that comes in
\* after its session was revoked or has expired reaches a handler, whatever logins,
\* logouts and other requests overlap with it.
EndedSessionsRejected == \A r \in Requests : request[r].step = "admitted" => ~request[r].late

\* Of any number of logouts racing on one session exactly one succeeds, and it is the one
\* that is audited.
LogoutOnce == \A s \in Ids : logouts[s] = IF session[s].revoked THEN 1 ELSE 0

=============================================================================
