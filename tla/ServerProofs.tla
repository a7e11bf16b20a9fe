---------------------------- MODULE ServerProofs ----------------------------
(***************************************************************************)
(* Server processes over one database, for any number of processes,        *)
(* migration files, sessions and requests: nobody serves on half a schema, *)
(* an ended session stays ended, and a clean exit loses no request.        *)
(***************************************************************************)
EXTENDS Server, TLAPS

-----------------------------------------------------------------------------
(* The inductive invariants.                                               *)

Stages == {"down", "checking", "applying", "recording", "up", "stopping", "joining"}

Serving == {"up", "stopping", "joining"}

MigrationsTypeOK ==
  /\ stage \in [Servers -> Stages]
  /\ file \in [Servers -> 1 .. Last + 1]
  /\ ledger \subseteq 1 .. Last
  /\ writer \in Servers \cup {Nobody}
  /\ runs \in [1 .. Last -> Nat]

\* What a process knows of the ledger from where it is: it has seen every file before its
\* own in it, and while it holds the write lock its own is not.
Progress(n) ==
  /\ stage[n] = "recording" <=> writer = n
  /\ stage[n] \in {"applying", "recording"} => file[n] <= Last
  /\ stage[n] = "recording" => file[n] \notin ledger
  /\ stage[n] \in {"checking", "applying", "recording"} => 1 .. (file[n] - 1) \subseteq ledger
  /\ stage[n] \in Serving => ledger = 1 .. Last

MigrationsInv == MigrationsTypeOK /\ LedgerMatchesSchema /\ \A n \in Servers : Progress(n)

Row == [exists : BOOLEAN, expires : Nat, revoked : BOOLEAN]

Request ==
  [step : {"none", "credentials", "stamped", "arrived", "read", "admitted"},
   id : Ids \cup {None}, row : Row, late : BOOLEAN]

SessionsTypeOK ==
  /\ session \in [Ids -> Row]
  /\ logouts \in [Ids -> Nat]
  /\ request \in [Requests -> Request]
  /\ now \in Nat

\* A request that came in late names a session that has ended, and what it has read of it
\* had ended too; a login is about to write a session that nobody has revoked.
Standing(r) ==
  /\ request[r].step = "stamped" => request[r].row.exists /\ ~request[r].row.revoked
  /\ request[r].step \in {"arrived", "read", "admitted"} =>
       request[r].id \in Ids /\ session[request[r].id].exists
  /\ request[r].step = "arrived" /\ request[r].late => ~IsActive(session[request[r].id])
  /\ request[r].step = "read" /\ request[r].late => ~IsActive(request[r].row)
  /\ request[r].step = "admitted" => ~request[r].late

Audited(s) ==
  /\ ~session[s].exists => ~session[s].revoked
  /\ logouts[s] = IF session[s].revoked THEN 1 ELSE 0

SessionsInv ==
  /\ SessionsTypeOK
  /\ \A r \in Requests : Standing(r)
  /\ \A s \in Ids : Audited(s)

\* A process past Shutdown has no request left.
JoiningIsDrained == \A n \in Servers : stage[n] = "joining" => RequestsOf(n) = {}

ExitInv ==
  /\ stage \in [Servers -> Stages]
  /\ host \in [Requests -> Servers \cup {Nobody}]
  /\ exit \in [Servers -> {"none", "failed", "clean"}]
  /\ JoiningIsDrained

-----------------------------------------------------------------------------
(* The schema.                                                             *)

\* What a step of a server does to the migrations.
LEMMA MigrationMoves ==
  ASSUME [Next]_allVars
  PROVE  \/ UNCHANGED migrationVars
         \/ \E n \in Servers :
              \/ Open(n) \/ OpenStep(n) \/ Die(n)
              \/ /\ \/ stage[n] = "up" /\ GoTo(n, "stopping")
                    \/ stage[n] = "stopping" /\ GoTo(n, "joining")
                 /\ UNCHANGED <<file, schema, ledger, writer, runs>>
<1>1. CASE Next
  BY <1>1 DEF Next, Start, Opening, Accept, WorkerWakes, WorkerSleeps, WorkerReturns, MoveWorker,
              Signal, Drain, ShutdownTimesOut, Stop, ListenFails, Crash, End, Serve
<1>2. CASE UNCHANGED allVars
  BY <1>2 DEF allVars
<1>. QED  BY <1>1, <1>2

\* The next migration extends the ledger by the file after its last.
LEMMA LedgerExtends ==
  ASSUME NEW k \in 0 .. Last, NEW f \in 1 .. Last, f \notin 1 .. k, 1 .. (f - 1) \subseteq 1 .. k
  PROVE  f = k + 1 /\ (1 .. k) \cup {f} = 1 .. f
<1>1. f > k
  BY MigrationsAssumption
<1>2. f - 1 <= k
  <2>1. CASE f = 1
    BY <2>1
  <2>2. CASE f > 1
    BY <2>2
  <2>. QED  BY <2>1, <2>2
<1>. QED  BY <1>1, <1>2

\* Recording a migration.
LEMMA RecordStep ==
  ASSUME MigrationsInv, NEW n \in Servers, Record(n)
  PROVE  MigrationsInv'
<1>0. /\ MigrationsTypeOK /\ Progress(n) /\ stage[n] = "recording" /\ writer = n
      /\ ledger = schema /\ file[n] \in 1 .. Last /\ file[n] \notin ledger
      /\ 1 .. (file[n] - 1) \subseteq ledger
  BY MigrationsAssumption
     DEF Record, MigrationsInv, MigrationsTypeOK, LedgerMatchesSchema, Progress
<1>1. /\ schema' = schema \cup {file[n]} /\ ledger' = ledger \cup {file[n]} /\ writer' = Nobody
      /\ runs' = [runs EXCEPT ![file[n]] = runs[file[n]] + 1]
      /\ file' = [file EXCEPT ![n] = file[n] + 1]
      /\ stage' = [stage EXCEPT ![n] = "checking"]
  BY DEF Record, GoTo
<1>2. PICK k \in 0 .. Last : ledger = 1 .. k
  BY DEF MigrationsInv, LedgerMatchesSchema
<1>3. ledger' = 1 .. file[n] /\ file[n] \in 0 .. Last
  BY <1>0, <1>1, <1>2, LedgerExtends
<1>4. MigrationsTypeOK'
  <2>1. file[n] + 1 \in 1 .. Last + 1 /\ runs[file[n]] + 1 \in Nat
    BY <1>0, MigrationsAssumption DEF MigrationsTypeOK
  <2>. QED  BY <1>0, <1>1, <2>1 DEF MigrationsTypeOK, Stages
<1>5. \A m \in 1 .. Last : runs'[m] = IF m \in ledger' THEN 1 ELSE 0
  <2>1. \A m \in 1 .. Last : runs[m] = IF m \in ledger THEN 1 ELSE 0
    BY DEF MigrationsInv, LedgerMatchesSchema
  <2>. QED  BY <1>0, <1>1, <2>1 DEF MigrationsTypeOK
<1>6. ASSUME NEW m \in Servers PROVE Progress(m)'
  <2>1. CASE m = n
    <3>1. stage'[n] = "checking" /\ file'[n] = file[n] + 1 /\ writer' # n
      BY <1>0, <1>1, MigrationsAssumption DEF MigrationsTypeOK
    <3>2. 1 .. (file'[n] - 1) \subseteq ledger'
      BY <1>0, <1>3, <3>1
    <3>. QED  BY <2>1, <3>1, <3>2 DEF Progress, Serving
  <2>2. CASE m # n
    <3>1. /\ stage'[m] = stage[m] /\ file'[m] = file[m] /\ ledger \subseteq ledger'
          /\ Progress(m) /\ stage[m] # "recording" /\ writer' # m
      BY <1>0, <1>1, <2>2, MigrationsAssumption DEF MigrationsTypeOK, MigrationsInv, Progress
    <3>2. stage[m] \notin Serving
      BY <1>0, <3>1 DEF Progress
    <3>. QED  BY <3>1, <3>2 DEF Progress
  <2>. QED  BY <2>1, <2>2
<1>. QED  BY <1>0, <1>1, <1>3, <1>4, <1>5, <1>6 DEF MigrationsInv, LedgerMatchesSchema

\* Migrations keep their invariant whatever the processes do.
LEMMA MigrationsStep == MigrationsInv /\ [Next]_allVars => MigrationsInv'
<1>. SUFFICES ASSUME MigrationsInv, [Next]_allVars PROVE MigrationsInv'
  OBVIOUS
<1>0. MigrationsTypeOK /\ LedgerMatchesSchema /\ \A n \in Servers : Progress(n)
  BY DEF MigrationsInv
<1>1. CASE UNCHANGED migrationVars
  BY <1>0, <1>1 DEF migrationVars, MigrationsInv, MigrationsTypeOK, LedgerMatchesSchema, Progress
<1>2. ASSUME NEW n \in Servers, UNCHANGED <<schema, ledger, runs>>,
             \A m \in Servers \ {n} : stage'[m] = stage[m] /\ file'[m] = file[m]
                                      /\ (writer = m <=> writer' = m),
             MigrationsTypeOK', Progress(n)'
      PROVE  MigrationsInv'
  BY <1>0, <1>2 DEF MigrationsInv, LedgerMatchesSchema, Progress
<1>3. ASSUME NEW n \in Servers, Open(n) PROVE MigrationsInv'
  <2>1. /\ stage[n] = "down" /\ stage' = [stage EXCEPT ![n] = "checking"]
        /\ file' = [file EXCEPT ![n] = 1] /\ UNCHANGED <<schema, ledger, writer, runs>>
    BY <1>3 DEF Open, GoTo
  <2>2. MigrationsTypeOK'
    BY <1>0, <2>1, MigrationsAssumption DEF MigrationsTypeOK, Stages
  <2>3. Progress(n)'
    BY <1>0, <2>1 DEF MigrationsTypeOK, Progress, Serving
  <2>. QED  BY <1>0, <1>2, <2>1, <2>2, <2>3 DEF MigrationsTypeOK
<1>4. ASSUME NEW n \in Servers, Opened(n) PROVE MigrationsInv'
  <2>1. /\ stage[n] = "checking" /\ file[n] > Last /\ stage' = [stage EXCEPT ![n] = "up"]
        /\ UNCHANGED <<file, schema, ledger, writer, runs>>
    BY <1>4 DEF Opened, GoTo
  <2>2. MigrationsTypeOK'
    BY <1>0, <2>1 DEF MigrationsTypeOK, Stages
  <2>3. ledger = 1 .. Last
    <3>1. file[n] - 1 = Last
      BY <1>0, <2>1, MigrationsAssumption DEF MigrationsTypeOK
    <3>. QED  BY <1>0, <2>1, <3>1 DEF MigrationsTypeOK, Progress
  <2>4. Progress(n)'
    BY <1>0, <2>1, <2>3 DEF MigrationsTypeOK, Progress
  <2>. QED  BY <1>0, <1>2, <2>1, <2>2, <2>4 DEF MigrationsTypeOK
<1>5. ASSUME NEW n \in Servers, CheckApplied(n) PROVE MigrationsInv'
  <2>0. /\ stage[n] = "checking" /\ file[n] <= Last /\ file[n] \in 1 .. Last
        /\ UNCHANGED <<schema, ledger, writer, runs>>
    BY <1>0, <1>5, MigrationsAssumption DEF CheckApplied, MigrationsTypeOK
  <2>1. CASE file[n] \in ledger
    <3>1. file' = [file EXCEPT ![n] = file[n] + 1] /\ UNCHANGED stage
      BY <1>5, <2>1 DEF CheckApplied, IsApplied
    <3>2. file[n] + 1 \in 1 .. Last + 1
      BY <2>0, MigrationsAssumption
    <3>3. MigrationsTypeOK'
      BY <1>0, <2>0, <3>1, <3>2 DEF MigrationsTypeOK
    <3>4. 1 .. (file'[n] - 1) = (1 .. (file[n] - 1)) \cup {file[n]}
      BY <1>0, <2>0, <3>1, MigrationsAssumption DEF MigrationsTypeOK
    <3>5. Progress(n)'
      BY <1>0, <2>0, <2>1, <3>1, <3>4 DEF MigrationsTypeOK, Progress, Serving
    <3>. QED  BY <1>0, <1>2, <2>0, <3>1, <3>3, <3>5 DEF MigrationsTypeOK
  <2>2. CASE file[n] \notin ledger
    <3>1. stage' = [stage EXCEPT ![n] = "applying"] /\ UNCHANGED file
      BY <1>5, <2>2 DEF CheckApplied, IsApplied, GoTo
    <3>2. MigrationsTypeOK'
      BY <1>0, <2>0, <3>1 DEF MigrationsTypeOK, Stages
    <3>3. Progress(n)'
      BY <1>0, <2>0, <3>1 DEF MigrationsTypeOK, Progress, Serving
    <3>. QED  BY <1>0, <1>2, <2>0, <3>1, <3>2, <3>3 DEF MigrationsTypeOK
  <2>. QED  BY <2>1, <2>2
<1>6. ASSUME NEW n \in Servers, Apply(n) PROVE MigrationsInv'
  <2>1. /\ stage[n] = "applying" /\ writer = Nobody /\ file[n] \notin ledger /\ writer' = n
        /\ stage' = [stage EXCEPT ![n] = "recording"] /\ UNCHANGED <<file, schema, ledger, runs>>
    BY <1>0, <1>6 DEF Apply, GoTo, LedgerMatchesSchema
  <2>2. MigrationsTypeOK'
    BY <1>0, <2>1 DEF MigrationsTypeOK, Stages
  <2>3. Progress(n)'
    BY <1>0, <2>1 DEF MigrationsTypeOK, Progress, Serving
  <2>. QED  BY <1>0, <1>2, <2>1, <2>2, <2>3, MigrationsAssumption DEF MigrationsTypeOK
<1>7. ASSUME NEW n \in Servers, NEW s \in {"down", "stopping", "joining"},
             s = "down" \/ stage[n] \in Serving,
             writer' = IF writer = n THEN Nobody ELSE writer,
             GoTo(n, s), UNCHANGED <<file, schema, ledger, runs>>
      PROVE  MigrationsInv'
  <2>1. stage' = [stage EXCEPT ![n] = s]
    BY <1>7 DEF GoTo
  <2>2. MigrationsTypeOK'
    BY <1>0, <1>7, <2>1 DEF MigrationsTypeOK, Stages
  <2>3. Progress(n)'
    BY <1>0, <1>7, <2>1, MigrationsAssumption DEF MigrationsTypeOK, Progress, Serving
  <2>. QED  BY <1>0, <1>2, <1>7, <2>1, <2>2, <2>3, MigrationsAssumption DEF MigrationsTypeOK
<1>8. ASSUME NEW n \in Servers, ApplyFails(n) PROVE MigrationsInv'
  BY <1>0, <1>7, <1>8 DEF ApplyFails, Progress
<1>9. ASSUME NEW n \in Servers, Die(n) PROVE MigrationsInv'
  BY <1>7, <1>9 DEF Die
<1>10. ASSUME NEW n \in Servers,
              \/ stage[n] = "up" /\ GoTo(n, "stopping")
              \/ stage[n] = "stopping" /\ GoTo(n, "joining"),
              UNCHANGED <<file, schema, ledger, writer, runs>>
       PROVE  MigrationsInv'
  BY <1>0, <1>7, <1>10 DEF Progress, Serving
<1>. QED
  BY <1>1, <1>3, <1>4, <1>5, <1>6, <1>8, <1>9, <1>10, RecordStep, MigrationMoves DEF OpenStep

\* For any number of processes that start, migrate and die together over any number of
\* migration files: the ledger never differs from the schema, each file is applied once,
\* and whoever serves has all of them.
THEOREM SchemaAlwaysSound == Spec => []SchemaSound
<1>1. Init => MigrationsInv
  <2>. SUFFICES ASSUME Init PROVE MigrationsInv
    OBVIOUS
  <2>1. {} = 1 .. 0 /\ 0 \in 0 .. Last
    BY MigrationsAssumption
  <2>. QED  BY <2>1, MigrationsAssumption
            DEF Init, MigrationsInit, MigrationsInv, MigrationsTypeOK, Stages, LedgerMatchesSchema,
                Progress, Serving
<1>2. MigrationsInv => SchemaSound
  <2>. SUFFICES ASSUME MigrationsInv, NEW n \in Servers, stage[n] \in Serving
                PROVE  ledger = 1 .. Last /\ writer = Nobody
    BY DEF MigrationsInv, SchemaSound, ServedOnWholeSchema, Serving
  <2>1. ledger = 1 .. Last
    BY DEF MigrationsInv, Progress
  <2>2. ASSUME writer # Nobody PROVE FALSE
    <3>1. writer \in Servers /\ Progress(writer) /\ file[writer] \in 1 .. Last + 1
      BY <2>2 DEF MigrationsInv, MigrationsTypeOK
    <3>2. file[writer] <= Last /\ file[writer] \notin ledger
      BY <3>1 DEF Progress
    <3>. QED  BY <2>1, <3>1, <3>2, MigrationsAssumption
  <2>. QED  BY <2>1, <2>2
<1>. QED  BY <1>1, <1>2, MigrationsStep, PTL DEF Spec

-----------------------------------------------------------------------------
(* Sessions.                                                               *)

\* What a step of a server does to sessions and requests.
LEMMA SessionMoves ==
  ASSUME [Next]_allVars
  PROVE  \/ UNCHANGED sessionVars
         \/ \E r \in Requests : Login(r) \/ RequestStep(r) \/ \E s \in Ids : Arrive(r, s)
         \/ Tick
         \/ \E n \in Servers : CutOff(n) /\ UNCHANGED <<session, logouts, now>>
<1>1. CASE Next
  BY <1>1 DEF Next, Start, Opening, Accept, WorkerWakes, WorkerSleeps, WorkerReturns, MoveWorker,
              Signal, Drain, ShutdownTimesOut, Stop, ListenFails, Crash, End, Serve
<1>2. CASE UNCHANGED allVars
  BY <1>2 DEF allVars
<1>. QED  BY <1>1, <1>2

\* A session that has ended stays so: it is never inserted again, and revoking and the
\* clock only end it.
LEMMA EndedStays ==
  ASSUME SessionsInv, NEW s \in Ids, session[s].exists,
         session' \in [Ids -> Row],
         \/ session'[s] = session[s]
         \/ session'[s] = [session[s] EXCEPT !.revoked = TRUE],
         now' \in Nat, now' >= now
  PROVE  session'[s].exists /\ (~IsActive(session[s]) => ~IsActive(session[s])')
BY DEF IsActive, SessionsInv, SessionsTypeOK, Row

\* A step that moves one request and leaves the sessions keeps what holds of the others.
LEMMA RequestMoves ==
  ASSUME SessionsInv, NEW r \in Requests, NEW q \in Request,
         Set(r, q), UNCHANGED <<session, logouts, now>>, Standing(r)'
  PROVE  SessionsInv'
<1>1. SessionsTypeOK' /\ \A d \in Requests \ {r} : request'[d] = request[d]
  BY DEF Set, SessionsInv, SessionsTypeOK
<1>2. \A d \in Requests \ {r} : Standing(d)'
  BY <1>1 DEF SessionsInv, Standing, IsActive
<1>. QED  BY <1>1, <1>2 DEF SessionsInv, Audited

\* A login, up to the insert of its session.
LEMMA LoginStep ==
  ASSUME SessionsInv, NEW r \in Requests, Login(r) \/ StampSession(r)
  PROVE  SessionsInv'
<1>0. request \in [Requests -> Request] /\ now \in Nat
  BY DEF SessionsInv, SessionsTypeOK
<1>1. CASE Login(r)
  <2>. DEFINE q == [NoRequest EXCEPT !.step = "credentials"]
  <2>1. Set(r, q) /\ UNCHANGED <<session, logouts, now>>
    BY <1>1 DEF Login
  <2>2. q \in Request /\ q.step = "credentials"
    BY DEF NoRequest, NoSession, Request, Row
  <2>. HIDE DEF q
  <2>3. Standing(r)'
    BY <1>0, <2>1, <2>2 DEF Set, Standing
  <2>. QED  BY <2>1, <2>2, <2>3, RequestMoves
<1>2. CASE StampSession(r)
  <2>. DEFINE row == [exists |-> TRUE, expires |-> now + SessionTTL, revoked |-> FALSE]
              q == [NoRequest EXCEPT !.step = "stamped", !.row = row]
  <2>1. Set(r, q) /\ UNCHANGED <<session, logouts, now>>
    BY <1>2 DEF StampSession
  <2>2. row \in Row
    BY <1>0, SessionsAssumption DEF Row
  <2>3. row.exists /\ ~row.revoked
    OBVIOUS
  <2>. HIDE DEF row
  <2>4. q \in Request /\ q.step = "stamped" /\ q.row = row
    BY <2>2 DEF NoRequest, NoSession, Request
  <2>. HIDE DEF q
  <2>5. Standing(r)'
    BY <1>0, <2>1, <2>3, <2>4 DEF Set, Standing
  <2>. QED  BY <2>1, <2>4, <2>5, RequestMoves
<1>. QED  BY <1>1, <1>2

\* An authenticated request, up to the handler's answer.
LEMMA AuthenticateStep ==
  ASSUME SessionsInv, NEW r \in Requests,
         (\E s \in Ids : Arrive(r, s)) \/ ReadSession(r) \/ Judge(r) \/ Handle(r)
  PROVE  SessionsInv'
<1>0. /\ request \in [Requests -> Request] /\ request[r] \in Request
      /\ session \in [Ids -> Row] /\ now \in Nat /\ Standing(r)
  BY DEF SessionsInv, SessionsTypeOK
<1>1. ASSUME NEW s \in Ids, Arrive(r, s) PROVE SessionsInv'
  <2>. DEFINE l == ~IsActive(session[s])
              q == [NoRequest EXCEPT !.step = "arrived", !.id = s, !.late = l]
  <2>1. Set(r, q) /\ UNCHANGED <<session, logouts, now>> /\ session[s].exists
    BY <1>1 DEF Arrive
  <2>2. l \in BOOLEAN
    BY DEF IsActive
  <2>3. l => ~IsActive(session[s])
    OBVIOUS
  <2>. HIDE DEF l
  <2>4. q \in Request /\ q.step = "arrived" /\ q.id = s /\ q.late = l
    BY <2>2 DEF NoRequest, NoSession, Request, Row
  <2>. HIDE DEF q
  <2>5. Standing(r)'
    BY <1>0, <2>1, <2>3, <2>4 DEF Set, Standing, IsActive
  <2>. QED  BY <2>1, <2>4, <2>5, RequestMoves
<1>2. CASE ReadSession(r)
  <2>. DEFINE s == request[r].id
              q == [request[r] EXCEPT !.step = "read", !.row = session[s]]
  <2>1. Set(r, q) /\ UNCHANGED <<session, logouts, now>> /\ request[r].step = "arrived"
    BY <1>2 DEF ReadSession
  <2>2. s \in Ids /\ session[s].exists /\ (request[r].late => ~IsActive(session[s]))
    BY <1>0, <2>1 DEF Standing
  <2>3. session[s] \in Row
    BY <1>0, <2>2
  <2>4. q \in Request /\ q.step = "read" /\ q.id = s /\ q.late = request[r].late /\ q.row = session[s]
    BY <1>0, <2>3 DEF Request
  <2>. HIDE DEF q
  <2>5. Standing(r)'
    BY <1>0, <2>1, <2>2, <2>4 DEF Set, Standing, IsActive
  <2>. QED  BY <2>1, <2>4, <2>5, RequestMoves
<1>3. CASE Judge(r)
  <2>1. UNCHANGED <<session, logouts, now>> /\ request[r].step = "read"
    BY <1>3 DEF Judge
  <2>2. CASE IsActive(request[r].row)
    <3>. DEFINE q == [request[r] EXCEPT !.step = "admitted"]
    <3>1. Set(r, q)
      BY <1>3, <2>2 DEF Judge, Passes
    <3>2. q \in Request /\ q.step = "admitted" /\ q.id = request[r].id /\ q.late = request[r].late
      BY <1>0 DEF Request
    <3>. HIDE DEF q
    <3>3. Standing(r)'
      BY <1>0, <2>1, <2>2, <3>1, <3>2 DEF Set, Standing
    <3>. QED  BY <2>1, <3>1, <3>2, <3>3, RequestMoves
  <2>3. CASE ~IsActive(request[r].row)
    <3>1. Set(r, NoRequest) /\ NoRequest \in Request /\ NoRequest.step = "none"
      BY <1>3, <2>3 DEF Judge, Passes, NoRequest, NoSession, Request, Row
    <3>2. Standing(r)'
      BY <1>0, <3>1 DEF Set, Standing
    <3>. QED  BY <2>1, <3>1, <3>2, RequestMoves
  <2>. QED  BY <2>2, <2>3
<1>4. CASE Handle(r)
  <2>1. /\ Set(r, NoRequest) /\ NoRequest \in Request /\ NoRequest.step = "none"
        /\ UNCHANGED <<session, logouts, now>>
    BY <1>4 DEF Handle, NoRequest, NoSession, Request, Row
  <2>2. Standing(r)'
    BY <1>0, <2>1 DEF Set, Standing
  <2>. QED  BY <2>1, <2>2, RequestMoves
<1>. QED  BY <1>1, <1>2, <1>3, <1>4

\* The steps that write a session: a login's insert and a logout.
LEMMA SessionStep ==
  ASSUME SessionsInv, NEW r \in Requests,
         (\E s \in Ids : InsertSession(r, s)) \/ Logout(r)
  PROVE  SessionsInv'
<1>0. /\ request \in [Requests -> Request] /\ request[r] \in Request
      /\ session \in [Ids -> Row] /\ logouts \in [Ids -> Nat] /\ now \in Nat
      /\ Standing(r) /\ \A s \in Ids : Audited(s)
      /\ NoRequest \in Request /\ NoRequest.step = "none"
  BY DEF SessionsInv, SessionsTypeOK, NoRequest, NoSession, Request, Row
<1>1. ASSUME NEW s \in Ids, Set(r, NoRequest), UNCHANGED now,
             session' \in [Ids -> Row], logouts' \in [Ids -> Nat],
             \A i \in Ids \ {s} : session'[i] = session[i] /\ logouts'[i] = logouts[i],
             \/ ~session[s].exists
             \/ session'[s] = [session[s] EXCEPT !.revoked = TRUE],
             Audited(s)'
      PROVE  SessionsInv'
  <2>1. /\ SessionsTypeOK' /\ \A d \in Requests \ {r} : request'[d] = request[d]
        /\ request'[r].step = "none"
    BY <1>0, <1>1 DEF SessionsInv, SessionsTypeOK, Set
  <2>2. Standing(r)'
    BY <2>1 DEF Standing
  <2>3. ASSUME NEW d \in Requests \ {r} PROVE Standing(d)'
    <3>1. Standing(d) /\ request'[d] = request[d] /\ now' = now
      BY <1>1, <2>1 DEF SessionsInv
    <3>2. ASSUME NEW i \in Ids, session[i].exists
          PROVE  session'[i].exists /\ (~IsActive(session[i]) => ~IsActive(session[i])')
      BY <1>0, <1>1, <3>2, EndedStays
    <3>3. IsActive(request[d].row)' = IsActive(request[d].row)
      BY <3>1 DEF IsActive
    <3>. QED  BY <3>1, <3>2, <3>3 DEF Standing
  <2>4. \A i \in Ids : Audited(i)'
    BY <1>0, <1>1 DEF Audited
  <2>. QED  BY <2>1, <2>2, <2>3, <2>4 DEF SessionsInv
<1>2. ASSUME NEW s \in Ids, InsertSession(r, s) PROVE SessionsInv'
  <2>1. /\ request[r].step = "stamped" /\ ~session[s].exists
        /\ session' = [session EXCEPT ![s] = request[r].row]
        /\ Set(r, NoRequest) /\ UNCHANGED <<logouts, now>>
    BY <1>2 DEF InsertSession
  <2>2. request[r].row \in Row /\ request[r].row.exists /\ ~request[r].row.revoked
    BY <1>0, <2>1 DEF Standing, Request
  <2>3. Audited(s)'
    BY <1>0, <2>1, <2>2 DEF Audited
  <2>. QED  BY <1>0, <1>1, <2>1, <2>2, <2>3
<1>3. CASE Logout(r)
  <2>0. PICK s \in Ids : s = request[r].id
    BY <1>0, <1>3 DEF Logout, Standing
  <2>1. Set(r, NoRequest) /\ UNCHANGED now /\ session[s].exists
    BY <1>0, <1>3, <2>0 DEF Logout, Standing
  <2>2. CASE ~session[s].revoked
    <3>1. /\ session' = [session EXCEPT ![s].revoked = TRUE]
          /\ logouts' = [logouts EXCEPT ![s] = logouts[s] + 1]
      BY <1>3, <2>0, <2>1, <2>2 DEF Logout, Revocable
    <3>2. session'[s].revoked /\ session'[s].exists /\ session' \in [Ids -> Row]
      BY <1>0, <2>1, <3>1 DEF Row
    <3>3. logouts[s] = 0 /\ logouts[s] + 1 = 1 /\ 1 \in Nat
      BY <1>0, <2>1, <2>2 DEF Audited
    <3>4. Audited(s)' /\ logouts' \in [Ids -> Nat]
      BY <1>0, <2>1, <3>1, <3>2, <3>3 DEF Audited
    <3>5. session'[s] = [session[s] EXCEPT !.revoked = TRUE]
      BY <1>0, <2>1, <3>1
    <3>6. \A i \in Ids \ {s} : session'[i] = session[i] /\ logouts'[i] = logouts[i]
      BY <1>0, <3>1
    <3>. QED  BY <1>1, <2>1, <3>2, <3>4, <3>5, <3>6
  <2>3. CASE session[s].revoked
    <3>1. UNCHANGED <<session, logouts>>
      BY <1>3, <2>0, <2>1, <2>3 DEF Logout, Revocable
    <3>2. Standing(r)'
      BY <1>0, <2>1 DEF Set, Standing
    <3>. QED  BY <1>0, <2>1, <3>1, <3>2, RequestMoves
  <2>. QED  BY <2>2, <2>3
<1>. QED  BY <1>2, <1>3

\* Sessions keep their invariant whatever the requests and the processes do.
LEMMA SessionsStep == SessionsInv /\ [Next]_allVars => SessionsInv'
<1>. SUFFICES ASSUME SessionsInv, [Next]_allVars PROVE SessionsInv'
  OBVIOUS
<1>1. CASE UNCHANGED sessionVars
  BY <1>1 DEF sessionVars, SessionsInv, SessionsTypeOK, Standing, Audited, IsActive
<1>2. CASE Tick
  <2>1. /\ now' = now + 1 /\ UNCHANGED <<session, logouts, request>>
        /\ now \in Nat /\ now' \in Nat /\ now' >= now
        /\ session \in [Ids -> Row] /\ request \in [Requests -> Request]
    BY <1>2 DEF Tick, SessionsInv, SessionsTypeOK
  <2>2. ASSUME NEW row \in Row, row.expires > now' PROVE row.expires > now
    BY <2>1, <2>2 DEF Row
  <2>3. \A r \in Requests : Standing(r)'
    <3>1. SUFFICES ASSUME NEW r \in Requests PROVE Standing(r)'
      OBVIOUS
    <3>2. Standing(r) /\ request[r].row \in Row
      BY <2>1 DEF SessionsInv, Request
    <3>3. request[r].id \in Ids => session[request[r].id] \in Row
      BY <2>1
    <3>. QED  BY <2>1, <2>2, <3>2, <3>3 DEF Standing, IsActive
  <2>. QED  BY <2>1, <2>3 DEF SessionsInv, SessionsTypeOK, Audited
<1>3. ASSUME NEW n \in Servers, CutOff(n), UNCHANGED <<session, logouts, now>>
      PROVE  SessionsInv'
  <2>1. NoRequest \in Request /\ NoRequest.step = "none"
    BY DEF NoRequest, NoSession, Request, Row
  <2>2. \A r \in Requests : request'[r] = NoRequest \/ request'[r] = request[r]
    BY <1>3 DEF CutOff
  <2>3. SessionsTypeOK'
    BY <1>3, <2>1 DEF SessionsInv, SessionsTypeOK, CutOff
  <2>4. \A r \in Requests : Standing(r)'
    BY <1>3, <2>1, <2>2 DEF SessionsInv, Standing, IsActive
  <2>. QED  BY <1>3, <2>3, <2>4 DEF SessionsInv, Audited
<1>. QED
  BY <1>1, <1>2, <1>3, SessionMoves, LoginStep, AuthenticateStep, SessionStep DEF RequestStep

\* For any number of sessions, requests and processes, and any lifetime of a session: a
\* request that came in after its session had ended is never admitted, and a session is
\* logged out, and audited, once.
THEOREM SessionsAlwaysEnd == Spec => []SessionsEnd
<1>1. Init => SessionsInv
  BY DEF Init, SessionsInit, SessionsInv, SessionsTypeOK, NoSession, NoRequest, Row, Request,
         Standing, Audited
<1>2. SessionsInv => SessionsEnd
  BY DEF SessionsInv, Standing, Audited, SessionsEnd, EndedSessionsRejected, LogoutOnce
<1>. QED  BY <1>1, <1>2, SessionsStep, PTL DEF Spec

-----------------------------------------------------------------------------
(* Exits.                                                                  *)

\* Requests only end, or come to a process that listens.
LEMMA RequestsOfStep ==
  ASSUME ExitInv, Next, NEW n \in Servers, stage[n] # "up"
  PROVE  RequestsOf(n)' \subseteq RequestsOf(n)
<1>0. /\ host \in [Requests -> Servers \cup {Nobody}]
  BY DEF ExitInv
<1>. SUFFICES ASSUME NEW q \in Requests, request'[q].step # "none", host'[q] = n
              PROVE  request[q].step # "none" /\ host[q] = n
  BY DEF RequestsOf
<1>1. ASSUME UNCHANGED <<request, host>> PROVE request[q].step # "none" /\ host[q] = n
  BY <1>1
<1>2. ASSUME NEW m \in Servers, NEW r \in Requests, Accept(m, r)
      PROVE  request[q].step # "none" /\ host[q] = n
  <2>1. host' = [host EXCEPT ![r] = m] /\ stage[m] = "up"
    BY <1>2 DEF Accept
  <2>2. q # r
    BY <1>0, <2>1
  <2>3. \E v : request' = [request EXCEPT ![r] = v]
    BY <1>2 DEF Accept, Login, Arrive, Set
  <2>. QED  BY <1>0, <2>1, <2>2, <2>3
<1>3. ASSUME NEW m \in Servers, NEW how, End(m, how)
      PROVE  request[q].step # "none" /\ host[q] = n
  BY <1>3 DEF End, CutOff, NoRequest
<1>4. ASSUME NEW r \in Requests, Serve(r)
      PROVE  request[q].step # "none" /\ host[q] = n
  <2>1. UNCHANGED host /\ request[r].step # "none"
    BY <1>4 DEF Serve, procVars, RequestStep, StampSession, ReadSession, Judge, Handle, Logout,
                InsertSession
  <2>2. \E v : request' = [request EXCEPT ![r] = v]
    BY <1>4 DEF Serve, RequestStep, StampSession, ReadSession, Judge, Handle, Logout,
                InsertSession, Set
  <2>3. q # r => request'[q] = request[q]
    BY <2>2
  <2>. QED  BY <2>1, <2>3
<1>. QED
  BY <1>1, <1>2, <1>3, <1>4
     DEF Next, Start, Opening, WorkerWakes, WorkerSleeps, WorkerReturns, MoveWorker, Signal, Drain,
         ShutdownTimesOut, Stop, ListenFails, Crash, Tick, sessionVars, procVars

\* The steps that set how a process ended, and those that bring one past Shutdown.
LEMMA ExitMoves ==
  ASSUME Next
  PROVE  /\ \/ UNCHANGED exit
            \/ \E n \in Servers, how \in {"none", "failed"} : exit' = [exit EXCEPT ![n] = how]
            \/ \E n \in Servers : /\ exit' = [exit EXCEPT ![n] = "clean"]
                                  /\ stage[n] = "joining" /\ worker[n] = "returned"
         /\ \/ UNCHANGED stage
            \/ \E n \in Servers, s \in Stages \ {"joining"} : stage' = [stage EXCEPT ![n] = s]
            \/ \E n \in Servers : Drain(n) /\ stage' = [stage EXCEPT ![n] = "joining"]
         /\ UNCHANGED host \/ \E n \in Servers, r \in Requests : host' = [host EXCEPT ![r] = n]
  BY DEF Next, Start, Opening, OpenStep, Open, Opened, CheckApplied, Apply, ApplyFails, Record, Accept,
         WorkerWakes, WorkerSleeps, WorkerReturns, MoveWorker, Signal, Drain, ShutdownTimesOut, Stop,
         Joined, ListenFails, Crash, End, Die, GoTo, Serve, Tick, migrationVars, sessionVars, procVars,
         Stages

\* For any number of processes and requests: a process exits without an error only with
\* every request it accepted answered and its worker's loop returned.
THEOREM CleanExits == Spec => CleanExitLosesNothing
<1>1. Init => ExitInv
  BY DEF Init, MigrationsInit, ExitInv, Stages, JoiningIsDrained
<1>2. ExitInv /\ [Next]_allVars => ExitInv'
  <2>. SUFFICES ASSUME ExitInv, [Next]_allVars PROVE ExitInv'
    OBVIOUS
  <2>0. /\ stage \in [Servers -> Stages]
        /\ host \in [Requests -> Servers \cup {Nobody}]
        /\ exit \in [Servers -> {"none", "failed", "clean"}]
    BY DEF ExitInv
  <2>1. CASE UNCHANGED allVars
    BY <2>1 DEF allVars, migrationVars, sessionVars, procVars, ExitInv, JoiningIsDrained, RequestsOf
  <2>2. CASE Next
    <3>1. stage' \in [Servers -> Stages]
      BY <2>0, <2>2, ExitMoves DEF Stages
    <3>2. host' \in [Requests -> Servers \cup {Nobody}]
      BY <2>0, <2>2, ExitMoves
    <3>3. exit' \in [Servers -> {"none", "failed", "clean"}]
      BY <2>0, <2>2, ExitMoves
    <3>4. ASSUME NEW n \in Servers, stage'[n] = "joining" PROVE RequestsOf(n)' = {}
      <4>1. CASE stage[n] = "joining"
        BY <2>2, <4>1, RequestsOfStep DEF ExitInv, JoiningIsDrained
      <4>2. CASE stage[n] # "joining"
        <5>1. Drain(n)
          BY <2>0, <2>2, <3>4, <4>2, ExitMoves
        <5>. QED  BY <5>1 DEF Drain, Drained, RequestsOf, sessionVars, procVars
      <4>. QED  BY <4>1, <4>2
    <3>. QED  BY <3>1, <3>2, <3>3, <3>4 DEF ExitInv, JoiningIsDrained
  <2>. QED  BY <2>1, <2>2
<1>3. ExitInv /\ [Next]_allVars => [CleanExit]_allVars
  <2>. SUFFICES ASSUME ExitInv, Next, NEW n \in Servers, exit'[n] = "clean", exit[n] # "clean"
                PROVE  RequestsOf(n) = {} /\ worker[n] = "returned"
    BY DEF CleanExit
  <2>1. stage[n] = "joining" /\ worker[n] = "returned"
    BY ExitMoves DEF ExitInv
  <2>. QED  BY <2>1 DEF ExitInv, JoiningIsDrained
<1>. QED  BY <1>1, <1>2, <1>3, PTL DEF Spec, CleanExitLosesNothing

=============================================================================
