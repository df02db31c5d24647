----------------------------- MODULE TrafficProofs -----------------------------
(***************************************************************************)
(* What the traffic recorder promises, for any number of clients, daemons, *)
(* connections, messages and faults, on its own (Spec) and together with   *)
(* the certificate authority (TrustSpec).                                  *)
(*                                                                         *)
(* A step of TrafficTrust is a step of TrafficProxy, leaves its variables  *)
(* alone, or is one of four steps of commands about the authority; so the  *)
(* invariants of the recorder are proved once for both.                    *)
(***************************************************************************)
EXTENDS TrafficTrust, TLAPS, FiniteSetTheorems, SequenceTheorems

-----------------------------------------------------------------------------
(* Records *)

SentHosts == {m.authority.host : m \in Messages}

LogRecord ==
  [mode : {"request"}, session : Daemons, seq : Nat, host : SentHosts, class : Classes]
    \cup [mode : {"session"}, session : Daemons, requests : Nat]

\* A request that is parsed has arrived whole, and goes where the tunnel goes
LEMMA ParsedRequest ==
  ASSUME NEW m, Parsed(m) # Nothing
  PROVE  /\ Parsed(m).host = m.authority.host
         /\ Parsed(m).path = m.http.path
         /\ Parsed(m).body = IF m.http.framed THEN m.http.body ELSE {}
         /\ m.http.framed => m.http.ends
<1>1. SplitAuthority(m.authority) # Nothing
  BY DEF Parsed
<1>2. SplitAuthority(m.authority) = [kind |-> "authority", host |-> m.authority.host]
  BY <1>1 DEF SplitAuthority
<1>3. Parsed(m) = ParseHttpRequest(SplitAuthority(m.authority).host, m.http)
  BY <1>1, Zenon DEF Parsed
<1>4. Parsed(m) = ParseHttpRequest(m.authority.host, m.http)
  BY <1>2, <1>3
<1>5. Parsed(m) = [kind |-> "request", host |-> m.authority.host, path |-> m.http.path,
                   body |-> IF m.http.framed THEN m.http.body ELSE {}]
  BY <1>4, Zenon DEF ParseHttpRequest
<1>6. BodyArrives(m.http)
  BY <1>4, Zenon DEF ParseHttpRequest
<1> QED BY <1>5, <1>6 DEF BodyArrives

LEMMA RecordTypes ==
  ASSUME NEW m \in Messages, Parsed(m) # Nothing, NEW d \in Daemons, NEW n \in Nat
  PROVE  /\ RequestRecord(Parsed(m), d, n) \in LogRecord
         /\ SessionRecord(d, n) \in LogRecord
<1>1. Parsed(m).host \in SentHosts
  BY ParsedRequest DEF SentHosts
<1>2. ClassifyRequest(Parsed(m)) \in Classes
  BY DEF ClassifyRequest, Classes
<1> QED BY <1>1, <1>2 DEF RequestRecord, SessionRecord, LogRecord

\* What one more record adds to the requests and to the closing records of a session
LEMMA AppendedRecord ==
  ASSUME NEW l \in Seq(LogRecord), NEW r \in LogRecord, NEW d
  PROVE  /\ Append(l, r) \in Seq(LogRecord)
         /\ RequestsOf(Append(l, r), d) =
              RequestsOf(l, d) \cup (IF r.mode = "request" /\ r.session = d THEN {Len(l) + 1} ELSE {})
         /\ SessionRecords(Append(l, r)) =
              SessionRecords(l) \cup (IF r.mode = "session" THEN {r} ELSE {})
<1>1. /\ Append(l, r) \in Seq(LogRecord) /\ Len(l) \in Nat
      /\ DOMAIN l = 1..Len(l) /\ DOMAIN Append(l, r) = 1..Len(l) + 1
      /\ \A i \in 1..Len(l) : Append(l, r)[i] = l[i]
      /\ Append(l, r)[Len(l) + 1] = r
  OBVIOUS
<1>2. RequestsOf(Append(l, r), d) =
        RequestsOf(l, d) \cup (IF r.mode = "request" /\ r.session = d THEN {Len(l) + 1} ELSE {})
  BY <1>1 DEF RequestsOf
<1>3. ToSet(Append(l, r)) = ToSet(l) \cup {r}
  BY <1>1 DEF ToSet
<1> QED BY <1>1, <1>2, <1>3 DEF SessionRecords

LEMMA RequestsFinite ==
  ASSUME NEW l \in Seq(LogRecord), NEW d
  PROVE  /\ RequestsOf(l, d) \in SUBSET (1..Len(l)) /\ IsFiniteSet(RequestsOf(l, d))
         /\ Observed(l, d) \in Nat
<1>1. RequestsOf(l, d) \in SUBSET (1..Len(l)) /\ IsFiniteSet(1..Len(l))
  BY FS_Interval DEF RequestsOf
<1> QED BY <1>1, FS_Subset, FS_CardinalityType DEF Observed

LEMMA ObservedAppend ==
  ASSUME NEW l \in Seq(LogRecord), NEW r \in LogRecord, NEW d
  PROVE  Observed(Append(l, r), d) =
           Observed(l, d) + (IF r.mode = "request" /\ r.session = d THEN 1 ELSE 0)
<1>1. Len(l) + 1 \notin RequestsOf(l, d)
  BY RequestsFinite
<1>2. CASE r.mode = "request" /\ r.session = d
  BY <1>1, <1>2, AppendedRecord, RequestsFinite, FS_AddElement DEF Observed
<1>3. CASE ~(r.mode = "request" /\ r.session = d)
  <2>1. RequestsOf(Append(l, r), d) = RequestsOf(l, d) \cup {}
    BY <1>3, AppendedRecord, Zenon
  <2>2. RequestsOf(Append(l, r), d) = RequestsOf(l, d)
    BY <2>1
  <2>3. Observed(Append(l, r), d) = Observed(l, d) /\ Observed(l, d) \in Nat
    BY <2>2, RequestsFinite DEF Observed
  <2> QED BY <1>3, <2>3
<1> QED BY <1>2, <1>3

-----------------------------------------------------------------------------
(* Steps *)

AuthorityStep(c) == AuthorityCommand(c) \/ AuthorityDone(c) \/ ReadAgain(c) \/ WriteAgain(c)

\* What a step of either specification does to the recorder
RecorderNext == Next \/ \E c \in Clients : AuthorityStep(c)

LimitOK == limit \in [clients : SUBSET Clients, daemons : 0..MaxDaemons, handlers : SUBSET Handlers]

LEMMA TrustStep ==
  ASSUME LimitOK, [TrustNext]_allVars
  PROVE  LimitOK' /\ [RecorderNext]_vars
<1>1. MaxDaemons \in Nat
  BY BoundsAreNaturals
<1>2. limit.clients \subseteq Clients /\ limit.handlers \subseteq Handlers /\ 1..limit.daemons \subseteq Daemons
  BY <1>1 DEF LimitOK, Daemons
<1>3. CASE UNCHANGED allVars
  BY <1>3 DEF allVars, trustVars, LimitOK
<1>4. CASE \E h \in limit.handlers : Connection(h) /\ UNCHANGED trustVars
  BY <1>4, <1>2 DEF RecorderNext, Next, trustVars, LimitOK
<1>5. CASE \E h \in limit.handlers : Issue(h)
  BY <1>5 DEF Issue, Regenerate, ProxyStays, LimitOK
<1>6. CASE \E d \in Daemons : DaemonSteps(d)
  BY <1>6 DEF DaemonSteps, BindWithAuthority, Regenerate, trustVars, LimitOK, RecorderNext, Next, Main
<1>7. CASE \E d \in Daemons : Trouble(d) /\ UNCHANGED trustVars
  BY <1>7 DEF trustVars, LimitOK, RecorderNext, Next
<1>8. ASSUME NEW c \in limit.clients, WithAuthority(c)
      PROVE  LimitOK' /\ [RecorderNext]_vars
  <2>1. UNCHANGED limit
    BY <1>8 DEF WithAuthority, EnsureKept, EnsureRefused, MakeKey, MakeCert, MakeCertFails,
         AddTrust, VerifyTrust, TrustFails, MarkTrust, MarkFails, AfterEnsure, NoMarker,
         RemovalRefused, Untrust, UntrustFails, UnlinkMarker, RemoveKey, RemoveCert, AfterRemoval,
         Steps, Fails
  <2>2. UNCHANGED vars \/ AuthorityFails(c) \/ CleanStop(c) \/ AuthorityDone(c) \/ ReadAgain(c)
    BY <1>8 DEF WithAuthority, EnsureKept, EnsureRefused, MakeKey, MakeCert, MakeCertFails,
         AddTrust, VerifyTrust, TrustFails, MarkTrust, MarkFails, AfterEnsure, NoMarker,
         RemovalRefused, Untrust, UntrustFails, UnlinkMarker, RemoveKey, RemoveCert, AfterRemoval,
         ProxyStays, Fails
  <2> QED BY <2>1, <2>2, <1>2 DEF LimitOK, RecorderNext, AuthorityStep, Next, Proceeds
<1>9. ASSUME NEW c \in limit.clients, Elsewhere(c)
      PROVE  LimitOK' /\ [RecorderNext]_vars
  <2>1. UNCHANGED limit /\ (Proceeds(c) \/ WriteAgain(c))
    BY <1>9, <1>2 DEF Elsewhere, Proceeds, trustVars
  <2> QED BY <2>1, <1>2 DEF LimitOK, RecorderNext, AuthorityStep, Next
<1>10. CASE \E c \in limit.clients : (Opens(c) \/ AuthorityCommand(c)) /\ UNCHANGED trustVars
  BY <1>10, <1>2 DEF trustVars, LimitOK, RecorderNext, AuthorityStep, Next
<1>11. CASE \E c \in limit.clients : Interrupt(c) /\ Steps(c, "none") /\ UNCHANGED caVars
  BY <1>11, <1>2 DEF Steps, LimitOK, RecorderNext, Next
<1> QED BY <1>3, <1>4, <1>5, <1>6, <1>7, <1>8, <1>9, <1>10, <1>11 DEF TrustNext

-----------------------------------------------------------------------------
(* Types *)

Shape ==
  /\ TypeOK
  /\ log \in Seq(LogRecord)
  /\ \A c \in Clients : client[c].at \in {"waiting", "asking"} \cup Waits => client[c].pid \in Daemons

ClientRecords == [at : {"idle", "checked", "cleaned", "written", "waiting", "marking", "asking",
                        "installing", "removing", "removing only", "rewriting"} \cup Waits,
                  seen : Marks, pid : 0..MaxDaemons, answer : Answers]

Connections == [at : {"open", "logged", "recorded"}, daemon : Daemons, message : Messages]

LEMMA DaemonIds == MaxDaemons \in Nat /\ Daemons \subseteq 0..MaxDaemons /\ 0 \notin Daemons
<1>1. MaxDaemons \in Nat
  BY BoundsAreNaturals
<1> QED BY <1>1 DEF Daemons

LEMMA Busy ==
  ASSUME TypeOK, NEW h \in Handlers
  PROVE  /\ handler[h].at \in {"idle", "open", "logged", "recorded"}
         /\ handler[h].at = "idle" => handler[h] = NoHandler
         /\ handler[h].at # "idle" => /\ handler[h] \in Connections
                                      /\ handler[h].daemon \in Daemons
                                      /\ handler[h].message \in Messages
<1>1. handler[h] = NoHandler \/ handler[h] \in Connections
  BY DEF TypeOK, Connections
<1> QED BY <1>1 DEF NoHandler, Connections

LEMMA ShapeInit == Init => Shape
<1>1. <<>> \in Seq(LogRecord)
  OBVIOUS
<1>2. Init => client \in [Clients -> ClientRecords] /\ \A c \in Clients : client[c].at = "idle"
  BY BoundsAreNaturals DEF Init, At, ClientRecords, Waits, Marks, Answers
<1>3. Init => state \in States
  BY BoundsAreNaturals DEF Init, States, Marks
<1>4. Init => handler \in [Handlers -> {NoHandler}] /\ forwarded = {} /\ late = {} /\ torn = {}
                /\ alone = TRUE /\ interrupted = FALSE /\ stop = FALSE
  BY DEF Init
<1>5. Init => /\ captures \in [Daemons -> Nat] /\ declared \in [Daemons -> Nat]
              /\ signalled \in [Daemons -> BOOLEAN]
  BY DEF Init
<1>6. Init => TypeOK
  BY <1>2, <1>3, <1>4, <1>5 DEF Init, TypeOK, ClientRecords
<1>7. Init => log \in Seq(LogRecord)
  BY <1>1 DEF Init
<1> QED BY <1>2, <1>6, <1>7 DEF Shape, Waits

LEMMA ShapeConnection ==
  ASSUME Shape, NEW h \in Handlers, Connection(h)
  PROVE  Shape'
<1> USE DEF files, memory, daemonVars, history, bounds
<1>0. /\ handler[h].at # "idle" => /\ handler[h] \in Connections
                                   /\ handler[h].daemon \in Daemons
                                   /\ handler[h].message \in Messages
      /\ captures \in [Daemons -> Nat] /\ log \in Seq(LogRecord)
      /\ forwarded \subseteq [session : Daemons, message : Messages]
      /\ torn \subseteq Daemons
  BY Busy DEF Shape, TypeOK
<1>1. ASSUME NEW d \in Daemons, NEW m \in Messages, Accept(h, d, m) PROVE Shape'
  BY <1>1 DEF Accept, Shape, TypeOK
<1>2. CASE Reject(h)
  BY <1>2 DEF Reject, Close, Shape, TypeOK
<1>3. ASSUME Record(h) \/ RecordFails(h) PROVE Append(log, Entry(h)) \in Seq(LogRecord)
  <2>1. handler[h].at = "open" /\ Parsed(handler[h].message) # Nothing
    BY <1>3 DEF Record, RecordFails
  <2>2. captures[handler[h].daemon] + 1 \in Nat
    BY <2>1, <1>0
  <2>3. Entry(h) \in LogRecord
    BY <2>1, <2>2, <1>0, RecordTypes, Zenon DEF Entry
  <2> QED BY <2>3, <1>0, AppendedRecord, Zenon
<1>4. CASE Record(h)
  <2>1. [handler[h] EXCEPT !.at = "logged"] \in Connections
    BY <1>4, <1>0 DEF Record, Connections
  <2> QED BY <1>4, <1>3, <2>1 DEF Record, Connections, Shape, TypeOK
<1>5. CASE RecordFails(h)
  <2>1. log' \in Seq(LogRecord) /\ torn' \subseteq Daemons
    BY <1>5, <1>3, <1>0 DEF RecordFails
  <2> QED BY <1>5, <2>1 DEF RecordFails, Close, Shape, TypeOK
<1>6. CASE Keep(h)
  <2>1. [handler[h] EXCEPT !.at = "recorded"] \in Connections
    BY <1>6, <1>0 DEF Keep, Connections
  <2>2. captures' \in [Daemons -> Nat]
    BY <1>6, <1>0 DEF Keep
  <2> QED BY <1>6, <2>1, <2>2 DEF Keep, Connections, Shape, TypeOK
<1>7. CASE Forward(h)
  <2>1. forwarded' \subseteq [session : Daemons, message : Messages]
    BY <1>7, <1>0 DEF Forward
  <2> QED BY <1>7, <2>1 DEF Forward, Close, Shape, TypeOK
<1> QED BY <1>1, <1>2, <1>4, <1>5, <1>6, <1>7 DEF Connection

LEMMA ShapeDies ==
  ASSUME Shape, NEW d \in Daemons, Dies(d)
  PROVE  /\ daemon' = [daemon EXCEPT ![d] = "dead"]
         /\ signalled' \in [Daemons -> BOOLEAN]
         /\ captures' \in [Daemons -> Nat] /\ declared' \in [Daemons -> Nat]
         /\ handler' \in [Handlers -> {NoHandler} \cup Connections]
<1>1. \A h \in Handlers : handler[h] \in {NoHandler} \cup Connections
  BY DEF Shape, TypeOK, Connections
<1>2. handler' = [h \in Handlers |-> IF handler[h].daemon = d THEN NoHandler ELSE handler[h]]
  BY DEF Dies
<1>3. handler' \in [Handlers -> {NoHandler} \cup Connections]
  BY <1>1, <1>2
<1> QED BY <1>3 DEF Dies, Phase, Shape, TypeOK

LEMMA ShapeDaemon ==
  ASSUME Shape, NEW d \in Daemons, Main(d) \/ Trouble(d)
  PROVE  Shape'
<1> USE DEF files, memory, daemonVars, history, bounds
<1>0. /\ captures \in [Daemons -> Nat] /\ log \in Seq(LogRecord)
      /\ declared \in [Daemons -> Nat] /\ late \subseteq Daemons /\ torn \subseteq Daemons
      /\ d \in 0..MaxDaemons
  BY DaemonIds DEF Shape, TypeOK
<1>1. CASE Bind(d) \/ InstallHandlers(d) \/ StopServing(d)
  BY <1>1 DEF Bind, InstallHandlers, StopServing, Phase, Shape, TypeOK
<1>2. CASE Announce(d) \/ WriteStopped(d) \/ BindFails(d)
  <2>1. state' \in States
    BY <1>2, <1>0 DEF Announce, WriteStopped, BindFails, States, Marks
  <2> QED BY <1>2, <2>1 DEF Announce, WriteStopped, BindFails, Phase, Shape, TypeOK
<1>3. CASE CountCaptures(d)
  <2>1. declared' \in [Daemons -> Nat] /\ late' \subseteq Daemons
    BY <1>3, <1>0 DEF CountCaptures
  <2> QED BY <1>3, <2>1 DEF CountCaptures, Phase, Shape, TypeOK
<1>4. CASE AppendClosing(d) \/ ClosingFails(d)
  <2>1. SessionRecord(d, declared[d]) \in LogRecord
    BY <1>0 DEF SessionRecord, LogRecord
  <2>2. Append(log, SessionRecord(d, declared[d])) \in Seq(LogRecord)
    BY <2>1, <1>0, AppendedRecord, Zenon
  <2>3. log' \in Seq(LogRecord) /\ torn' \subseteq Daemons
    BY <1>4, <2>2, <1>0 DEF AppendClosing, ClosingFails
  <2> QED BY <1>4, <2>3 DEF AppendClosing, ClosingFails, Phase, Shape, TypeOK
<1>5. CASE Exit(d)
  <2>1. Dies(d)
    BY <1>5 DEF Exit
  <2> QED BY <1>5, <2>1, ShapeDies DEF Exit, Shape, TypeOK, Connections
<1>6. CASE Kill(d)
  <2>1. Dies(d)
    BY <1>6 DEF Kill
  <2> QED BY <1>6, <2>1, ShapeDies DEF Kill, Shape, TypeOK, Connections
<1> QED BY <1>1, <1>2, <1>3, <1>4, <1>5, <1>6 DEF Main, Trouble

\* A command signals a daemon that has been started
LEMMA ShapeSignal ==
  ASSUME Shape, NEW d \in Daemons, Signal(d)
  PROVE  /\ daemon' \in {daemon, [daemon EXCEPT ![d] = "dead"]}
         /\ signalled' \in [Daemons -> BOOLEAN]
         /\ captures' \in [Daemons -> Nat] /\ declared' \in [Daemons -> Nat]
         /\ handler' \in [Handlers -> {NoHandler} \cup Connections]
<1>1. CASE Dies(d)
  BY <1>1, ShapeDies
<1>2. CASE ~Dies(d)
  BY <1>2 DEF Signal, Shape, TypeOK, Connections, Alive
<1> QED BY <1>1, <1>2

\* What commands do to each other, as far as the types tell
LEMMA ShapeClients ==
  ASSUME Shape, NEW c \in Clients, NEW r \in ClientRecords,
         r.at \in {"waiting", "asking"} \cup Waits => r.pid \in Daemons,
         \/ Begin(c, r)
         \/ client' = [client EXCEPT ![c] = r] /\ alone' \in BOOLEAN
  PROVE  /\ client' \in [Clients -> ClientRecords] /\ alone' \in BOOLEAN
         /\ \A k \in Clients : client'[k].at \in {"waiting", "asking"} \cup Waits => client'[k].pid \in Daemons
<1>1. client \in [Clients -> ClientRecords]
  BY DEF Shape, TypeOK, ClientRecords
<1>2. \A k \in Clients : [client[k] EXCEPT !.answer = "none"] \in ClientRecords
  BY <1>1 DEF ClientRecords, Answers
<1>3. CASE Begin(c, r)
  <2>1. client' = [k \in Clients |-> IF k = c THEN r ELSE [client[k] EXCEPT !.answer = "none"]]
    BY <1>3 DEF Begin
  <2>2. client' \in [Clients -> ClientRecords]
    BY <1>2, <2>1
  <2>3. \A k \in Clients : /\ [client[k] EXCEPT !.answer = "none"].at = client[k].at
                           /\ [client[k] EXCEPT !.answer = "none"].pid = client[k].pid
    BY <1>1 DEF ClientRecords
  <2>4. \A k \in Clients : k # c => client'[k].at = client[k].at /\ client'[k].pid = client[k].pid
    BY <2>1, <2>3
  <2>5. client'[c] = r
    BY <2>1
  <2> QED BY <1>3, <2>2, <2>4, <2>5 DEF Begin, Shape, TypeOK
<1>4. CASE client' = [client EXCEPT ![c] = r] /\ alone' \in BOOLEAN
  BY <1>1, <1>4 DEF Shape
<1> QED BY <1>3, <1>4

LEMMA ShapeClient ==
  ASSUME Shape, NEW c \in Clients, Opens(c) \/ Proceeds(c) \/ Interrupt(c) \/ AuthorityStep(c)
  PROVE  Shape'
<1> USE DEF files, memory, daemonVars, history, bounds, commandIdle
<1>1. /\ client \in [Clients -> ClientRecords] /\ client[c] \in ClientRecords
      /\ client[c].at \in {"waiting", "asking"} \cup Waits => client[c].pid \in Daemons
      /\ state \in States /\ alone \in BOOLEAN
  BY DEF Shape, TypeOK, ClientRecords
<1>2. state.pid \in 0..MaxDaemons /\ state.mark \in Marks /\ 0 \in 0..MaxDaemons /\ "absent" \in Marks
      /\ "none" \in Answers /\ "stopped" \in Answers
  BY <1>1, DaemonIds DEF States, Marks, Answers
<1> DEFINE Sound(r) == r \in ClientRecords /\ (r.at \in {"waiting", "asking"} \cup Waits => r.pid \in Daemons)
           Moved(r) == client' = [client EXCEPT ![c] = r] /\ alone' \in BOOLEAN
           ClientsMove == \E r \in ClientRecords : Sound(r) /\ (Begin(c, r) \/ Moved(r))
<1>3. ASSUME ClientsMove
      PROVE  /\ client' \in [Clients -> ClientRecords] /\ alone' \in BOOLEAN
             /\ \A k \in Clients : client'[k].at \in {"waiting", "asking"} \cup Waits => client'[k].pid \in Daemons
  BY <1>3, ShapeClients
<1>4. \A answer \in Answers : Sound([At("idle", 0) EXCEPT !.answer = answer])
  BY <1>2 DEF At, ClientRecords, Waits
<1>5. \A place \in {"checked", "marking", "removing", "installing", "removing only"}, pid \in 0..MaxDaemons :
        Sound(At(place, pid))
  BY <1>2 DEF At, ClientRecords, Waits
<1>6. ASSUME Opens(c) PROVE ClientsMove
  <2>1. Running(state) => Sound(At("asking", state.pid))
    BY <1>2 DEF At, ClientRecords, Waits, Running, Alive
  <2>2. \A r \in {At("checked", 0), At("removing", 0)} : r \in ClientRecords /\ Sound(r)
    BY <1>2, <1>5
  <2>3. CASE StartCommand(c)
    BY <2>3, <2>2 DEF StartCommand
  <2>4. CASE AlreadyRunning(c)
    BY <2>4, <1>4, <1>2 DEF AlreadyRunning
  <2>5. CASE NothingToStop(c)
    BY <2>5, <2>2, <1>4, <1>2 DEF NothingToStop
  <2>6. CASE StopCommand(c)
    BY <2>6, <2>1, <1>5, <1>2 DEF StopCommand
  <2> QED BY <1>6, <2>3, <2>4, <2>5, <2>6 DEF Opens
<1>7. ASSUME NEW answer \in Answers, Returns(c, answer), alone' \in BOOLEAN PROVE ClientsMove
  BY <1>4, <1>7 DEF Returns
<1>8. ASSUME Stopped(c), alone' \in BOOLEAN PROVE ClientsMove
  <2>1. CASE Returns(c, "stopped")
    BY <2>1, <1>7, <1>8, <1>2
  <2>2. CASE client' = [client EXCEPT ![c] = At("removing", 0)]
    BY <2>2, <1>5, <1>8, <1>2
  <2> QED BY <1>8, <2>1, <2>2 DEF Stopped
<1>9. ASSUME NEW place \in {"cleaned", "written"} \cup Waits, Goes(c, place), alone' \in BOOLEAN,
             place \in Waits => client[c].at \in {"asking"} \cup Waits
      PROVE ClientsMove
  <2>1. Sound([client[c] EXCEPT !.at = place])
    BY <1>1, <1>9 DEF ClientRecords, Waits
  <2> QED BY <2>1, <1>9 DEF Goes
<1>10. ASSUME ClientsMove, state' \in States, stop' \in BOOLEAN, interrupted' \in BOOLEAN,
              UNCHANGED <<log, late, torn, forwarded, daemon, signalled, captures, declared, handler>>
       PROVE  Shape'
  BY <1>3, <1>10 DEF Shape, TypeOK, ClientRecords
<1>11. CASE Opens(c)
  BY <1>11, <1>6, <1>10 DEF Opens, StartCommand, AlreadyRunning, NothingToStop, StopCommand, Shape, TypeOK
<1>12. CASE CleanStop(c) \/ WriteStarting(c) \/ WriteStop(c)
  <2>1. ClientsMove
    <3>1. CASE CleanStop(c) \/ WriteStarting(c)
      BY <3>1, <1>9, <1>1 DEF CleanStop, WriteStarting, Waits
    <3>2. CASE WriteStop(c)
      BY <3>2, <1>9, <1>1 DEF WriteStop, Waits
    <3> QED BY <1>12, <3>1, <3>2
  <2>2. state' \in States
    <3>1. state' = state \/ state' = [mark |-> "starting", pid |-> 0]
      BY <1>12 DEF CleanStop, WriteStarting, WriteStop
    <3>2. [mark |-> "starting", pid |-> 0] \in States
      BY <1>2 DEF States, Marks
    <3> QED BY <3>1, <3>2, <1>1
  <2>3. stop' \in BOOLEAN /\ interrupted' \in BOOLEAN
    BY <1>12 DEF CleanStop, WriteStarting, WriteStop, Shape, TypeOK
  <2>4. UNCHANGED <<log, late, torn, forwarded, daemon, signalled, captures, declared, handler>>
    BY <1>12 DEF CleanStop, WriteStarting, WriteStop
  <2> QED BY <2>1, <2>2, <2>3, <2>4, <1>10
<1>13. CASE SpawnFails(c) \/ Ready(c) \/ NotStopped(c) \/ AuthorityFails(c)
  <2>1. ClientsMove
    BY <1>13, <1>7, <1>1, <1>2 DEF SpawnFails, Ready, NotStopped, AuthorityFails
  <2> QED BY <1>13, <2>1, <1>10 DEF SpawnFails, Ready, NotStopped, AuthorityFails, Shape, TypeOK
<1>14. CASE MarkStale(c) \/ StopSeen(c)
  <2>1. ClientsMove
    BY <1>14, <1>8, <1>1 DEF MarkStale, StopSeen
  <2>2. state' \in States
    <3>1. state' = state \/ state' = [mark |-> "stale", pid |-> client[c].pid]
      BY <1>14 DEF MarkStale, StopSeen
    <3>2. client[c].pid \in 0..MaxDaemons
      BY <1>1 DEF ClientRecords
    <3>3. [mark |-> "stale", pid |-> client[c].pid] \in States
      BY <3>2 DEF States, Marks
    <3> QED BY <3>1, <3>3, <1>1
  <2> QED BY <1>14, <2>1, <2>2, <1>10 DEF MarkStale, StopSeen, Shape, TypeOK
<1>15. ASSUME NEW d \in Daemons, Spawn(c, d) PROVE Shape'
  <2>1. Sound([client[c] EXCEPT !.at = "waiting", !.pid = d])
    BY <1>1, DaemonIds DEF ClientRecords
  <2>2. client' = [client EXCEPT ![c] = [client[c] EXCEPT !.at = "waiting", !.pid = d]]
    BY <1>15 DEF Spawn
  <2>3. ClientsMove
    BY <2>1, <2>2, <1>15, <1>1 DEF Spawn
  <2> QED BY <1>15, <2>3, <1>3 DEF Spawn, Phase, Shape, TypeOK, ClientRecords
<1>16. CASE GiveUp(c) \/ Escalate(c)
  <2>1. ClientsMove
    BY <1>16, <1>7, <1>9, <1>1, <1>2 DEF GiveUp, Escalate, Waits
  <2>2. client[c].pid \in Daemons /\ Signal(client[c].pid)
    BY <1>16, <1>1 DEF GiveUp, Escalate, Waits
  <2> QED BY <1>16, <2>1, <2>2, <1>3, ShapeSignal DEF GiveUp, Escalate, Shape, TypeOK, ClientRecords, Connections
<1>17. CASE Interrupt(c)
  <2>1. ClientsMove
    BY <1>17, <1>7, <1>1, <1>2 DEF Interrupt
  <2> QED BY <1>17, <2>1, <1>10 DEF Interrupt, Shape, TypeOK
<1>18. CASE AuthorityCommand(c) \/ AuthorityDone(c)
  <2>1. ClientsMove
    BY <1>18, <1>7, <1>5, <1>1, <1>2 DEF AuthorityCommand, AuthorityDone
  <2> QED BY <1>18, <2>1, <1>10 DEF AuthorityCommand, AuthorityDone, Shape, TypeOK
<1>19. CASE ReadAgain(c)
  <2>1. Sound([At("rewriting", state.pid) EXCEPT !.seen = state.mark])
    BY <1>2 DEF At, ClientRecords, Waits
  <2>2. ClientsMove
    BY <1>19, <2>1, <1>1 DEF ReadAgain
  <2> QED BY <1>19, <2>2, <1>10 DEF ReadAgain, Shape, TypeOK
<1>20. CASE WriteAgain(c)
  <2>1. ClientsMove
    BY <1>20, <1>7, <1>1, <1>2 DEF WriteAgain
  <2>2. state' \in States
    BY <1>20, <1>1 DEF WriteAgain, States, ClientRecords
  <2> QED BY <1>20, <2>1, <2>2, <1>10 DEF WriteAgain, Shape, TypeOK
<1> QED BY <1>11, <1>12, <1>13, <1>14, <1>15, <1>16, <1>17, <1>18, <1>19, <1>20 DEF Proceeds, AuthorityStep

LEMMA ShapeStep ==
  ASSUME Shape, [RecorderNext]_vars
  PROVE  Shape'
<1>1. CASE UNCHANGED vars
  BY <1>1 DEF Shape, TypeOK, vars, files, memory, daemonVars, history, bounds
<1> QED BY <1>1, ShapeConnection, ShapeDaemon, ShapeClient DEF RecorderNext, Next

\* Every variable of the recorder keeps its type: the commands and the daemons, whose
\* state file is read and written by both, only ever name a daemon that was started.
THEOREM RecorderTypes == Spec => []TypeOK
<1>1. Spec => []Shape
  BY ShapeInit, ShapeStep, PTL DEF Spec, RecorderNext
<1>2. Shape => TypeOK
  BY DEF Shape
<1> QED BY <1>1, <1>2, PTL

\* The same with the commands of the authority
THEOREM TrustShape == TrustSpec => [](Shape /\ LimitOK)
<1>1. TrustInit => Shape /\ LimitOK
  BY ShapeInit, LimitsAreWithin DEF TrustInit, LimitOK
<1>2. Shape /\ LimitOK /\ [TrustNext]_allVars => Shape' /\ LimitOK'
  BY ShapeStep, TrustStep
<1> QED BY <1>1, <1>2, PTL DEF TrustSpec

-----------------------------------------------------------------------------
(* The ledger *)

ledger == <<log, daemon, captures, declared, late, torn, handler, forwarded>>

\* A daemon goes on, and the ledger is not touched
DaemonMoves(d) ==
  /\ UNCHANGED <<log, captures, declared, late, torn, handler, forwarded>>
  /\ \E place : /\ Phase(d, place)
                /\ \/ daemon[d] = "unborn" /\ place = "born"
                   \/ daemon[d] = "born" /\ place \in {"bound", "dead"}
                   \/ /\ daemon[d] \in {"bound", "announced", "serving"}
                      /\ place \in {"announced", "serving", "draining"}
                   \/ daemon[d] \in {"closed", "unclosed"} /\ place = "halted"

DaemonEnds(d) ==
  /\ Alive(d)
  /\ Dies(d)
  /\ UNCHANGED <<log, late, torn, forwarded>>

Closes(d) == CountCaptures(d) \/ AppendClosing(d) \/ ClosingFails(d)

LEMMA LedgerStep ==
  ASSUME Shape, [RecorderNext]_vars
  PROVE  \/ UNCHANGED ledger
         \/ \E h \in Handlers : Connection(h)
         \/ \E d \in Daemons : DaemonMoves(d) \/ DaemonEnds(d) \/ Closes(d)
<1> USE DEF files, memory, daemonVars, history, bounds, commandIdle
<1>1. CASE UNCHANGED vars
  BY <1>1 DEF vars, ledger
<1>2. ASSUME NEW d \in Daemons, Main(d) \/ Trouble(d)
      PROVE  DaemonMoves(d) \/ DaemonEnds(d) \/ Closes(d)
  <2>1. CASE Bind(d) \/ Announce(d) \/ InstallHandlers(d) \/ StopServing(d) \/ WriteStopped(d) \/ BindFails(d)
    BY <2>1 DEF Bind, Announce, InstallHandlers, StopServing, WriteStopped, BindFails, DaemonMoves
  <2>2. CASE Exit(d) \/ Kill(d)
    BY <2>2 DEF Exit, Kill, DaemonEnds, Alive
  <2> QED BY <1>2, <2>1, <2>2 DEF Main, Trouble, Closes
<1>3. ASSUME NEW c \in Clients, Opens(c) \/ Proceeds(c) \/ Interrupt(c) \/ AuthorityStep(c)
      PROVE  UNCHANGED ledger \/ \E d \in Daemons : DaemonMoves(d) \/ DaemonEnds(d)
  <2>1. CASE Opens(c) \/ Interrupt(c) \/ AuthorityStep(c)
    BY <2>1 DEF Opens, StartCommand, AlreadyRunning, NothingToStop, StopCommand, Interrupt, AuthorityStep,
         AuthorityCommand, AuthorityDone, ReadAgain, WriteAgain, ledger
  <2>2. CASE CleanStop(c) \/ WriteStarting(c) \/ SpawnFails(c) \/ Ready(c) \/ MarkStale(c) \/ WriteStop(c)
               \/ StopSeen(c) \/ NotStopped(c) \/ AuthorityFails(c)
    BY <2>2 DEF CleanStop, WriteStarting, SpawnFails, Ready, MarkStale, WriteStop, StopSeen, NotStopped,
         AuthorityFails, ledger
  <2>3. ASSUME NEW d \in Daemons, Spawn(c, d) PROVE DaemonMoves(d)
    BY <2>3 DEF Spawn, DaemonMoves
  <2>4. CASE GiveUp(c) \/ Escalate(c)
    <3>1. client[c].pid \in Daemons
      BY <2>4 DEF GiveUp, Escalate, Shape, Waits
    <3> DEFINE d == client[c].pid
    <3>2. Signal(d) /\ UNCHANGED <<log, late, torn, forwarded>>
      BY <2>4 DEF GiveUp, Escalate
    <3>3. CASE daemon[d] \in {"born", "bound", "announced"}
      BY <3>1, <3>2, <3>3 DEF Signal, DaemonEnds, Alive
    <3>4. CASE daemon[d] \notin {"born", "bound", "announced"}
      BY <3>2, <3>4 DEF Signal, ledger
    <3> QED BY <3>1, <3>3, <3>4
  <2> QED BY <1>3, <2>1, <2>2, <2>3, <2>4 DEF Proceeds
<1> QED BY <1>1, <1>2, <1>3 DEF RecorderNext, Next

LoggedOf(d) == \E h \in Handlers : handler[h].at = "logged" /\ handler[h].daemon = d

\* A connection goes with its daemon
HandlersServe ==
  \A h \in Handlers : handler[h].at # "idle" =>
    daemon[handler[h].daemon] \in {"bound", "announced", "serving", "draining", "closing", "closed",
                                  "unclosed", "halted"}

\* proxy.lock
OneLogged ==
  \A h, k \in Handlers :
    handler[h].at = "logged" /\ handler[k].at = "logged" /\ handler[h].daemon = handler[k].daemon => h = k

Fresh ==
  \A d \in Daemons : daemon[d] = "unborn" => captures[d] = 0 /\ Observed(log, d) = 0

\* What proxy.captures counts is what the log holds, but for the request between the two
Counted ==
  \A d \in Daemons \ torn : Alive(d) =>
    Observed(log, d) = captures[d] + (IF LoggedOf(d) THEN 1 ELSE 0)

\* The requests of a session up to one of them
UpTo(l, d, i) == {j \in RequestsOf(l, d) : j <= i}

Numbered ==
  \A d \in Daemons \ torn : \A i \in RequestsOf(log, d) :
    log[i].seq = Cardinality(UpTo(log, d, i))

\* From the count for the closing record on, nothing is recorded
Drained ==
  \A d \in Daemons \ late : daemon[d] \in {"closing", "closed", "unclosed", "halted"} =>
    \A h \in Handlers : handler[h].daemon = d => handler[h].at \notin {"open", "logged"}

ClosingCounts ==
  \A d \in Daemons \ (late \cup torn) :
    /\ daemon[d] = "closing" => declared[d] = Observed(log, d)
    /\ \A s \in SessionRecords(log) : s.session = d => s.requests = Observed(log, d)

ClosedOnly ==
  \A s \in SessionRecords(log) : daemon[s.session] \in {"closed", "unclosed", "halted", "dead"}

Ledger ==
  /\ HandlersServe /\ OneLogged /\ Fresh /\ Counted /\ Numbered /\ Drained
  /\ ClosingCounts /\ ClosedOnly

LEMMA SessionTypes ==
  ASSUME NEW l \in Seq(LogRecord), NEW s \in SessionRecords(l)
  PROVE  s.session \in Daemons /\ s.requests \in Nat
<1>1. s \in LogRecord /\ s.mode = "session"
  BY DEF SessionRecords, ToSet
<1> QED BY <1>1 DEF LogRecord

LEMMA LedgerInit == Init => Ledger
<1> SUFFICES ASSUME Init PROVE Ledger
  OBVIOUS
<1>1. \A d : RequestsOf(log, d) = {} /\ Observed(log, d) = 0
  BY FS_EmptySet DEF Init, RequestsOf, Observed
<1>2. SessionRecords(log) = {}
  BY DEF Init, SessionRecords, ToSet
<1>3. \A h \in Handlers : handler[h].at = "idle"
  BY DEF Init, NoHandler
<1>4. \A d \in Daemons : daemon[d] = "unborn" /\ captures[d] = 0
  BY DEF Init
<1> QED BY <1>1, <1>2, <1>3, <1>4
    DEF Ledger, HandlersServe, OneLogged, Fresh, Counted, Numbered, Drained, ClosingCounts, ClosedOnly, Alive

LEMMA LedgerMoves ==
  ASSUME Shape, Ledger, NEW d \in Daemons, DaemonMoves(d)
  PROVE  Ledger'
<1>1. PICK place : /\ Phase(d, place)
                /\ \/ daemon[d] = "unborn" /\ place = "born"
                   \/ daemon[d] = "born" /\ place \in {"bound", "dead"}
                   \/ /\ daemon[d] \in {"bound", "announced", "serving"}
                      /\ place \in {"announced", "serving", "draining"}
                   \/ daemon[d] \in {"closed", "unclosed"} /\ place = "halted"
  BY DEF DaemonMoves
<1>2. UNCHANGED <<log, captures, declared, late, torn, handler, forwarded>>
  BY DEF DaemonMoves
<1>3. /\ daemon'[d] = place
      /\ \A e \in Daemons \ {d} : daemon'[e] = daemon[e]
  BY <1>1 DEF Phase, Shape, TypeOK
<1>4. \A s \in SessionRecords(log) : s.session \in Daemons
  BY SessionTypes DEF Shape
<1>5. \A h \in Handlers : handler[h].at # "idle" => handler[h].daemon \in Daemons
  BY Busy DEF Shape
<1>6. HandlersServe' /\ OneLogged' /\ Fresh' /\ Numbered'
  BY <1>1, <1>2, <1>3, <1>5 DEF Ledger, HandlersServe, OneLogged, Fresh, Numbered
<1>7. LoggedOf(d) => daemon[d] \notin {"unborn", "born"}
  BY <1>5 DEF LoggedOf, Ledger, HandlersServe
<1>8. Counted'
  <2> SUFFICES ASSUME NEW e \in Daemons \ torn', Alive(e)'
               PROVE  (Observed(log, e) = captures[e] + (IF LoggedOf(e) THEN 1 ELSE 0))'
    BY DEF Counted
  <2>1. LoggedOf(e)' = LoggedOf(e)
    BY <1>2 DEF LoggedOf
  <2>2. CASE Alive(e)
    BY <2>1, <2>2, <1>2 DEF Ledger, Counted
  <2>3. CASE ~Alive(e)
    <3>1. e = d /\ daemon[d] = "unborn"
      BY <2>3, <1>1, <1>3 DEF Alive
    <3> QED BY <3>1, <1>2, <1>7, <2>1 DEF Ledger, Fresh
  <2> QED BY <2>2, <2>3
<1>9. Drained' /\ ClosingCounts' /\ ClosedOnly'
  BY <1>1, <1>2, <1>3, <1>4 DEF Ledger, Drained, ClosingCounts, ClosedOnly
<1> QED BY <1>6, <1>8, <1>9 DEF Ledger

LEMMA LedgerEnds ==
  ASSUME Shape, Ledger, NEW d \in Daemons, DaemonEnds(d)
  PROVE  Ledger'
<1>1. /\ daemon'[d] = "dead"
      /\ \A e \in Daemons \ {d} : daemon'[e] = daemon[e] /\ captures'[e] = captures[e] /\ declared'[e] = declared[e]
      /\ daemon[d] \notin {"unborn", "dead"}
      /\ UNCHANGED <<log, late, torn, forwarded>>
  BY DEF DaemonEnds, Dies, Phase, Shape, TypeOK, Alive
<1>2. /\ \A h \in Handlers : handler'[h] = IF handler[h].daemon = d THEN NoHandler ELSE handler[h]
      /\ NoHandler.at = "idle" /\ NoHandler.daemon \notin Daemons
  BY DaemonIds DEF DaemonEnds, Dies, NoHandler
<1>3. \A h \in Handlers : handler'[h].at # "idle" =>
         handler'[h] = handler[h] /\ handler[h].daemon # d /\ handler[h].daemon \in Daemons
  BY <1>2, Busy DEF Shape
<1>4. \A s \in SessionRecords(log) : s.session \in Daemons
  BY SessionTypes DEF Shape
<1>5. /\ HandlersServe'
      /\ OneLogged'
      /\ Fresh' /\ Numbered'
  <2>1. HandlersServe'
    BY <1>1, <1>3 DEF Ledger, HandlersServe
  <2>2. OneLogged'
    BY <1>3 DEF Ledger, OneLogged
  <2>3. Fresh' /\ Numbered'
    BY <1>1 DEF Ledger, Fresh, Numbered
  <2> QED BY <2>1, <2>2, <2>3
<1>6. \A e \in Daemons \ {d} : LoggedOf(e)' <=> LoggedOf(e)
  BY <1>2 DEF LoggedOf
<1>7. Counted'
  <2> SUFFICES ASSUME NEW e \in Daemons \ torn', Alive(e)'
               PROVE  (Observed(log, e) = captures[e] + (IF LoggedOf(e) THEN 1 ELSE 0))'
    BY DEF Counted
  <2>1. e # d /\ Alive(e)
    BY <1>1 DEF Alive
  <2> QED BY <2>1, <1>1, <1>6 DEF Ledger, Counted
<1>8. Drained'
  BY <1>1, <1>2 DEF Ledger, Drained
<1>9. ClosingCounts' /\ ClosedOnly'
  BY <1>1, <1>4 DEF Ledger, ClosingCounts, ClosedOnly
<1> QED BY <1>5, <1>7, <1>8, <1>9 DEF Ledger

\* A connection that comes or goes without the log
LEMMA LedgerOpenShut ==
  ASSUME Shape, Ledger, NEW h \in Handlers, NEW new,
         UNCHANGED <<log, daemon, captures, declared, late, torn>>,
         handler[h].at # "logged",
         handler' = [handler EXCEPT ![h] = new],
         \/ new = NoHandler
         \/ new.at = "open" /\ new.daemon \in Serving
  PROVE  Ledger'
<1>1. NoHandler.at = "idle" /\ NoHandler.daemon \notin Daemons
  BY DaemonIds DEF NoHandler
<1>2. handler'[h] = new /\ \A k \in Handlers \ {h} : handler'[k] = handler[k]
  BY DEF Shape, TypeOK
<1>3. \A d \in Daemons : LoggedOf(d)' <=> LoggedOf(d)
  BY <1>1, <1>2 DEF LoggedOf
<1>4. HandlersServe' /\ Drained'
  BY <1>1, <1>2 DEF Ledger, HandlersServe, Drained, Serving
<1>5. OneLogged'
  BY <1>1, <1>2 DEF Ledger, OneLogged
<1>6. Fresh' /\ Numbered' /\ ClosingCounts' /\ ClosedOnly'
  BY DEF Ledger, Fresh, Numbered, ClosingCounts, ClosedOnly
<1>7. Counted'
  BY <1>3 DEF Ledger, Counted, Alive
<1> QED BY <1>4, <1>5, <1>6, <1>7 DEF Ledger

\* The requests of a session up to one of them are not changed by a later one
LEMMA NumbersKept ==
  ASSUME NEW l \in Seq(LogRecord), NEW r \in LogRecord, NEW d, NEW i \in RequestsOf(l, d)
  PROVE  /\ i \in RequestsOf(Append(l, r), d)
         /\ Append(l, r)[i] = l[i]
         /\ UpTo(Append(l, r), d, i) = UpTo(l, d, i)
<1>1. i \in 1..Len(l) /\ Len(l) \in Nat
  BY RequestsFinite
<1>2. ~(Len(l) + 1 <= i)
  BY <1>1
<1> QED BY <1>1, <1>2, AppendedRecord DEF UpTo

LEMMA LedgerRecord ==
  ASSUME Shape, Ledger, NEW h \in Handlers, Record(h), NEW d, d = handler[h].daemon, NEW r, r = Entry(h)
  PROVE  Ledger'
<1>1. /\ handler[h].at = "open" /\ Parsed(handler[h].message) # Nothing /\ Unlocked(h)
      /\ log' = Append(log, r)
      /\ UNCHANGED <<daemon, captures, declared, late, torn>>
  BY DEF Record, daemonVars, memory, history
<1>2. /\ d \in Daemons /\ handler[h].message \in Messages /\ log \in Seq(LogRecord)
      /\ captures \in [Daemons -> Nat] /\ captures[d] \in Nat
  BY <1>1, Busy DEF Shape, TypeOK
<1>3. r \in LogRecord /\ r.mode = "request" /\ r.session = d /\ r.seq = captures[d] + 1
  <2>1. r = RequestRecord(Parsed(handler[h].message), d, captures[d] + 1)
    BY DEF Entry
  <2>2. r \in LogRecord
    BY <2>1, <1>1, <1>2, RecordTypes
  <2> QED BY <2>1, <2>2 DEF RequestRecord
<1>4. /\ handler'[h].at = "logged" /\ handler'[h].daemon = d
      /\ \A k \in Handlers \ {h} : handler'[k] = handler[k]
  <2>1. /\ handler'[h] = [handler[h] EXCEPT !.at = "logged"]
        /\ \A k \in Handlers \ {h} : handler'[k] = handler[k]
    BY DEF Record, Shape, TypeOK
  <2>2. handler[h] \in Connections
    BY <1>1, Busy DEF Shape
  <2> QED BY <2>1, <2>2 DEF Connections
<1>5. /\ \A e : RequestsOf(log', e) = RequestsOf(log, e) \cup (IF e = d THEN {Len(log) + 1} ELSE {})
      /\ \A e : Observed(log', e) = Observed(log, e) + (IF e = d THEN 1 ELSE 0)
      /\ SessionRecords(log') = SessionRecords(log)
  <2>1. \A e : RequestsOf(log', e) = RequestsOf(log, e) \cup (IF r.mode = "request" /\ r.session = e THEN {Len(log) + 1} ELSE {})
    BY <1>1, <1>2, <1>3, AppendedRecord
  <2>2. \A e : Observed(log', e) = Observed(log, e) + (IF r.mode = "request" /\ r.session = e THEN 1 ELSE 0)
    BY <1>1, <1>2, <1>3, ObservedAppend
  <2>3. SessionRecords(log') = SessionRecords(log) \cup {}
    BY <1>1, <1>2, <1>3, AppendedRecord
  <2>4. \A e : (r.mode = "request" /\ r.session = e) <=> e = d
    BY <1>3
  <2> QED BY <2>1, <2>2, <2>3, <2>4
<1>6. daemon[d] \in {"bound", "announced", "serving", "draining", "closing", "closed", "unclosed", "halted"}
  BY <1>1 DEF Ledger, HandlersServe
<1>7. ~LoggedOf(d)
  BY <1>1 DEF Unlocked, LoggedOf
<1>8. LoggedOf(d)' /\ \A e \in Daemons \ {d} : LoggedOf(e)' <=> LoggedOf(e)
  BY <1>1, <1>4 DEF LoggedOf
<1>0. /\ \A e \in Daemons : LoggedOf(e)' <=> (e = d \/ LoggedOf(e))
      /\ handler[h].at = "open" /\ handler[h].daemon = d
  BY <1>1, <1>8
<1>19. \A e : \A i \in RequestsOf(log, e) :
         log'[i] = log[i] /\ UpTo(log', e, i) = UpTo(log, e, i)
  <2>1. \A e : \A i \in RequestsOf(log, e) :
          /\ Append(log, r)[i] = log[i]
          /\ UpTo(Append(log, r), e, i) = UpTo(log, e, i)
    <3> SUFFICES ASSUME NEW e, NEW i \in RequestsOf(log, e)
                 PROVE  /\ Append(log, r)[i] = log[i]
                        /\ UpTo(Append(log, r), e, i) = UpTo(log, e, i)
      OBVIOUS
    <3>1. log \in Seq(LogRecord) /\ r \in LogRecord
      BY <1>2, <1>3
    <3> QED BY <3>1, NumbersKept, Zenon
  <2>2. log' = Append(log, r)
    BY <1>1
  <2> QED BY <2>1, <2>2, Zenon
<1>9. HandlersServe'
  BY <1>1, <1>4, <1>6 DEF Ledger, HandlersServe
<1>10. OneLogged'
  BY <1>4, <1>7 DEF Ledger, OneLogged, LoggedOf
<1>11. Fresh'
  BY <1>1, <1>5, <1>6, RequestsFinite, <1>2 DEF Ledger, Fresh
<1>12. d \notin torn => Observed(log, d) = captures[d] /\ Observed(log', d) = captures[d] + 1
  BY <1>2, <1>5, <1>6, <1>7 DEF Ledger, Counted, Alive
<1>13. Counted'
  <2> SUFFICES ASSUME NEW e \in Daemons \ torn', Alive(e)'
               PROVE  (Observed(log, e) = captures[e] + (IF LoggedOf(e) THEN 1 ELSE 0))'
    BY DEF Counted
  <2>1. Alive(e) /\ e \notin torn
    BY <1>1 DEF Alive
  <2>2. CASE e = d
    BY <2>1, <2>2, <1>1, <1>0, <1>12
  <2>3. CASE e # d
    <3>1. Observed(log', e) = Observed(log, e) /\ Observed(log, e) \in Nat
      BY <2>3, <1>5, <1>2, RequestsFinite
    <3> QED BY <2>1, <2>3, <3>1, <1>1, <1>0 DEF Ledger, Counted
  <2> QED BY <2>2, <2>3
<1>14. Numbered'
  <2> SUFFICES ASSUME NEW e \in Daemons \ torn', NEW i \in RequestsOf(log', e)
               PROVE  log'[i].seq = Cardinality(UpTo(log', e, i))
    BY DEF Numbered
  <2>1. CASE i \in RequestsOf(log, e)
    <3>1. log'[i] = log[i] /\ UpTo(log', e, i) = UpTo(log, e, i)
      BY <2>1, <1>19
    <3> QED BY <2>1, <3>1, <1>1 DEF Ledger, Numbered
  <2>2. CASE i \notin RequestsOf(log, e)
    <3>1. e = d /\ i = Len(log) + 1
      BY <2>2, <1>5
    <3>2. \A j \in RequestsOf(log', d) : j <= i
      BY <3>1, <1>2, <1>5, RequestsFinite
    <3>3. UpTo(log', d, i) = RequestsOf(log', d)
      BY <3>2 DEF UpTo
    <3>4. log'[i] = r
      BY <3>1, <1>1, <1>2, <1>3
    <3> QED BY <3>1, <3>3, <3>4, <1>1, <1>3, <1>12 DEF Observed
  <2> QED BY <2>1, <2>2
<1>20. d \notin late => daemon[d] \notin {"closing", "closed", "unclosed", "halted"}
  BY <1>0, <1>2 DEF Ledger, Drained
<1>16. d \notin late => daemon[d] \notin {"closing", "closed", "unclosed", "halted", "dead"}
  BY <1>20, <1>6
<1>15. Drained'
  BY <1>1, <1>4, <1>20 DEF Ledger, Drained
<1>17. ClosedOnly'
  BY <1>1, <1>5 DEF Ledger, ClosedOnly
<1>18. ClosingCounts'
  <2> SUFFICES ASSUME NEW e \in Daemons \ (late' \cup torn')
               PROVE  /\ daemon'[e] = "closing" => declared'[e] = Observed(log', e)
                      /\ \A s \in SessionRecords(log') : s.session = e => s.requests = Observed(log', e)
    BY DEF ClosingCounts
  <2>1. CASE e = d
    BY <2>1, <1>1, <1>5, <1>16 DEF Ledger, ClosedOnly
  <2>2. CASE e # d
    <3>1. Observed(log', e) = Observed(log, e)
      BY <2>2, <1>5, <1>2, RequestsFinite
    <3> QED BY <3>1, <1>1, <1>5 DEF Ledger, ClosingCounts
  <2> QED BY <2>1, <2>2
<1> QED BY <1>9, <1>10, <1>11, <1>13, <1>14, <1>15, <1>17, <1>18 DEF Ledger

LEMMA LedgerKeep ==
  ASSUME Shape, Ledger, NEW h \in Handlers, Keep(h), NEW d, d = handler[h].daemon
  PROVE  Ledger'
<1>1. /\ handler[h].at = "logged" /\ handler[h] \in Connections /\ d \in Daemons
      /\ captures \in [Daemons -> Nat] /\ captures[d] \in Nat
      /\ UNCHANGED <<log, daemon, declared, late, torn>>
  BY Busy DEF Keep, files, history, Shape, TypeOK
<1>2. /\ captures'[d] = captures[d] + 1
      /\ \A e \in Daemons \ {d} : captures'[e] = captures[e]
  BY <1>1 DEF Keep
<1>3. /\ handler'[h] = [handler[h] EXCEPT !.at = "recorded"]
      /\ \A k \in Handlers \ {h} : handler'[k] = handler[k]
  BY DEF Keep, Shape, TypeOK
<1>4. handler'[h].at = "recorded" /\ handler'[h].daemon = d
  BY <1>1, <1>3 DEF Connections
<1>5. LoggedOf(d) /\ \A e \in Daemons : LoggedOf(e)' <=> (LoggedOf(e) /\ e # d)
  <2>1. LoggedOf(d)
    BY <1>1 DEF LoggedOf
  <2>2. ~LoggedOf(d)'
    BY <1>1, <1>3, <1>4 DEF LoggedOf, Ledger, OneLogged
  <2>3. ASSUME NEW e \in Daemons \ {d} PROVE LoggedOf(e)' <=> LoggedOf(e)
    BY <1>1, <1>3, <1>4 DEF LoggedOf
  <2> QED BY <2>1, <2>2, <2>3
<1>6. daemon[d] \in {"bound", "announced", "serving", "draining", "closing", "closed", "unclosed", "halted"}
  BY <1>1 DEF Ledger, HandlersServe
<1>7. HandlersServe'
  BY <1>1, <1>3, <1>4, <1>6 DEF Ledger, HandlersServe
<1>8. OneLogged'
  BY <1>3, <1>4 DEF Ledger, OneLogged
<1>9. Fresh'
  BY <1>1, <1>2, <1>6 DEF Ledger, Fresh
<1>10. Counted'
  <2> SUFFICES ASSUME NEW e \in Daemons \ torn', Alive(e)'
               PROVE  (Observed(log, e) = captures[e] + (IF LoggedOf(e) THEN 1 ELSE 0))'
    BY DEF Counted
  <2>1. Alive(e) /\ e \in Daemons \ torn
    BY <1>1 DEF Alive
  <2>2. Observed(log, e) = captures[e] + (IF LoggedOf(e) THEN 1 ELSE 0)
    BY <2>1 DEF Ledger, Counted
  <2>3. captures'[e] = IF e = d THEN captures[e] + 1 ELSE captures[e]
    BY <1>2
  <2>4. captures[e] \in Nat
    BY <1>1
  <2> QED BY <2>2, <2>3, <2>4, <1>1, <1>5
<1>11. Numbered' /\ ClosingCounts' /\ ClosedOnly'
  BY <1>1 DEF Ledger, Numbered, ClosingCounts, ClosedOnly
<1>12. Drained'
  <2> SUFFICES ASSUME NEW e \in Daemons \ late', daemon'[e] \in {"closing", "closed", "unclosed", "halted"},
                      NEW k \in Handlers, handler'[k].daemon = e
               PROVE  handler'[k].at \notin {"open", "logged"}
    BY DEF Drained
  <2> QED BY <1>1, <1>3, <1>4 DEF Ledger, Drained
<1> QED BY <1>7, <1>8, <1>9, <1>10, <1>11, <1>12 DEF Ledger

\* An append that raises after its line was written is left out of the count for good
LEMMA LedgerTorn ==
  ASSUME Shape, Ledger, NEW d \in Daemons, NEW r \in LogRecord, r.session = d,
         log' = Append(log, r), torn' = torn \cup {d},
         r.mode = "session" => daemon'[d] = "unclosed",
         UNCHANGED <<captures, declared, late>>,
         \/ /\ UNCHANGED daemon
            /\ \E h \in Handlers : /\ handler[h].at = "open"
                                   /\ handler[h].daemon = d
                                   /\ handler' = [handler EXCEPT ![h] = NoHandler]
         \/ daemon[d] = "closing" /\ Phase(d, "unclosed") /\ UNCHANGED handler
  PROVE  Ledger'
<1>1. /\ log \in Seq(LogRecord)
      /\ \A e \in Daemons \ {d} : daemon'[e] = daemon[e]
      /\ daemon'[d] \in {daemon[d], "unclosed"}
  BY DEF Shape, TypeOK, Phase
<1>2. \A e \in Daemons \ {d} :
        /\ RequestsOf(log', e) = RequestsOf(log, e)
        /\ Observed(log', e) = Observed(log, e)
        /\ \A s \in SessionRecords(log') : s.session = e => s \in SessionRecords(log)
  <2> SUFFICES ASSUME NEW e \in Daemons \ {d}
               PROVE  /\ RequestsOf(log', e) = RequestsOf(log, e)
                      /\ Observed(log', e) = Observed(log, e)
                      /\ \A s \in SessionRecords(log') : s.session = e => s \in SessionRecords(log)
    OBVIOUS
  <2>1. RequestsOf(log', e) = RequestsOf(log, e)
    <3>1. RequestsOf(log', e) = RequestsOf(log, e)
                                  \cup (IF r.mode = "request" /\ r.session = e THEN {Len(log) + 1} ELSE {})
      BY <1>1, AppendedRecord
    <3>2. ~(r.mode = "request" /\ r.session = e)
      OBVIOUS
    <3> QED BY <3>1, <3>2
  <2>2. SessionRecords(log') \subseteq SessionRecords(log) \cup {r}
    BY <1>1, AppendedRecord
  <2> QED BY <2>1, <2>2 DEF Observed
<1>3. \A k \in Handlers : handler'[k] = handler[k] \/ (handler'[k].at = "idle" /\ handler[k].at = "open"
                                                     /\ handler'[k].daemon \notin Daemons)
  <2>1. NoHandler.at = "idle" /\ NoHandler.daemon \notin Daemons
    BY DaemonIds DEF NoHandler
  <2>2. CASE UNCHANGED handler
    BY <2>2
  <2>3. ASSUME NEW h \in Handlers, handler[h].at = "open", handler' = [handler EXCEPT ![h] = NoHandler]
        PROVE  \A k \in Handlers : handler'[k] = handler[k] \/ (k = h /\ handler'[k] = NoHandler)
    <3>1. DOMAIN handler = Handlers
      BY DEF Shape, TypeOK
    <3> QED BY <2>3, <3>1
  <2> QED BY <2>1, <2>2, <2>3
<1>4. \A e \in Daemons : LoggedOf(e)' <=> LoggedOf(e)
  BY <1>3 DEF LoggedOf
<1>5. daemon[d] \in {"bound", "announced", "serving", "draining", "closing", "closed", "unclosed", "halted"}
  BY DEF Ledger, HandlersServe
<1>6. HandlersServe'
  BY <1>1, <1>3, Busy DEF Ledger, HandlersServe, Shape
<1>7. OneLogged'
  BY <1>3 DEF Ledger, OneLogged
<1>8. Fresh'
  BY <1>1, <1>2, <1>5 DEF Ledger, Fresh
<1>9. Counted'
  <2> SUFFICES ASSUME NEW e \in Daemons \ torn', Alive(e)'
               PROVE  (Observed(log, e) = captures[e] + (IF LoggedOf(e) THEN 1 ELSE 0))'
    BY DEF Counted
  <2>1. e \in Daemons \ {d} /\ e \notin torn
    OBVIOUS
  <2>2. Alive(e)
    BY <2>1, <1>1 DEF Alive
  <2> QED BY <2>1, <2>2, <1>2, <1>4 DEF Ledger, Counted
<1>10. Numbered'
  <2> SUFFICES ASSUME NEW e \in Daemons \ torn', NEW i \in RequestsOf(log', e)
               PROVE  log'[i].seq = Cardinality(UpTo(log', e, i))
    BY DEF Numbered
  <2>1. e \in Daemons \ {d} /\ e \notin torn /\ i \in RequestsOf(log, e)
    BY <1>2
  <2>2. log'[i] = log[i]
    BY <2>1, <1>1, RequestsFinite
  <2>3. UpTo(log', e, i) = UpTo(log, e, i)
    BY <2>1, <1>2 DEF UpTo
  <2> QED BY <2>1, <2>2, <2>3 DEF Ledger, Numbered
<1>11. Drained'
  <2> SUFFICES ASSUME NEW e \in Daemons \ late', daemon'[e] \in {"closing", "closed", "unclosed", "halted"},
                      NEW k \in Handlers, handler'[k].daemon = e
               PROVE  handler'[k].at \notin {"open", "logged"}
    BY DEF Drained
  <2>1. daemon[e] \in {"closing", "closed", "unclosed", "halted"}
    BY <1>1
  <2> QED BY <2>1, <1>3 DEF Ledger, Drained
<1>12. ClosingCounts'
  BY <1>1, <1>2 DEF Ledger, ClosingCounts
<1>13. ClosedOnly'
  <2> SUFFICES ASSUME NEW s \in SessionRecords(log')
               PROVE  daemon'[s.session] \in {"closed", "unclosed", "halted", "dead"}
    BY DEF ClosedOnly
  <2>1. SessionRecords(log') = SessionRecords(log) \cup (IF r.mode = "session" THEN {r} ELSE {})
    BY <1>1, AppendedRecord
  <2>2. CASE s \in SessionRecords(log)
    <3>1. s.session \in Daemons /\ daemon[s.session] \in {"closed", "unclosed", "halted", "dead"}
      BY <2>2, <1>1, SessionTypes DEF Ledger, ClosedOnly
    <3> QED BY <3>1, <1>1
  <2>3. CASE s \notin SessionRecords(log)
    BY <2>1, <2>3
  <2> QED BY <2>2, <2>3
<1> QED BY <1>6, <1>7, <1>8, <1>9, <1>10, <1>11, <1>12, <1>13 DEF Ledger

\* What a connection does, as the ledger sees it
LEMMA LedgerConnection ==
  ASSUME Shape, Ledger, NEW h \in Handlers, Connection(h)
  PROVE  Ledger'
<1> USE DEF files, memory, daemonVars, history
<1>0. handler[h].at # "idle" => /\ handler[h] \in Connections
                               /\ handler[h].daemon \in Daemons
                               /\ handler[h].message \in Messages
  BY Busy DEF Shape
<1>1. ASSUME NEW d \in Daemons, NEW m \in Messages, Accept(h, d, m) PROVE Ledger'
  <2> DEFINE new == [at |-> "open", daemon |-> d, message |-> m]
  <2>1. new.at = "open" /\ new.daemon \in Serving /\ handler[h].at # "logged"
    BY <1>1 DEF Accept, NoHandler
  <2>2. handler' = [handler EXCEPT ![h] = new] /\ UNCHANGED <<log, daemon, captures, declared, late, torn>>
    BY <1>1 DEF Accept
  <2> HIDE DEF new
  <2> QED BY <2>1, <2>2, LedgerOpenShut
<1>2. ASSUME Close(h), handler[h].at # "logged", UNCHANGED <<log, daemon, captures, declared, late, torn>>
      PROVE  Ledger'
  BY <1>2, LedgerOpenShut DEF Close
<1>3. CASE Reject(h)
  BY <1>3, <1>2 DEF Reject
<1>4. CASE Forward(h)
  BY <1>4, <1>2 DEF Forward
<1>5. CASE Record(h)
  BY <1>5, LedgerRecord
<1>6. CASE Keep(h)
  BY <1>6, LedgerKeep
<1>7. CASE RecordFails(h)
  <2>1. CASE UNCHANGED <<log, torn>>
    BY <1>7, <2>1, <1>2 DEF RecordFails
  <2>2. CASE log' = Append(log, Entry(h)) /\ torn' = torn \cup {handler[h].daemon}
    <3>1. handler[h].at = "open" /\ Parsed(handler[h].message) # Nothing /\ Close(h)
          /\ UNCHANGED <<daemon, captures, declared, late>>
      BY <1>7 DEF RecordFails
    <3>2. /\ handler[h].daemon \in Daemons /\ handler[h].message \in Messages
          /\ captures[handler[h].daemon] + 1 \in Nat
      <4>1. handler[h].daemon \in Daemons /\ handler[h].message \in Messages
        BY <3>1, <1>0
      <4>2. captures \in [Daemons -> Nat]
        BY DEF Shape, TypeOK
      <4> QED BY <4>1, <4>2
    <3>3. /\ Entry(h) \in LogRecord
          /\ Entry(h).session = handler[h].daemon /\ Entry(h).mode = "request"
      BY <3>1, <3>2, RecordTypes DEF Entry, RequestRecord
    <3>4. handler' = [handler EXCEPT ![h] = NoHandler]
      BY <3>1 DEF Close
    <3> QED BY <2>2, <3>1, <3>2, <3>3, <3>4, LedgerTorn
  <2> QED BY <1>7, <2>1, <2>2 DEF RecordFails
<1> QED BY <1>1, <1>3, <1>4, <1>5, <1>6, <1>7 DEF Connection

LEMMA LedgerCloses ==
  ASSUME Shape, Ledger, NEW d \in Daemons, Closes(d)
  PROVE  Ledger'
<1> USE DEF files, memory, daemonVars, history
<1>0. /\ log \in Seq(LogRecord) /\ declared[d] \in Nat /\ captures[d] \in Nat
      /\ DOMAIN daemon = Daemons /\ DOMAIN declared = Daemons
      /\ \A s \in SessionRecords(log) : s.session \in Daemons
  BY SessionTypes DEF Shape, TypeOK
<1>1. ASSUME NEW place, Phase(d, place), UNCHANGED <<captures, handler>>, torn \subseteq torn',
             daemon[d] \in {"draining", "closing"}, place \in {"closing", "closed", "unclosed"},
             UNCHANGED <<log, torn>> \/ (log' = Append(log, SessionRecord(d, declared[d])))
      PROVE  /\ daemon'[d] = place /\ \A e \in Daemons \ {d} : daemon'[e] = daemon[e]
             /\ \A e \in Daemons : RequestsOf(log', e) = RequestsOf(log, e) /\ Observed(log', e) = Observed(log, e)
             /\ \A e \in Daemons : \A i \in RequestsOf(log, e) : log'[i] = log[i]
             /\ HandlersServe' /\ OneLogged' /\ Fresh' /\ Counted' /\ Numbered'
  <2>1. daemon'[d] = place /\ \A e \in Daemons \ {d} : daemon'[e] = daemon[e]
    BY <1>0, <1>1 DEF Phase
  <2>2. ASSUME log' = Append(log, SessionRecord(d, declared[d]))
        PROVE  \A e \in Daemons : /\ RequestsOf(log', e) = RequestsOf(log, e)
                                  /\ Observed(log', e) = Observed(log, e)
                                  /\ \A i \in RequestsOf(log, e) : log'[i] = log[i]
    <3>1. SessionRecord(d, declared[d]) \in LogRecord /\ SessionRecord(d, declared[d]).mode # "request"
      BY <1>0 DEF SessionRecord, LogRecord
    <3>2. ASSUME NEW e \in Daemons
          PROVE  /\ RequestsOf(log', e) = RequestsOf(log, e)
                 /\ Observed(log', e) = Observed(log, e)
                 /\ \A i \in RequestsOf(log, e) : log'[i] = log[i]
      <4> DEFINE r == SessionRecord(d, declared[d])
      <4>1. r \in LogRecord /\ log' = Append(log, r) /\ ~(r.mode = "request" /\ r.session = e)
        BY <2>2, <3>1
      <4> HIDE DEF r
      <4>2. RequestsOf(log', e) = RequestsOf(log, e)
                                     \cup (IF r.mode = "request" /\ r.session = e THEN {Len(log) + 1} ELSE {})
        BY <4>1, <1>0, AppendedRecord
      <4>3. RequestsOf(log', e) = RequestsOf(log, e)
        BY <4>1, <4>2
      <4>4. \A i \in RequestsOf(log, e) : log'[i] = log[i]
        BY <4>1, <1>0, NumbersKept
      <4>5. Observed(log', e) = Observed(log, e)
        BY <4>3 DEF Observed
      <4> QED BY <4>3, <4>4, <4>5
    <3> QED BY <3>2
  <2>3. \A e \in Daemons : /\ RequestsOf(log', e) = RequestsOf(log, e)
                           /\ Observed(log', e) = Observed(log, e)
                           /\ \A i \in RequestsOf(log, e) : log'[i] = log[i]
    BY <2>2, <1>1
  <2>4. HandlersServe'
    BY <2>1, <1>1, Busy DEF Ledger, HandlersServe, Shape
  <2>5. OneLogged'
    BY <1>1 DEF Ledger, OneLogged
  <2>6. Fresh'
    BY <1>1, <2>1, <2>3 DEF Ledger, Fresh
  <2>7. Counted'
    <3> SUFFICES ASSUME NEW e \in Daemons \ torn', Alive(e)'
                 PROVE  (Observed(log, e) = captures[e] + (IF LoggedOf(e) THEN 1 ELSE 0))'
      BY DEF Counted
    <3>1. e \in Daemons \ torn /\ Alive(e)
      BY <1>1, <2>1 DEF Alive
    <3>2. LoggedOf(e)' <=> LoggedOf(e)
      BY <1>1 DEF LoggedOf
    <3> QED BY <3>1, <3>2, <2>3, <1>1 DEF Ledger, Counted
  <2>8. Numbered'
    <3> SUFFICES ASSUME NEW e \in Daemons \ torn', NEW i \in RequestsOf(log', e)
                 PROVE  log'[i].seq = Cardinality(UpTo(log', e, i))
      BY DEF Numbered
    <3>1. UpTo(log', e, i) = UpTo(log, e, i)
      BY <2>3 DEF UpTo
    <3> QED BY <3>1, <2>3, <1>1 DEF Ledger, Numbered
  <2> QED BY <2>1, <2>3, <2>4, <2>5, <2>6, <2>7, <2>8
<1>2. CASE CountCaptures(d)
  <2>1. /\ daemon[d] = "draining" /\ Phase(d, "closing") /\ UNCHANGED <<log, torn, captures, handler>>
        /\ declared' = [declared EXCEPT ![d] = captures[d]]
        /\ late' = IF \E h \in Handlers : handler[h].daemon = d /\ handler[h].at \in {"open", "logged"}
                   THEN late \cup {d} ELSE late
    BY <1>2 DEF CountCaptures
  <2>2. /\ daemon'[d] = "closing" /\ \A e \in Daemons \ {d} : daemon'[e] = daemon[e]
        /\ HandlersServe' /\ OneLogged' /\ Fresh' /\ Counted' /\ Numbered'
    BY <2>1, <1>1
  <2>3. late \subseteq late'
    BY <2>1
  <2>4. Drained'
    BY <2>1, <2>2, <2>3 DEF Ledger, Drained
  <2>5. ASSUME d \notin late', d \notin torn PROVE declared'[d] = Observed(log, d)
    <3>1. ~LoggedOf(d) /\ Alive(d)
      BY <2>1, <2>5 DEF LoggedOf, Alive
    <3> QED BY <3>1, <2>1, <2>5, <1>0 DEF Ledger, Counted
  <2>6. ClosingCounts'
    <3>1. \A e \in Daemons \ {d} : declared'[e] = declared[e]
      BY <2>1, <1>0
    <3> QED BY <2>1, <2>2, <2>3, <2>5, <3>1 DEF Ledger, ClosingCounts
  <2>7. ClosedOnly'
    BY <2>1, <2>2, <1>0 DEF Ledger, ClosedOnly
  <2> QED BY <2>2, <2>4, <2>6, <2>7 DEF Ledger
<1>3. CASE AppendClosing(d)
  <2>1. /\ daemon[d] = "closing" /\ Phase(d, "closed") /\ UNCHANGED <<torn, captures, declared, late, handler>>
        /\ log' = Append(log, SessionRecord(d, declared[d]))
    BY <1>3 DEF AppendClosing
  <2>2. /\ daemon'[d] = "closed" /\ \A e \in Daemons \ {d} : daemon'[e] = daemon[e]
        /\ \A e \in Daemons : Observed(log', e) = Observed(log, e)
        /\ HandlersServe' /\ OneLogged' /\ Fresh' /\ Counted' /\ Numbered'
    BY <2>1, <1>1
  <2>3. \A s \in SessionRecords(log') : s \in SessionRecords(log) \/ s = SessionRecord(d, declared[d])
    <3>1. SessionRecord(d, declared[d]) \in LogRecord
      BY <1>0 DEF SessionRecord, LogRecord
    <3> QED BY <2>1, <3>1, <1>0, AppendedRecord
  <2>4. SessionRecord(d, declared[d]).session = d /\ SessionRecord(d, declared[d]).requests = declared[d]
    BY DEF SessionRecord
  <2>5. Drained'
    BY <2>1, <2>2 DEF Ledger, Drained
  <2>6. ClosingCounts'
    BY <2>1, <2>2, <2>3, <2>4 DEF Ledger, ClosingCounts
  <2>7. ClosedOnly'
    BY <2>1, <2>2, <2>3, <2>4, <1>0 DEF Ledger, ClosedOnly
  <2> QED BY <2>2, <2>5, <2>6, <2>7 DEF Ledger
<1>4. CASE ClosingFails(d)
  <2>1. /\ daemon[d] = "closing" /\ Phase(d, "unclosed") /\ UNCHANGED <<captures, declared, late, handler>>
        /\ \/ UNCHANGED <<log, torn>>
           \/ log' = Append(log, SessionRecord(d, declared[d])) /\ torn' = torn \cup {d}
    BY <1>4 DEF ClosingFails
  <2>2. CASE UNCHANGED <<log, torn>>
    <3>1. /\ daemon'[d] = "unclosed" /\ \A e \in Daemons \ {d} : daemon'[e] = daemon[e]
          /\ HandlersServe' /\ OneLogged' /\ Fresh' /\ Counted' /\ Numbered'
      BY <2>1, <2>2, <1>1
    <3> QED BY <2>1, <2>2, <3>1, <1>0 DEF Ledger, Drained, ClosingCounts, ClosedOnly
  <2>3. CASE log' = Append(log, SessionRecord(d, declared[d])) /\ torn' = torn \cup {d}
    <3>1. SessionRecord(d, declared[d]) \in LogRecord /\ SessionRecord(d, declared[d]).session = d
      BY <1>0 DEF SessionRecord, LogRecord
    <3>2. daemon'[d] = "unclosed"
      BY <2>1, <1>0 DEF Phase
    <3> QED BY <2>1, <2>3, <3>1, <3>2, LedgerTorn
  <2> QED BY <2>1, <2>2, <2>3
<1> QED BY <1>2, <1>3, <1>4 DEF Closes

LEMMA LedgerInvariant ==
  ASSUME Shape, Ledger, [RecorderNext]_vars
  PROVE  Ledger'
<1>1. CASE UNCHANGED ledger
  BY <1>1 DEF ledger, Ledger, HandlersServe, OneLogged, Fresh, Counted, Numbered, Drained, ClosingCounts,
       ClosedOnly, Alive, LoggedOf
<1> QED BY <1>1, LedgerStep, LedgerMoves, LedgerEnds, LedgerConnection, LedgerCloses

LEMMA LedgerImplies == Shape /\ Ledger => LedgerIsExact
<1> SUFFICES ASSUME Shape, Ledger, NEW d \in Daemons \ torn
             PROVE  /\ \A i \in RequestsOf(log, d) : log[i].seq = Cardinality({j \in RequestsOf(log, d) : j <= i})
                    /\ d \notin late => \A s \in SessionRecords(log) : s.session = d => s.requests = Observed(log, d)
  BY DEF LedgerIsExact
<1> QED BY DEF Ledger, Numbered, ClosingCounts, UpTo

\* However daemons, connections and commands interleave, die or fail, the requests of a
\* session are numbered in the order of the log, and the closing record counts them all,
\* but for a session one of whose appends raised after its line was written, or which
\* counted while a connection was open (proxy.lock, and the order of run_daemon's end).
THEOREM LedgerIsAlwaysExact == Spec => []LedgerIsExact
<1>1. Init => Shape /\ Ledger
  BY ShapeInit, LedgerInit
<1>2. Shape /\ Ledger /\ [Next]_vars => Shape' /\ Ledger'
  BY ShapeStep, LedgerInvariant DEF RecorderNext
<1> QED BY <1>1, <1>2, LedgerImplies, PTL DEF Spec

-----------------------------------------------------------------------------
(* What the gate accepts *)

\* A request is in the log as it was parsed
Handed(l, d, m) ==
  /\ Parsed(m) # Nothing
  /\ \E i \in RequestsOf(l, d) : l[i].host = Parsed(m).host /\ l[i].class = ClassifyRequest(Parsed(m))

\* Recorded before it is sent
Witnessed ==
  /\ \A h \in Handlers : handler[h].at \in {"logged", "recorded"} =>
       Handed(log, handler[h].daemon, handler[h].message)
  /\ \A f \in forwarded : Handed(log, f.session, f.message)

LEMMA HandedKept ==
  ASSUME NEW l \in Seq(LogRecord), NEW r \in LogRecord, NEW d, NEW m, Handed(l, d, m)
  PROVE  Handed(Append(l, r), d, m)
BY NumbersKept DEF Handed

LEMMA LogGrows ==
  ASSUME Shape, [RecorderNext]_vars
  PROVE  log' = log \/ \E r \in LogRecord : log' = Append(log, r)
<1> USE DEF files, history
<1>0. /\ captures \in [Daemons -> Nat] /\ declared \in [Daemons -> Nat]
      /\ \A d \in Daemons : SessionRecord(d, declared[d]) \in LogRecord
  BY DEF Shape, TypeOK, SessionRecord, LogRecord
<1>1. ASSUME NEW h \in Handlers, handler[h].at = "open", Parsed(handler[h].message) # Nothing
      PROVE  Entry(h) \in LogRecord
  <2>1. handler[h].daemon \in Daemons /\ handler[h].message \in Messages
    BY <1>1, Busy DEF Shape
  <2>2. captures[handler[h].daemon] + 1 \in Nat
    BY <2>1, <1>0
  <2> QED BY <1>1, <2>1, <2>2, RecordTypes DEF Entry
<1>2. ASSUME NEW h \in Handlers, Connection(h)
      PROVE  log' = log \/ \E r \in LogRecord : log' = Append(log, r)
  BY <1>1, <1>2 DEF Connection, Accept, Reject, Record, RecordFails, Keep, Forward
<1>3. ASSUME NEW d \in Daemons, DaemonMoves(d) \/ DaemonEnds(d) \/ Closes(d)
      PROVE  log' = log \/ \E r \in LogRecord : log' = Append(log, r)
  BY <1>0, <1>3 DEF DaemonMoves, DaemonEnds, Closes, CountCaptures, AppendClosing, ClosingFails
<1> QED BY <1>2, <1>3, LedgerStep DEF ledger

LEMMA WitnessedStep ==
  ASSUME Shape, Witnessed, [RecorderNext]_vars
  PROVE  Witnessed'
<1> USE DEF files, history
<1>1. \A d, m : Handed(log, d, m) => Handed(log', d, m)
  BY LogGrows, HandedKept DEF Shape
<1>2. ASSUME UNCHANGED forwarded,
             \A h \in Handlers : handler'[h].at \in {"logged", "recorded"} =>
               handler'[h] = handler[h] \/ Handed(log', handler'[h].daemon, handler'[h].message)
      PROVE  Witnessed'
  BY <1>1, <1>2 DEF Witnessed
<1>3. CASE UNCHANGED ledger
  BY <1>2, <1>3 DEF ledger
<1>4. ASSUME NEW d \in Daemons, DaemonMoves(d) \/ DaemonEnds(d) \/ Closes(d)
      PROVE  Witnessed'
  <2>1. UNCHANGED forwarded
    BY <1>4 DEF DaemonMoves, DaemonEnds, Closes, CountCaptures, AppendClosing, ClosingFails
  <2>2. \A h \in Handlers : handler'[h] = handler[h] \/ handler'[h].at = "idle"
    BY <1>4 DEF DaemonMoves, DaemonEnds, Dies, Closes, CountCaptures, AppendClosing, ClosingFails, NoHandler
  <2> QED BY <1>2, <2>1, <2>2
<1>5. ASSUME NEW h \in Handlers, Connection(h)
      PROVE  Witnessed'
  <2>0. /\ handler[h].at # "idle" => /\ handler[h] \in Connections
                                   /\ handler[h].daemon \in Daemons
                                   /\ handler[h].message \in Messages
        /\ DOMAIN handler = Handlers /\ captures \in [Daemons -> Nat]
    BY Busy DEF Shape, TypeOK
  <2>1. ASSUME NEW d \in Daemons, NEW m \in Messages, Accept(h, d, m) PROVE Witnessed'
    BY <2>1, <2>0, <1>2 DEF Accept
  <2>2. ASSUME Close(h), UNCHANGED forwarded PROVE Witnessed'
    BY <2>2, <2>0, <1>2 DEF Close, NoHandler
  <2>3. CASE Reject(h) \/ RecordFails(h)
    BY <2>3, <2>2 DEF Reject, RecordFails
  <2>4. CASE Record(h)
    <3>1. /\ handler[h].at = "open" /\ Parsed(handler[h].message) # Nothing
          /\ log' = Append(log, Entry(h)) /\ UNCHANGED forwarded
          /\ handler' = [handler EXCEPT ![h].at = "logged"]
      BY <2>4 DEF Record
    <3> DEFINE n == captures[handler[h].daemon] + 1
    <3>2. n \in Nat /\ Entry(h) = RequestRecord(Parsed(handler[h].message), handler[h].daemon, n)
      BY <3>1, <2>0 DEF Entry
    <3> HIDE DEF n
    <3>3. /\ Entry(h) \in LogRecord
          /\ Entry(h).mode = "request" /\ Entry(h).session = handler[h].daemon
          /\ Entry(h).host = Parsed(handler[h].message).host
          /\ Entry(h).class = ClassifyRequest(Parsed(handler[h].message))
      BY <3>1, <3>2, <2>0, RecordTypes DEF RequestRecord
    <3>4. Len(log) + 1 \in RequestsOf(log', handler[h].daemon) /\ log'[Len(log) + 1] = Entry(h)
      BY <3>1, <3>3, AppendedRecord DEF Shape
    <3>5. Handed(log', handler[h].daemon, handler[h].message)
      BY <3>1, <3>3, <3>4 DEF Handed
    <3>6. handler'[h].daemon = handler[h].daemon /\ handler'[h].message = handler[h].message
      BY <3>1, <2>0 DEF Connections
    <3>7. \A k \in Handlers : k = h \/ handler'[k] = handler[k]
      BY <3>1, <2>0
    <3> QED BY <3>1, <3>5, <3>6, <3>7, <1>2
  <2>5. CASE Keep(h)
    <3>1. /\ handler[h].at = "logged" /\ handler' = [handler EXCEPT ![h].at = "recorded"]
          /\ UNCHANGED forwarded
      BY <2>5 DEF Keep
    <3>2. handler'[h].daemon = handler[h].daemon /\ handler'[h].message = handler[h].message
      BY <3>1, <2>0 DEF Connections
    <3>3. \A k \in Handlers : k = h \/ handler'[k] = handler[k]
      BY <3>1, <2>0
    <3> QED BY <3>1, <3>2, <3>3, <1>1, <1>2 DEF Witnessed
  <2>6. CASE Forward(h)
    <3>1. /\ handler[h].at = "recorded" /\ handler' = [handler EXCEPT ![h] = NoHandler]
          /\ \A f \in forwarded' : f \in forwarded
                                   \/ (f.session = handler[h].daemon /\ f.message = handler[h].message)
      BY <2>6 DEF Forward, Close
    <3>2. \A k \in Handlers : handler'[k] = handler[k] \/ handler'[k].at = "idle"
      BY <3>1, <2>0 DEF NoHandler
    <3> QED BY <3>1, <3>2, <1>1 DEF Witnessed
  <2> QED BY <1>5, <2>1, <2>3, <2>4, <2>5, <2>6 DEF Connection
<1> QED BY <1>3, <1>4, <1>5, LedgerStep

LEMMA GateMeans ==
  ASSUME NEW chain, EvaluateTraffic(Block, log, chain).ok
  PROVE  /\ SessionRecords(log) # {} /\ CountMismatches(log) = {} /\ OrphanSessions(log) = {}
         /\ Violations(log, Allowed) = {}
<1>1. TrafficContract(Block).kind = "contract"
  BY BlockIsContract
<1>2. BuildTrafficReport(Block, log, chain) = "OK"
  BY <1>1 DEF EvaluateTraffic
<1>3. AuditRecords(log, Allowed) = "OK"
  BY <1>1, <1>2 DEF BuildTrafficReport, Allowed
<1> QED BY <1>3 DEF AuditRecords

LEMMA WitnessedImplies == Shape /\ Witnessed => OkIsComplete
<1> SUFFICES ASSUME Shape, Witnessed, NEW chain \in Chains, EvaluateTraffic(Block, log, chain).ok,
                    NEW f \in forwarded
             PROVE  /\ f.message.authority.host \in Allowed
                    /\ f.message.http.framed => f.message.http.ends
                    /\ "transcript" \notin f.message.http.path
                    /\ ~(f.message.http.framed /\ "transcript" \in f.message.http.body
                                               /\ "upload" \in f.message.http.path)
                    /\ \E i \in RequestsOf(log, f.session) : log[i].host = f.message.authority.host
                    /\ \E s \in SessionRecords(log) :
                         s.session = f.session /\ s.requests = Observed(log, f.session)
  BY DEF OkIsComplete
<1> DEFINE p == Parsed(f.message)
<1>1. PICK i \in RequestsOf(log, f.session) : log[i].host = p.host /\ log[i].class = ClassifyRequest(p)
  BY DEF Witnessed, Handed
<1>2. /\ p # Nothing
      /\ p.host = f.message.authority.host
      /\ p.path = f.message.http.path
      /\ p.body = IF f.message.http.framed THEN f.message.http.body ELSE {}
      /\ f.message.http.framed => f.message.http.ends
  BY ParsedRequest DEF Witnessed, Handed
<1>3. log[i] \in RequestRecords(log) /\ log[i].session = f.session
  BY <1>1 DEF RequestsOf, RequestRecords, ToSet
<1>4. log[i].host \in Allowed /\ log[i].class # "transcript upload"
  BY <1>3, GateMeans DEF Violations
<1>5. ~TranscriptUpload(p)
  BY <1>1, <1>4 DEF ClassifyRequest
<1>6. "transcript" \notin p.path /\ ~("transcript" \in p.body /\ "upload" \in p.path)
  BY <1>5 DEF TranscriptUpload
<1>7. \E s \in SessionRecords(log) : s.session = f.session
  BY <1>3, GateMeans DEF OrphanSessions
<1>8. \A s \in SessionRecords(log) : s.requests = Observed(log, s.session)
  BY GateMeans DEF CountMismatches
<1> HIDE DEF p
<1>9. ~(f.message.http.framed /\ "transcript" \in f.message.http.body /\ "upload" \in f.message.http.path)
  BY <1>2, <1>6
<1> QED BY <1>1, <1>2, <1>4, <1>6, <1>7, <1>8, <1>9

\* When the completion gate accepts the traffic of a plan, everything that left through
\* the proxy is in the log, came in whole, went to an allowed host, was no upload of a
\* transcript and belongs to a session that was closed with its count: serve_tunnel
\* records before it forwards, and audit_records wants every session closed.
THEOREM AcceptedTrafficIsComplete == Spec => []OkIsComplete
<1>1. Init => Shape /\ Witnessed
  BY ShapeInit DEF Init, Witnessed, NoHandler
<1>2. Shape /\ Witnessed /\ [Next]_vars => Shape' /\ Witnessed'
  BY ShapeStep, WitnessedStep DEF RecorderNext
<1> QED BY <1>1, <1>2, WitnessedImplies, PTL DEF Spec

-----------------------------------------------------------------------------
(* One recorder *)

Starting  == {"born", "bound"}
Announced == {"announced", "serving", "draining", "closing", "closed", "unclosed"}

\* Places of a command at which no daemon is there
Clear == {"checked", "cleaned", "written", "marking", "removing", "rewriting"}

Single == \A c, k \in Clients : client[c].at # "idle" /\ client[k].at # "idle" => c = k

SaidStopped == \A c, k \in Clients : client[c].answer = "stopped" => client[k].at = "idle"

\* The state file names the daemon that serves ...
Named == \A d \in Daemons : daemon[d] \in Announced => state = [mark |-> "running", pid |-> d]

\* ... and a command waits for one that is about to
Awaited ==
  \A d \in Daemons : daemon[d] \in Starting =>
    /\ state = [mark |-> "starting", pid |-> 0]
    /\ \E c \in Clients : client[c].at = "waiting" /\ client[c].pid = d

NoDaemon == \A d \in Daemons : daemon[d] \notin Starting \cup Announced

Cleared == (\E c \in Clients : client[c].at \in Clear \/ client[c].answer = "stopped") => NoDaemon

Prepared ==
  \A c \in Clients : client[c].at = "written" => state = [mark |-> "starting", pid |-> 0]

Solo == alone /\ ~interrupted => Single /\ SaidStopped /\ Named /\ Awaited /\ Cleared /\ Prepared

LEMMA SoloInit == Init => Solo
<1> SUFFICES ASSUME Init PROVE Solo
  OBVIOUS
<1>1. \A c \in Clients : client[c].at = "idle" /\ client[c].answer = "none"
  BY DEF Init, At
<1>2. \A d \in Daemons : daemon[d] = "unborn"
  BY DEF Init
<1> QED BY <1>1, <1>2 DEF Solo, Single, SaidStopped, Named, Awaited, Cleared, Prepared, Starting, Announced, NoDaemon, Clear

\* Of the daemons that start or serve there is at most one
LEMMA OneActive ==
  ASSUME Shape, Single, Named, Awaited, NEW d \in Daemons, NEW e \in Daemons,
         daemon[d] \in Starting \cup Announced, daemon[e] \in Starting \cup Announced
  PROVE  d = e
<1>1. CASE daemon[d] \in Announced /\ daemon[e] \in Announced
  <2>1. state.pid = d /\ state.pid = e
    BY <1>1 DEF Named
  <2> QED BY <2>1
<1>2. CASE daemon[d] \in Starting /\ daemon[e] \in Starting
  BY <1>2 DEF Awaited, Single
<1>3. CASE \E f, g \in Daemons : daemon[f] \in Starting /\ daemon[g] \in Announced
  <2>1. state.mark = "starting" /\ state.mark = "running"
    BY <1>3 DEF Awaited, Named
  <2> QED BY <2>1
<1> QED BY <1>1, <1>2, <1>3

LEMMA SoloDaemon ==
  ASSUME Shape, Solo, NEW d \in Daemons, Main(d) \/ Trouble(d)
  PROVE  Solo'
<1> USE DEF files, memory, daemonVars, history, bounds
<1>0. UNCHANGED <<client, alone, interrupted>>
  BY DEF Main, Trouble, Bind, Announce, InstallHandlers, StopServing, CountCaptures, AppendClosing, WriteStopped,
     Exit, BindFails, ClosingFails, Kill
<1> SUFFICES ASSUME alone, ~interrupted, Single, SaidStopped, Named, Awaited, Cleared, Prepared
             PROVE  Single' /\ SaidStopped' /\ Named' /\ Awaited' /\ Cleared' /\ Prepared'
  BY <1>0 DEF Solo
<1>1. Single' /\ SaidStopped'
  BY <1>0 DEF Single, SaidStopped
<1>2. \A e \in Daemons : daemon[e] \in Starting \cup Announced /\ daemon[d] \in Starting \cup Announced => e = d
  BY OneActive
<1>3. \A place : Phase(d, place) => daemon'[d] = place /\ \A e \in Daemons \ {d} : daemon'[e] = daemon[e]
  BY DEF Phase, Shape, TypeOK
<1>9. Prepared'
  <2> SUFFICES ASSUME NEW c \in Clients, client[c].at = "written"
               PROVE  UNCHANGED state
    BY <1>0 DEF Prepared
  <2>1. daemon[d] \notin Starting \cup Announced
    BY DEF Cleared, Clear, NoDaemon
  <2> QED BY <2>1 DEF Main, Trouble, Bind, Announce, InstallHandlers, StopServing, CountCaptures, AppendClosing,
        WriteStopped, Exit, BindFails, ClosingFails, Kill, Starting, Announced
<1>4. CASE Bind(d)
  BY <1>0, <1>1, <1>9, <1>3, <1>4 DEF Bind, Named, Awaited, Cleared, NoDaemon, Starting, Announced
<1>5. CASE Announce(d)
  BY <1>0, <1>1, <1>9, <1>2, <1>3, <1>5 DEF Announce, Named, Awaited, Cleared, NoDaemon, Starting, Announced
<1>6. CASE InstallHandlers(d) \/ StopServing(d) \/ CountCaptures(d) \/ AppendClosing(d) \/ ClosingFails(d)
  <2>1. /\ daemon[d] \in Announced /\ daemon'[d] \in Announced /\ UNCHANGED state
        /\ \A e \in Daemons \ {d} : daemon'[e] = daemon[e]
    BY <1>3, <1>6 DEF InstallHandlers, StopServing, CountCaptures, AppendClosing, ClosingFails, Announced
  <2>2. Starting \cap Announced = {}
    BY DEF Starting, Announced
  <2>3. Named'
    BY <2>1 DEF Named
  <2>4. Awaited'
    BY <1>0, <2>1, <2>2 DEF Awaited
  <2>5. Cleared'
    BY <1>0, <2>1 DEF Cleared, NoDaemon
  <2> QED BY <1>1, <1>9, <2>3, <2>4, <2>5
<1>7. CASE WriteStopped(d) \/ BindFails(d)
  <2>1. daemon[d] \in Starting \cup Announced /\ daemon'[d] \notin Starting \cup Announced
    <3>1. CASE WriteStopped(d)
      BY <1>3, <3>1 DEF WriteStopped, Starting, Announced
    <3>2. CASE BindFails(d)
      BY <1>3, <3>2 DEF BindFails, Starting, Announced
    <3> QED BY <1>7, <3>1, <3>2
  <2>2. \A e \in Daemons \ {d} : daemon'[e] = daemon[e]
    BY <1>3, <1>7 DEF WriteStopped, BindFails
  <2>3. NoDaemon'
    BY <1>2, <2>1, <2>2 DEF NoDaemon
  <2> QED BY <1>1, <1>9, <2>3 DEF Named, Awaited, Cleared, NoDaemon
<1>8. CASE Exit(d) \/ Kill(d)
  <2>1. daemon'[d] = "dead" /\ (\A e \in Daemons \ {d} : daemon'[e] = daemon[e]) /\ UNCHANGED state
    BY <1>3, <1>8 DEF Exit, Kill, Dies
  <2> QED BY <1>0, <1>1, <1>9, <2>1 DEF Named, Awaited, Cleared, NoDaemon, Starting, Announced
<1> QED BY <1>4, <1>5, <1>6, <1>7, <1>8 DEF Main, Trouble

\* A command that begins alone finds nobody, and starts nothing
LEMMA SoloBegin ==
  ASSUME Shape, Solo, NEW c \in Clients, NEW r \in ClientRecords, Begin(c, r),
         UNCHANGED <<state, daemon, interrupted>>,
         alone /\ ~interrupted /\ (r.at \in Clear \/ r.answer = "stopped") =>
           /\ r.answer = "stopped" => r.at = "idle"
           /\ r.at # "written"
           /\ \A d \in Daemons : daemon[d] \notin Announced
  PROVE  Solo'
<1> SUFFICES ASSUME alone', ~interrupted'
             PROVE  Single' /\ SaidStopped' /\ Named' /\ Awaited' /\ Cleared' /\ Prepared'
  BY DEF Solo
<1>1. /\ alone /\ ~interrupted
      /\ \A k \in Clients : client[k].at = "idle"
      /\ client' = [k \in Clients |-> IF k = c THEN r ELSE [client[k] EXCEPT !.answer = "none"]]
  BY DEF Begin
<1>2. Single /\ SaidStopped /\ Named /\ Awaited /\ Cleared /\ Prepared
  BY <1>1 DEF Solo
<1>3. \A k \in Clients : client[k] \in ClientRecords
  BY DEF Shape, TypeOK, ClientRecords
<1>4. \A k \in Clients : IF k = c THEN client'[k] = r ELSE client'[k].at = "idle" /\ client'[k].answer = "none"
  BY <1>1, <1>3 DEF ClientRecords
<1>5. \A d \in Daemons : daemon[d] \notin Starting
  BY <1>1, <1>2 DEF Awaited
<1>6. Single' /\ SaidStopped'
  BY <1>1, <1>4 DEF Single, SaidStopped
<1>7. Named' /\ Awaited'
  BY <1>2, <1>5 DEF Named, Awaited
<1>8. Cleared'
  BY <1>1, <1>4, <1>5 DEF Cleared, NoDaemon, Clear
<1>9. Prepared'
  BY <1>1, <1>4 DEF Prepared, Clear
<1> QED BY <1>6, <1>7, <1>8, <1>9

\* A command goes on, and no daemon moves: what it waited for is there, or was never born
LEMMA SoloMoves ==
  ASSUME Shape, Solo, NEW c \in Clients, NEW r \in ClientRecords,
         client[c].at # "idle",
         client' = [client EXCEPT ![c] = r],
         UNCHANGED <<daemon, alone, interrupted>>,
         alone /\ ~interrupted =>
           /\ r.answer = "stopped" => r.at = "idle"
           /\ state' = state \/ NoDaemon
           /\ r.at \in Clear \/ r.answer = "stopped" => NoDaemon
           /\ r.at = "written" => state' = [mark |-> "starting", pid |-> 0]
           /\ client[c].at = "waiting" => daemon[client[c].pid] \notin Starting
  PROVE  Solo'
<1> SUFFICES ASSUME alone, ~interrupted, Single, SaidStopped, Named, Awaited, Cleared, Prepared
             PROVE  Single' /\ SaidStopped' /\ Named' /\ Awaited' /\ Cleared' /\ Prepared'
  BY DEF Solo
<1>1. client'[c] = r /\ \A k \in Clients \ {c} : client'[k] = client[k]
  BY DEF Shape, TypeOK
<1>2. \A k \in Clients \ {c} : client[k].at = "idle" /\ client[k].answer # "stopped"
  BY DEF Single, SaidStopped
<1>3. Single' /\ SaidStopped'
  BY <1>1, <1>2 DEF Single, SaidStopped
<1>4. Named'
  BY DEF Named, NoDaemon
<1>5. Cleared'
  BY <1>1, <1>2 DEF Cleared, NoDaemon, Clear
<1>6. \A d \in Daemons : daemon[d] \notin Starting
  BY <1>2 DEF Awaited
<1>7. Awaited'
  BY <1>6 DEF Awaited
<1>8. Prepared'
  BY <1>1, <1>2 DEF Prepared
<1> QED BY <1>3, <1>4, <1>5, <1>7, <1>8

\* A command that is over
Ended(answer) == [At("idle", 0) EXCEPT !.answer = answer]

LEMMA AtRecord ==
  ASSUME NEW place \in {"checked", "marking", "asking", "removing", "installing", "removing only"},
         NEW pid \in 0..MaxDaemons
  PROVE  At(place, pid) \in ClientRecords /\ At(place, pid).at = place /\ At(place, pid).answer = "none"
BY DEF At, ClientRecords, Marks, Answers, Waits

LEMMA EndedRecord ==
  ASSUME NEW answer \in Answers
  PROVE  Ended(answer) \in ClientRecords /\ Ended(answer).at = "idle" /\ Ended(answer).answer = answer
<1>1. At("idle", 0) = [at |-> "idle", pid |-> 0, seen |-> "absent", answer |-> "none"]
  BY DEF At
<1>2. Ended(answer) = [at |-> "idle", pid |-> 0, seen |-> "absent", answer |-> answer]
  BY <1>1 DEF Ended
<1>3. 0 \in 0..MaxDaemons /\ "absent" \in Marks
  BY DaemonIds DEF Marks
<1> QED BY <1>2, <1>3 DEF ClientRecords

LEMMA ClientTypes ==
  ASSUME Shape, NEW c \in Clients
  PROVE  /\ client[c] \in ClientRecords /\ DOMAIN client = Clients
         /\ state.pid \in 0..MaxDaemons /\ state.mark \in Marks
         /\ 0 \in 0..MaxDaemons /\ "none" \in Answers /\ "stopped" \in Answers
<1>1. client[c] \in ClientRecords /\ DOMAIN client = Clients
  BY DEF Shape, TypeOK, ClientRecords
<1>2. state \in States
  BY DEF Shape, TypeOK
<1> QED BY <1>1, <1>2, DaemonIds DEF States, Answers

LEMMA SoloOpens ==
  ASSUME Shape, Solo, NEW c \in Clients, Opens(c) \/ AuthorityCommand(c)
  PROVE  Solo'
<1> USE DEF files, memory, daemonVars, commandIdle
<1>1. UNCHANGED <<state, daemon, interrupted>>
  BY DEF Opens, StartCommand, AlreadyRunning, NothingToStop, StopCommand, AuthorityCommand
<1>2. ASSUME alone, ~interrupted, ~Running(state)
      PROVE  \A d \in Daemons : daemon[d] \notin Announced
  BY <1>2 DEF Solo, Named, Running, Alive, Announced
<1>3. ASSUME NEW r \in ClientRecords, Begin(c, r), r.at \notin Clear, r.answer = "none" PROVE Solo'
  BY <1>1, <1>3, SoloBegin
<1>4. ASSUME NEW r \in ClientRecords, Begin(c, r), r.answer = "stopped" => r.at = "idle", ~Running(state),
             r.at # "written"
      PROVE  Solo'
  BY <1>1, <1>2, <1>4, SoloBegin
<1>5. CASE StartCommand(c)
  <2>1. Begin(c, At("checked", 0)) /\ ~Running(state)
    BY <1>5 DEF StartCommand, NotRunning
  <2> QED BY <2>1, <1>4, ClientTypes, AtRecord
<1>6. CASE AlreadyRunning(c)
  <2>1. Begin(c, Ended("none")) /\ "none" \in Answers
    BY <1>6, ClientTypes DEF AlreadyRunning, Ended
  <2> QED BY <2>1, <1>3, EndedRecord DEF Clear
<1>7. CASE NothingToStop(c)
  <2>1. ~Running(state)
    BY <1>7 DEF NothingToStop, Running
  <2>2. \/ Begin(c, At("removing", 0))
        \/ Begin(c, Ended(IF state.mark = "absent" THEN "none" ELSE "stopped"))
    BY <1>7 DEF NothingToStop, Ended
  <2>3. CASE Begin(c, At("removing", 0))
    <3>1. At("removing", 0) \in ClientRecords /\ At("removing", 0).answer = "none"
          /\ At("removing", 0).at = "removing"
      BY AtRecord, ClientTypes
    <3> QED BY <2>1, <2>3, <3>1, <1>4
  <2>4. ASSUME NEW answer \in Answers, Begin(c, Ended(answer)) PROVE Solo'
    BY <2>1, <2>4, <1>4, EndedRecord
  <2> QED BY <2>2, <2>3, <2>4, ClientTypes
<1>8. CASE StopCommand(c)
  <2>1. CASE Running(state)
    <3>1. Begin(c, At("asking", state.pid))
      BY <1>8, <2>1 DEF StopCommand
    <3>2. At("asking", state.pid) \in ClientRecords /\ At("asking", state.pid).at = "asking"
          /\ At("asking", state.pid).answer = "none"
      BY AtRecord, ClientTypes
    <3> QED BY <3>1, <3>2, <1>3 DEF Clear
  <2>2. CASE ~Running(state)
    <3>1. Begin(c, At("marking", state.pid))
      BY <1>8, <2>2 DEF StopCommand
    <3>2. At("marking", state.pid) \in ClientRecords /\ At("marking", state.pid).answer = "none"
          /\ At("marking", state.pid).at = "marking"
      BY AtRecord, ClientTypes
    <3> QED BY <3>1, <3>2, <2>2, <1>4
  <2> QED BY <2>1, <2>2
<1>9. CASE AuthorityCommand(c)
  <2>1. PICK place \in {"installing", "removing only"} : Begin(c, At(place, 0))
    BY <1>9 DEF AuthorityCommand
  <2>2. place \in {"checked", "marking", "asking", "removing", "installing", "removing only"}
        /\ 0 \in 0..MaxDaemons
    BY <2>1, ClientTypes
  <2>3. At(place, 0) \in ClientRecords /\ At(place, 0).at = place /\ At(place, 0).answer = "none"
    BY <2>2, AtRecord
  <2> QED BY <2>1, <2>3, <1>3 DEF Clear
<1> QED BY <1>5, <1>6, <1>7, <1>8, <1>9 DEF Opens

\* A command goes on to another place, or ends
LEMMA SoloGoes ==
  ASSUME Shape, Solo, NEW c \in Clients, UNCHANGED <<daemon, alone, interrupted>>,
         client[c].at # "idle",
         NEW place \in {"cleaned", "written", "first wait", "second wait", "idle", "removing"},
         NEW answer \in Answers,
         \/ Goes(c, place) /\ place # "idle" /\ answer = client[c].answer
         \/ Returns(c, answer) /\ place = "idle"
         \/ client' = [client EXCEPT ![c] = At("removing", 0)] /\ place = "removing" /\ answer = "none",
         alone /\ ~interrupted =>
           /\ state' = state \/ NoDaemon
           /\ place \in Clear \/ answer = "stopped" => NoDaemon
           /\ place = "written" => state' = [mark |-> "starting", pid |-> 0]
           /\ client[c].at = "waiting" => daemon[client[c].pid] \notin Starting
  PROVE  Solo'
<1>1. alone /\ ~interrupted => client[c].answer # "stopped"
  BY DEF Solo, SaidStopped
<1>2. CASE Goes(c, place) /\ place # "idle" /\ answer = client[c].answer
  <2> DEFINE r == [client[c] EXCEPT !.at = place]
  <2>1. r \in ClientRecords /\ r.at = place /\ r.answer = client[c].answer
    BY <1>2, ClientTypes DEF ClientRecords, Waits
  <2>2. client' = [client EXCEPT ![c] = r]
    BY <1>2, ClientTypes DEF Goes
  <2> HIDE DEF r
  <2> QED BY <1>1, <2>1, <2>2, SoloMoves, <1>2
<1>3. CASE Returns(c, answer) /\ place = "idle"
  <2> DEFINE r == Ended(answer)
  <2>1. r \in ClientRecords /\ r.at = "idle" /\ r.answer = answer
    BY EndedRecord
  <2>2. client' = [client EXCEPT ![c] = r]
    BY <1>3 DEF Returns, Ended
  <2> HIDE DEF r
  <2> QED BY <1>3, <2>1, <2>2, SoloMoves
<1>4. CASE client' = [client EXCEPT ![c] = At("removing", 0)] /\ place = "removing" /\ answer = "none"
  <2> DEFINE r == At("removing", 0)
  <2>1. r \in ClientRecords /\ r.at = "removing" /\ r.answer = "none"
    BY ClientTypes, AtRecord
  <2> HIDE DEF r
  <2>2. alone /\ ~interrupted => NoDaemon
    BY <1>4 DEF Clear
  <2>3. client' = [client EXCEPT ![c] = r]
    BY <1>4 DEF r
  <2>4. (alone /\ ~interrupted) => (client[c].at = "waiting" => daemon[client[c].pid] \notin Starting)
    OBVIOUS
  <2> QED BY <2>1, <2>2, <2>3, <2>4, SoloMoves
<1> QED BY <1>2, <1>3, <1>4

LEMMA SoloClient ==
  ASSUME Shape, Solo, NEW c \in Clients, Proceeds(c) \/ Interrupt(c) \/ AuthorityDone(c) \/ ReadAgain(c) \/ WriteAgain(c)
  PROVE  Solo'
<1> USE DEF files, memory, daemonVars, history, bounds, commandIdle
<1>1. alone /\ ~interrupted => Single /\ SaidStopped /\ Named /\ Awaited /\ Cleared /\ Prepared
  BY DEF Solo
<1>2. ASSUME client[c].at \in Clear, alone, ~interrupted PROVE NoDaemon
  BY <1>1, <1>2 DEF Cleared
<1>3. ASSUME client[c].at # "idle", alone, ~interrupted, client[c].at # "waiting"
      PROVE  \A d \in Daemons : daemon[d] \notin Starting
  BY <1>1, <1>3 DEF Single, Awaited
<1>4. ASSUME UNCHANGED <<daemon, alone, interrupted>>, client[c].at \notin {"idle", "waiting"},
             NEW place \in {"cleaned", "written", "first wait", "second wait"},
             Goes(c, place),
             alone /\ ~interrupted => /\ state' = state \/ NoDaemon
                                      /\ place \in Clear => NoDaemon
                                      /\ place = "written" => state' = [mark |-> "starting", pid |-> 0]
      PROVE  Solo'
  <2>1. client[c].answer \in Answers /\ (alone /\ ~interrupted => client[c].answer # "stopped")
    BY <1>1, <1>4, ClientTypes DEF ClientRecords, SaidStopped
  <2>2. place \in {"cleaned", "written", "first wait", "second wait", "idle", "removing"} /\ place # "idle"
    BY <1>4
  <2>3. alone /\ ~interrupted =>
          /\ state' = state \/ NoDaemon
          /\ place \in Clear \/ client[c].answer = "stopped" => NoDaemon
          /\ place = "written" => state' = [mark |-> "starting", pid |-> 0]
          /\ client[c].at = "waiting" => daemon[client[c].pid] \notin Starting
    BY <1>4, <2>1
  <2>4. client[c].at # "idle"
    BY <1>4
  <2> QED BY <1>4, <2>1, <2>2, <2>3, <2>4, SoloGoes
<1>5. ASSUME UNCHANGED <<daemon, alone, interrupted>>, client[c].at # "idle",
             NEW answer \in Answers, Returns(c, answer),
             alone /\ ~interrupted => /\ state' = state \/ NoDaemon
                                      /\ answer = "stopped" => NoDaemon
                                      /\ client[c].at = "waiting" => daemon[client[c].pid] \notin Starting
      PROVE  Solo'
  <2>1. "idle" \in {"cleaned", "written", "first wait", "second wait", "idle", "removing"} /\ "idle" \notin Clear
    BY DEF Clear
  <2>2. alone /\ ~interrupted =>
          /\ state' = state \/ NoDaemon
          /\ "idle" \in Clear \/ answer = "stopped" => NoDaemon
          /\ "idle" = "written" => state' = [mark |-> "starting", pid |-> 0]
          /\ client[c].at = "waiting" => daemon[client[c].pid] \notin Starting
    BY <1>5, <2>1
  <2> QED BY <1>5, <2>1, <2>2, SoloGoes
<1>6. ASSUME UNCHANGED <<daemon, alone, interrupted>>, client[c].at \notin {"idle", "waiting"},
             Stopped(c), alone /\ ~interrupted => NoDaemon
      PROVE  Solo'
  <2>1. "stopped" \in Answers /\ "none" \in Answers
    BY DEF Answers
  <2>2. CASE Returns(c, "stopped")
    BY <1>5, <1>6, <2>1, <2>2
  <2>3. CASE client' = [client EXCEPT ![c] = At("removing", 0)]
    BY <1>6, <2>1, <2>3, SoloGoes
  <2> QED BY <1>6, <2>2, <2>3 DEF Stopped
<1>7. "none" \in Answers /\ "stopped" \in Answers
  BY DEF Answers
<1>8. CASE CleanStop(c)
  BY <1>2, <1>4, <1>8 DEF CleanStop, Clear
<1>9. CASE WriteStarting(c)
  BY <1>2, <1>4, <1>9 DEF WriteStarting, Clear
<1>10. CASE WriteStop(c)
  BY <1>4, <1>10 DEF WriteStop, Clear
<1>11. CASE SpawnFails(c) \/ NotStopped(c) \/ AuthorityFails(c) \/ AuthorityDone(c)
  BY <1>5, <1>7, <1>11 DEF SpawnFails, NotStopped, AuthorityFails, AuthorityDone
<1>12. CASE Ready(c)
  <2>1. alone /\ ~interrupted => daemon[client[c].pid] \notin Starting
    <3>1. client[c].pid \in Daemons /\ state.mark = "running"
      BY <1>12 DEF Ready, Alive
    <3> QED BY <3>1, <1>1 DEF Awaited
  <2> QED BY <1>5, <1>7, <1>12, <2>1 DEF Ready
<1>13. CASE MarkStale(c)
  BY <1>2, <1>6, <1>13 DEF MarkStale, Clear
<1>14. CASE StopSeen(c)
  <2>1. client[c].at \notin {"idle", "waiting"} /\ state.mark # "running"
    BY <1>14 DEF StopSeen, Waits
  <2>2. alone /\ ~interrupted => NoDaemon
    BY <1>1, <1>3, <2>1 DEF NoDaemon, Named
  <2> QED BY <1>6, <1>14, <2>1, <2>2 DEF StopSeen
<1>15. CASE Interrupt(c)
  BY <1>15 DEF Interrupt, Solo
<1>16. CASE ReadAgain(c)
  <2> DEFINE r == [At("rewriting", state.pid) EXCEPT !.seen = state.mark]
  <2>1. /\ client[c].at = "removing" /\ client' = [client EXCEPT ![c] = r]
        /\ UNCHANGED <<state, daemon, alone, interrupted>>
    BY <1>16 DEF ReadAgain
  <2>2. r \in ClientRecords /\ r.at = "rewriting" /\ r.answer = "none"
    BY ClientTypes DEF At, ClientRecords, Waits, Answers
  <2> HIDE DEF r
  <2>3. alone /\ ~interrupted => NoDaemon
    BY <2>1, <1>2 DEF Clear
  <2> QED BY <2>1, <2>2, <2>3, SoloMoves
<1>17. CASE WriteAgain(c)
  BY <1>2, <1>5, <1>7, <1>17 DEF WriteAgain, Clear
<1>18. ASSUME NEW d \in Daemons, Spawn(c, d) PROVE Solo'
  <2> DEFINE r == [client[c] EXCEPT !.at = "waiting", !.pid = d]
  <2>1. /\ client[c].at = "written" /\ daemon' = [daemon EXCEPT ![d] = "born"]
        /\ client' = [client EXCEPT ![c] = r]
        /\ UNCHANGED <<state, alone, interrupted>>
    BY <1>18 DEF Spawn, Phase
  <2> SUFFICES ASSUME alone, ~interrupted
               PROVE  Single' /\ SaidStopped' /\ Named' /\ Awaited' /\ Cleared' /\ Prepared'
    BY <2>1 DEF Solo
  <2>2. r.at = "waiting" /\ r.pid = d /\ r.answer = client[c].answer /\ r.answer # "stopped"
    BY <1>1, <2>1, ClientTypes DEF ClientRecords, SaidStopped
  <2>3. client'[c] = r /\ \A k \in Clients \ {c} : client'[k] = client[k] /\ client[k].at = "idle"
    BY <1>1, <2>1, ClientTypes DEF Single
  <2>4. daemon'[d] = "born" /\ \A e \in Daemons \ {d} : daemon'[e] = daemon[e]
    BY <2>1 DEF Shape, TypeOK
  <2>5. NoDaemon
    BY <1>2, <2>1 DEF Clear
  <2> HIDE DEF r
  <2>6. Single' /\ SaidStopped'
    BY <1>1, <2>1, <2>2, <2>3 DEF Single, SaidStopped
  <2>7. Named'
    BY <2>4, <2>5 DEF NoDaemon, Named, Announced
  <2>8. Awaited'
    BY <1>1, <2>1, <2>2, <2>3, <2>4, <2>5 DEF NoDaemon, Awaited, Prepared
  <2>9. Cleared'
    BY <1>1, <2>1, <2>2, <2>3 DEF Cleared, SaidStopped, Clear
  <2>10. Prepared'
    BY <2>2, <2>3 DEF Prepared
  <2> QED BY <2>6, <2>7, <2>8, <2>9, <2>10
<1>19. CASE GiveUp(c) \/ Escalate(c)
  <2> DEFINE d == client[c].pid
  <2>1. /\ d \in Daemons /\ client[c].at \in {"waiting", "first wait"} /\ Signal(d)
        /\ UNCHANGED <<state, alone, interrupted>>
    BY <1>19 DEF GiveUp, Escalate, Shape, Waits
  <2> SUFFICES ASSUME alone, ~interrupted
               PROVE  Single' /\ SaidStopped' /\ Named' /\ Awaited' /\ Cleared' /\ Prepared'
    BY <2>1 DEF Solo
  <2>2. \A e \in Daemons : daemon'[e] = daemon[e] \/ daemon'[e] = "dead"
    BY <2>1 DEF Signal, Dies, Phase, Shape, TypeOK
  <2>3. daemon'[d] \notin Starting
    BY <2>1 DEF Signal, Dies, Phase, Shape, TypeOK, Starting
  <2>4. client'[c].at \in {"idle", "second wait"} /\ client'[c].answer # "stopped"
    <3>1. CASE GiveUp(c)
      <4>1. client'[c] = Ended("none")
        BY <3>1, ClientTypes DEF GiveUp, Returns, Ended
      <4> QED BY <4>1, <1>7, EndedRecord
    <3>2. CASE Escalate(c)
      <4>1. client'[c] = [client[c] EXCEPT !.at = "second wait"]
        BY <3>2, ClientTypes DEF Escalate, Goes
      <4>2. client[c].answer # "stopped"
        BY <1>1, <2>1 DEF SaidStopped
      <4> QED BY <4>1, <4>2, ClientTypes DEF ClientRecords
    <3> QED BY <1>19, <3>1, <3>2
  <2>5. \A k \in Clients \ {c} : client'[k] = client[k] /\ client[k].at = "idle"
    BY <1>1, <1>19, <2>1, ClientTypes DEF GiveUp, Escalate, Returns, Goes, Single
  <2>6. "dead" \notin Starting \cup Announced
    BY DEF Starting, Announced
  <2>7. \A e \in Daemons : daemon'[e] \notin Starting
    <3> SUFFICES ASSUME NEW e \in Daemons, daemon'[e] \in Starting
                 PROVE  FALSE
      OBVIOUS
    <3>1. e # d /\ daemon[e] \in Starting
      BY <2>2, <2>3, <2>6
    <3>2. PICK k \in Clients : client[k].at = "waiting" /\ client[k].pid = e
      BY <1>1, <3>1 DEF Awaited
    <3> QED BY <3>1, <3>2, <2>5
  <2> HIDE DEF d
  <2>8. Single' /\ SaidStopped'
    BY <1>1, <2>4, <2>5, <2>1 DEF Single, SaidStopped
  <2>9. Named' /\ Awaited'
    BY <1>1, <2>1, <2>2, <2>6, <2>7 DEF Named, Awaited
  <2>10. Cleared'
    BY <1>1, <2>2, <2>4, <2>5, <2>6 DEF Cleared, NoDaemon, Clear
  <2>11. Prepared'
    BY <2>4, <2>5 DEF Prepared
  <2> QED BY <2>8, <2>9, <2>10, <2>11
<1> QED BY <1>8, <1>9, <1>10, <1>11, <1>12, <1>13, <1>14, <1>15, <1>16, <1>17, <1>18, <1>19 DEF Proceeds

LEMMA SoloStep ==
  ASSUME Shape, Solo, [RecorderNext]_vars
  PROVE  Solo'
<1>1. CASE UNCHANGED vars
  BY <1>1 DEF vars, files, daemonVars, history, Solo, Single, SaidStopped, Named, Awaited, Cleared, Prepared, NoDaemon
<1>2. ASSUME NEW h \in Handlers, Connection(h) PROVE Solo'
  <2>1. UNCHANGED <<state, daemon, client, alone, interrupted>>
    BY <1>2 DEF Connection, Accept, Reject, Record, RecordFails, Keep, Forward, files, daemonVars, history
  <2> QED BY <2>1 DEF Solo, Single, SaidStopped, Named, Awaited, Cleared, Prepared, NoDaemon
<1> QED BY <1>1, <1>2, SoloDaemon, SoloOpens, SoloClient DEF RecorderNext, Next, AuthorityStep

LEMMA SoloImplies == Shape /\ Solo => OneRecorder
<1> SUFFICES ASSUME Shape, Solo, alone, ~interrupted
             PROVE  /\ Cardinality(Serving) <= 1
                    /\ (\E c \in Clients : client[c].answer = "stopped") => Serving = {}
  BY DEF OneRecorder
<1>1. Single /\ Named /\ Awaited /\ Cleared
  BY DEF Solo
<1>2. \A d \in Serving : d \in Daemons /\ daemon[d] \in Starting \cup Announced
  BY DEF Serving, Starting, Announced
<1>3. (\E c \in Clients : client[c].answer = "stopped") => Serving = {}
  BY <1>1, <1>2 DEF Cleared, NoDaemon
<1>4. CASE Serving = {}
  BY <1>3, <1>4, FS_EmptySet
<1>5. ASSUME NEW d \in Serving PROVE Cardinality(Serving) <= 1
  <2>1. Serving = {d}
    BY <1>1, <1>2, <1>5, OneActive
  <2>2. Cardinality({d}) = 1
    BY FS_Singleton
  <2> QED BY <2>1, <2>2
<1> QED BY <1>3, <1>4, <1>5

\* As long as commands do not overlap and none is interrupted, at most one daemon accepts
\* connections, whatever daemon dies or fails and however late it exits, and none does once
\* a command has answered that the recorder is stopped: state.json names the daemon, and
\* start_traffic ends the child it does not see running.
THEOREM RecorderIsAlone == Spec => []OneRecorder
<1>1. Init => Shape /\ Solo
  BY ShapeInit, SoloInit
<1>2. Shape /\ Solo /\ [Next]_vars => Shape' /\ Solo'
  BY ShapeStep, SoloStep DEF RecorderNext
<1> QED BY <1>1, <1>2, SoloImplies, PTL DEF Spec

-----------------------------------------------------------------------------
(* The trust *)

InstallSteps == {"keyed", "ensured", "added", "verified", "installed"}
RemovalSteps == {"untrusted", "unmarked", "keyless", "removed"}

Stepping ==
  \A c \in Clients :
    /\ step[c] \in InstallSteps => client[c].at \in {"checked", "installing"}
    /\ step[c] \in RemovalSteps => client[c].at \in {"removing", "removing only"}

\* What each place with the authority has done to the files
Places ==
  \A c \in Clients :
    /\ step[c] = "keyed" => key /\ cert = 0
    /\ step[c] \in {"added", "verified"} => cert # 0
    /\ step[c] \in {"unmarked", "keyless", "removed"} => marker = 0

\* What the system trusts, as long as its tools work
Store ==
  ~failedTool /\ ~interrupted =>
    /\ \A c \in Clients : step[c] \in {"added", "verified"} => trusted = {cert}
    /\ \A c \in Clients : step[c] = "untrusted" => trusted = {}
    /\ (\A c \in Clients : step[c] \notin {"added", "verified", "untrusted"}) => trusted = {marker} \ {0}

Trust ==
  /\ Stepping
  /\ alone => Single /\ Places /\ Store /\ (marker # 0 => marker = cert)

StepNames == {"none"} \cup InstallSteps \cup RemovalSteps

AuthorityTypes ==
  /\ key \in BOOLEAN /\ failedTool \in BOOLEAN
  /\ cert \in 0..MaxCerts /\ generated \in 0..MaxCerts /\ marker \in 0..MaxCerts
  /\ trusted \subseteq 1..MaxCerts
  /\ step \in [Clients -> StepNames]

TrustInv == Shape /\ LimitOK /\ AuthorityTypes /\ Trust

\* What a step of a command does to where the commands are
ClientStep(c) ==
  /\ \A k \in Clients \ {c} : client'[k].at = client[k].at
  /\ alone' => alone
  /\ client[c].at = "idle" /\ alone' => \A k \in Clients : client[k].at = "idle"

ClientMoves(c) ==
  \/ Opens(c) \/ Proceeds(c) \/ Interrupt(c) \/ AuthorityStep(c)
  \/ client[c].at # "idle" /\ UNCHANGED vars

LEMMA ClientSteps ==
  ASSUME Shape, NEW c \in Clients, ClientMoves(c)
  PROVE  ClientStep(c)
<1>1. \A k \in Clients : client[k] \in ClientRecords
  BY ClientTypes
<1>2. DOMAIN client = Clients
  BY DEF Shape, TypeOK
<1>3. ASSUME NEW r, Begin(c, r) PROVE ClientStep(c)
  <2>1. \A k \in Clients \ {c} : client'[k] = [client[k] EXCEPT !.answer = "none"]
    BY <1>3 DEF Begin
  <2>2. \A k \in Clients \ {c} : client'[k].at = client[k].at
    BY <1>1, <2>1 DEF ClientRecords
  <2> QED BY <1>3, <2>2 DEF Begin, ClientStep
<1>4. ASSUME NEW r, client' = [client EXCEPT ![c] = r], UNCHANGED alone, client[c].at # "idle" PROVE ClientStep(c)
  BY <1>2, <1>4 DEF ClientStep
<1>5. CASE Opens(c) \/ AuthorityCommand(c)
  BY <1>3, <1>5 DEF Opens, StartCommand, AlreadyRunning, NothingToStop, StopCommand, AuthorityCommand, commandIdle
<1>6. ASSUME NEW place, Goes(c, place), UNCHANGED alone, client[c].at # "idle" PROVE ClientStep(c)
  BY <1>2, <1>6 DEF Goes, ClientStep
<1>7. ASSUME NEW answer, Returns(c, answer), UNCHANGED alone, client[c].at # "idle" PROVE ClientStep(c)
  BY <1>4, <1>7 DEF Returns
<1>8. ASSUME Stopped(c), UNCHANGED alone, client[c].at # "idle" PROVE ClientStep(c)
  BY <1>4, <1>7, <1>8 DEF Stopped
<1>9. CASE CleanStop(c) \/ WriteStarting(c) \/ WriteStop(c) \/ Escalate(c)
  BY <1>6, <1>9 DEF CleanStop, WriteStarting, WriteStop, Escalate, commandIdle, history
<1>10. CASE SpawnFails(c) \/ Ready(c) \/ GiveUp(c) \/ NotStopped(c) \/ AuthorityFails(c) \/ AuthorityDone(c)
           \/ WriteAgain(c)
  BY <1>7, <1>10 DEF SpawnFails, Ready, GiveUp, NotStopped, AuthorityFails, AuthorityDone, WriteAgain, commandIdle, history
<1>11. CASE MarkStale(c) \/ StopSeen(c)
  BY <1>8, <1>11 DEF MarkStale, StopSeen, commandIdle, Waits
<1>12. CASE Interrupt(c)
  BY <1>7, <1>12 DEF Interrupt
<1>13. CASE ReadAgain(c)
  BY <1>4, <1>13 DEF ReadAgain, commandIdle
<1>14. ASSUME NEW d \in Daemons, Spawn(c, d) PROVE ClientStep(c)
  BY <1>2, <1>14 DEF Spawn, ClientStep, commandIdle
<1>15. CASE client[c].at # "idle" /\ UNCHANGED vars
  <2>1. UNCHANGED <<client, alone, interrupted>>
    BY <1>15 DEF vars, history
  <2> QED BY <1>15, <2>1 DEF ClientStep
<1> QED BY <1>5, <1>9, <1>10, <1>11, <1>12, <1>13, <1>14, <1>15 DEF ClientMoves, Proceeds, AuthorityStep

LEMMA InterruptLasts ==
  ASSUME [RecorderNext]_vars, ~interrupted' PROVE ~interrupted
<1> USE DEF files, memory, daemonVars, history, commandIdle
<1>1. CASE UNCHANGED vars
  BY <1>1 DEF vars
<1>2. ASSUME NEW h \in Handlers, Connection(h) PROVE UNCHANGED interrupted
  BY <1>2 DEF Connection, Accept, Reject, Record, RecordFails, Keep, Forward
<1>3. ASSUME NEW d \in Daemons, Main(d) \/ Trouble(d) PROVE UNCHANGED interrupted
  BY <1>3 DEF Main, Trouble, Bind, Announce, InstallHandlers, StopServing, CountCaptures, AppendClosing,
     WriteStopped, Exit, BindFails, ClosingFails, Kill
<1>4. ASSUME NEW c \in Clients, Opens(c) \/ AuthorityStep(c) PROVE UNCHANGED interrupted
  BY <1>4 DEF Opens, StartCommand, AlreadyRunning, NothingToStop, StopCommand, AuthorityStep,
     AuthorityCommand, AuthorityDone, ReadAgain, WriteAgain
<1>5. ASSUME NEW c \in Clients, Proceeds(c) PROVE UNCHANGED interrupted
  BY <1>5 DEF Proceeds, CleanStop, WriteStarting, SpawnFails, Ready, GiveUp, Spawn, MarkStale, WriteStop,
     StopSeen, Escalate, NotStopped, AuthorityFails
<1>6. ASSUME NEW c \in Clients, Interrupt(c) PROVE interrupted'
  BY <1>6 DEF Interrupt
<1> QED BY <1>1, <1>2, <1>3, <1>4, <1>5, <1>6 DEF RecorderNext, Next

LEMMA TrustTypes ==
  ASSUME Shape, LimitOK, AuthorityTypes, TrustNext
  PROVE  AuthorityTypes'
<1>1. limit.clients \subseteq Clients
  BY DEF LimitOK
<1>2. ASSUME NEW c \in limit.clients, NEW place \in StepNames, Steps(c, place)
      PROVE  step' \in [Clients -> StepNames]
  BY <1>1, <1>2 DEF Steps, AuthorityTypes
<1>3. StepNames = {"none", "keyed", "ensured", "added", "verified", "installed", "untrusted", "unmarked", "keyless", "removed"}
  BY DEF StepNames, InstallSteps, RemovalSteps
<1>4. CASE UNCHANGED trustVars
  BY <1>4 DEF trustVars, caVars, AuthorityTypes
<1>5. CASE Regenerate
  BY <1>5, CertsAreNatural DEF Regenerate, AuthorityTypes
<1>6. ASSUME NEW c \in limit.clients, Fails(c), UNCHANGED <<key, cert, generated, marker>>, failedTool' \in BOOLEAN,
             trusted' \subseteq 1..MaxCerts
      PROVE  AuthorityTypes'
  BY <1>2, <1>3, <1>6 DEF Fails, AuthorityTypes
<1>7. ASSUME NEW c \in limit.clients, WithAuthority(c) PROVE AuthorityTypes'
  <2> USE DEF AuthorityTypes, caVars
  <2>1. CASE EnsureKept(c) \/ VerifyTrust(c) \/ AfterEnsure(c) \/ NoMarker(c) \/ AfterRemoval(c)
    BY <1>2, <1>3, <2>1 DEF EnsureKept, VerifyTrust, AfterEnsure, NoMarker, AfterRemoval
  <2>2. CASE EnsureRefused(c) \/ MakeCertFails(c) \/ TrustFails(c) \/ MarkFails(c) \/ RemovalRefused(c)
    BY <1>6, <2>2 DEF EnsureRefused, MakeCertFails, TrustFails, MarkFails, RemovalRefused
  <2>3. CASE MakeKey(c) \/ RemoveKey(c)
    BY <1>2, <1>3, <2>3 DEF MakeKey, RemoveKey
  <2>8. CASE RemoveCert(c)
    <3>1. step' \in [Clients -> StepNames]
      BY <1>2, <1>3, <2>8 DEF RemoveCert
    <3> QED BY <2>8, <3>1, CertsAreNatural DEF RemoveCert
  <2>6. CASE MakeCert(c)
    <3>1. generated + 1 \in 0..MaxCerts
      BY <2>6, CertsAreNatural DEF MakeCert
    <3>2. step' \in [Clients -> StepNames]
      BY <1>2, <1>3, <2>6 DEF MakeCert
    <3>3. cert' \in 0..MaxCerts /\ generated' \in 0..MaxCerts
      BY <2>6, <3>1 DEF MakeCert
    <3>4. UNCHANGED <<key, failedTool, marker, trusted>>
      BY <2>6 DEF MakeCert
    <3> QED BY <3>2, <3>3, <3>4
  <2>4. CASE MarkTrust(c) \/ Untrust(c)
    BY <1>2, <1>3, <2>4 DEF MarkTrust, Untrust, Withdrawn
  <2>9. CASE UnlinkMarker(c)
    <3>1. step' \in [Clients -> StepNames]
      BY <1>2, <1>3, <2>9 DEF UnlinkMarker
    <3> QED BY <2>9, <3>1, CertsAreNatural DEF UnlinkMarker
  <2>7. CASE AddTrust(c)
    <3>1. cert \in 1..MaxCerts
      BY <2>7, CertsAreNatural DEF AddTrust
    <3> QED BY <1>2, <1>3, <2>7, <3>1 DEF AddTrust
  <2>5. CASE UntrustFails(c)
    BY <1>6, <2>5 DEF UntrustFails, Withdrawn
  <2> QED BY <1>7, <2>1, <2>2, <2>3, <2>4, <2>5, <2>6, <2>7, <2>8, <2>9 DEF WithAuthority
<1>8. ASSUME NEW c \in limit.clients, Steps(c, "none"), UNCHANGED caVars PROVE AuthorityTypes'
  BY <1>2, <1>3, <1>8 DEF AuthorityTypes, caVars
<1> QED BY <1>4, <1>5, <1>7, <1>8 DEF TrustNext, DaemonSteps, BindWithAuthority, Elsewhere, Issue

\* What has to hold of the place and the files of the command that made the step
LEMMA TrustMakes ==
  ASSUME TrustInv, AuthorityTypes', NEW c \in Clients, ClientStep(c), ~interrupted' => ~interrupted,
         NEW s \in StepNames, step' = [step EXCEPT ![c] = s],
         s \in InstallSteps => client'[c].at \in {"checked", "installing"},
         s \in RemovalSteps => client'[c].at \in {"removing", "removing only"},
         client[c].at # "idle" \/ UNCHANGED caVars,
         alone' =>
           /\ s = "keyed" => key' /\ cert' = 0
           /\ s \in {"added", "verified"} => cert' # 0
           /\ s \in {"unmarked", "keyless", "removed"} => marker' = 0
           /\ marker' # 0 => marker' = cert'
           /\ ~failedTool' /\ ~interrupted' =>
                /\ s \in {"added", "verified"} => trusted' = {cert'}
                /\ s = "untrusted" => trusted' = {}
                /\ s \notin {"added", "verified", "untrusted"} => trusted' = {marker'} \ {0}
  PROVE  Trust'
<1>1. step'[c] = s /\ \A k \in Clients \ {c} : step'[k] = step[k]
  BY DEF TrustInv, AuthorityTypes
<1>2. Stepping'
  BY <1>1 DEF TrustInv, Trust, Stepping, ClientStep
<1> SUFFICES ASSUME alone' PROVE Single' /\ Places' /\ Store' /\ (marker' # 0 => marker' = cert')
  BY <1>2 DEF Trust
<1>3. alone /\ Single /\ Stepping
  BY DEF ClientStep, TrustInv, Trust
<1>4. \A k \in Clients \ {c} : client[k].at = "idle" /\ client'[k].at = "idle"
  BY <1>3 DEF Single, ClientStep
<1>5. \A k \in Clients \ {c} : step'[k] = "none"
  BY <1>1, <1>3, <1>4 DEF Stepping, TrustInv, AuthorityTypes, StepNames
<1>6. Single'
  BY <1>4 DEF Single
<1>7. Places'
  BY <1>1, <1>5 DEF Places
<1>8. Store'
  BY <1>1, <1>5 DEF Store
<1> QED BY <1>6, <1>7, <1>8

\* A step of another actor leaves the commands alone
LEMMA TrustKept ==
  ASSUME TrustInv, UNCHANGED <<client, alone, interrupted, step, failedTool, marker, trusted>>,
         alone => \A c \in Clients : step[c] = "keyed" => key' /\ cert' = 0,
         alone => \A c \in Clients : step[c] \in {"added", "verified"} => cert' = cert,
         alone /\ marker # 0 => cert' = cert
  PROVE  Trust'
<1>1. Stepping'
  BY DEF TrustInv, Trust, Stepping
<1> SUFFICES ASSUME alone PROVE Single' /\ Places' /\ Store' /\ (marker' # 0 => marker' = cert')
  BY <1>1 DEF Trust
<1>2. Single /\ Places /\ Store /\ (marker # 0 => marker = cert)
  BY DEF TrustInv, Trust
<1>3. Single' /\ Places'
  BY <1>2 DEF Single, Places
<1>4. Store'
  BY <1>2 DEF Store
<1> QED BY <1>2, <1>3, <1>4

LEMMA TrustRegenerates ==
  ASSUME TrustInv, Regenerate, UNCHANGED <<client, alone, interrupted>>
  PROVE  Trust'
<1>1. UNCHANGED <<trusted, marker, failedTool, step>> /\ ~key /\ cert = 0
  BY DEF Regenerate, Gone
<1>2. alone => Places /\ (marker # 0 => marker = cert)
  BY DEF TrustInv, Trust
<1>3. alone => \A c \in Clients : step[c] \notin {"keyed", "added", "verified"}
  BY <1>1, <1>2 DEF Places
<1>4. alone => marker = 0
  BY <1>1, <1>2
<1> QED BY <1>1, <1>3, <1>4, TrustKept

\* The steps of the processes that are no commands leave the commands as they are
LEMMA Bystanders ==
  ASSUME (\E h \in Handlers : Connection(h)) \/ (\E d \in Daemons : Main(d) \/ Trouble(d)) \/ UNCHANGED vars
  PROVE  UNCHANGED <<client, alone, interrupted>>
<1> USE DEF files, memory, daemonVars, history, commandIdle
<1>1. CASE UNCHANGED vars
  BY <1>1 DEF vars
<1>2. ASSUME NEW h \in Handlers, Connection(h) PROVE UNCHANGED <<client, alone, interrupted>>
  BY <1>2 DEF Connection, Accept, Reject, Record, RecordFails, Keep, Forward
<1>3. ASSUME NEW d \in Daemons, Main(d) \/ Trouble(d) PROVE UNCHANGED <<client, alone, interrupted>>
  BY <1>3 DEF Main, Trouble, Bind, Announce, InstallHandlers, StopServing, CountCaptures, AppendClosing,
     WriteStopped, Exit, BindFails, ClosingFails, Kill
<1> QED BY <1>1, <1>2, <1>3

Told(c) ==
  ~failedTool /\ ~interrupted =>
    /\ step[c] \in {"added", "verified"} => trusted = {cert}
    /\ step[c] = "untrusted" => trusted = {}
    /\ step[c] \notin {"added", "verified", "untrusted"} => trusted = {marker} \ {0}

\* As long as the commands do not overlap the open one is the only one with the authority
LEMMA OnlyOne ==
  ASSUME TrustInv, alone, NEW c \in Clients, client[c].at # "idle"
  PROVE  Told(c)
<1>1. Single /\ Stepping /\ Store
  BY DEF TrustInv, Trust
<1>2. \A k \in Clients \ {c} : client[k].at = "idle"
  BY <1>1 DEF Single
<1>3. \A k \in Clients \ {c} : step[k] = "none"
  BY <1>1, <1>2 DEF Stepping, TrustInv, AuthorityTypes, StepNames
<1> QED BY <1>1, <1>3 DEF Store, Told

LEMMA AuthorityOpen ==
  ASSUME TrustInv, NEW c \in Clients, WithAuthority(c)
  PROVE  /\ client[c].at # "idle"
         /\ step[c] \in InstallSteps => client[c].at \in {"checked", "installing"}
         /\ step[c] \in RemovalSteps => client[c].at \in {"removing", "removing only"}
<1>1. /\ step[c] \in InstallSteps => client[c].at \in {"checked", "installing"}
      /\ step[c] \in RemovalSteps => client[c].at \in {"removing", "removing only"}
  BY DEF TrustInv, Trust, Stepping
<1>2. step[c] \in InstallSteps \cup RemovalSteps \/ Ensuring(c) \/ Removing(c)
  BY DEF WithAuthority, EnsureKept, EnsureRefused, MakeKey, MakeCert, MakeCertFails, AddTrust, VerifyTrust,
     TrustFails, MarkTrust, MarkFails, AfterEnsure, NoMarker, RemovalRefused, Untrust, UntrustFails,
     UnlinkMarker, RemoveKey, RemoveCert, AfterRemoval, InstallSteps, RemovalSteps
<1> QED BY <1>1, <1>2 DEF Ensuring, Removing, InPlace

LEMMA TrustByCommand ==
  ASSUME TrustInv, AuthorityTypes', [RecorderNext]_vars, NEW c \in Clients, WithAuthority(c)
  PROVE  Trust'
<1>1. /\ client[c].at # "idle"
      /\ step[c] \in InstallSteps => client[c].at \in {"checked", "installing"}
      /\ step[c] \in RemovalSteps => client[c].at \in {"removing", "removing only"}
  BY AuthorityOpen
<1>2. ~interrupted' => ~interrupted
  BY InterruptLasts
<1>3. alone => Told(c)
  BY <1>1, OnlyOne
<1>4. alone =>
        /\ step[c] = "keyed" => key /\ cert = 0
        /\ step[c] \in {"added", "verified"} => cert # 0
        /\ step[c] \in {"unmarked", "keyless", "removed"} => marker = 0
        /\ marker # 0 => marker = cert
  BY DEF TrustInv, Trust, Places
<1>0. ClientStep(c)
  <2>1. ProxyStays \/ AuthorityFails(c) \/ AuthorityDone(c) \/ CleanStop(c) \/ ReadAgain(c)
    BY DEF WithAuthority, EnsureKept, EnsureRefused, MakeKey, MakeCert, MakeCertFails, AddTrust, VerifyTrust,
       TrustFails, MarkTrust, MarkFails, AfterEnsure, NoMarker, RemovalRefused, Untrust, UntrustFails,
       UnlinkMarker, RemoveKey, RemoveCert, AfterRemoval, Fails
  <2>2. Shape
    BY DEF TrustInv
  <2>3. ClientMoves(c)
    BY <1>1, <2>1 DEF ClientMoves, ProxyStays, Proceeds, AuthorityStep
  <2> QED BY <2>2, <2>3, ClientSteps
<1>24. alone' => alone
  BY <1>0 DEF ClientStep
<1> DEFINE Made(s) ==
      alone' =>
        /\ s = "keyed" => key' /\ cert' = 0
        /\ s \in {"added", "verified"} => cert' # 0
        /\ s \in {"unmarked", "keyless", "removed"} => marker' = 0
        /\ marker' # 0 => marker' = cert'
        /\ ~failedTool' /\ ~interrupted' =>
             /\ s \in {"added", "verified"} => trusted' = {cert'}
             /\ s = "untrusted" => trusted' = {}
             /\ s \notin {"added", "verified", "untrusted"} => trusted' = {marker'} \ {0}
<1>5. ASSUME NEW s \in StepNames, Steps(c, s), ProxyStays, Made(s),
             s \in InstallSteps => client[c].at \in {"checked", "installing"},
             s \in RemovalSteps => client[c].at \in {"removing", "removing only"}
      PROVE  Trust'
  <2>2. UNCHANGED <<client, alone, interrupted>>
    BY <1>5, Bystanders DEF ProxyStays
  <2>3. step' = [step EXCEPT ![c] = s]
    BY <1>5 DEF Steps
  <2>4. /\ s \in InstallSteps => client'[c].at \in {"checked", "installing"}
        /\ s \in RemovalSteps => client'[c].at \in {"removing", "removing only"}
    BY <1>5, <2>2
  <2> QED BY <1>0, <1>1, <1>2, <1>5, <2>3, <2>4, TrustMakes
<1>6. ASSUME Steps(c, "none"), AuthorityFails(c) \/ AuthorityDone(c) \/ CleanStop(c) \/ ReadAgain(c), Made("none")
      PROVE  Trust'
  <2>2. step' = [step EXCEPT ![c] = "none"]
    BY <1>6 DEF Steps
  <2>3. "none" \in StepNames /\ "none" \notin InstallSteps \cup RemovalSteps
    BY DEF StepNames, InstallSteps, RemovalSteps
  <2> QED BY <1>0, <1>1, <1>2, <1>6, <2>2, <2>3, TrustMakes
<1>7. \A s \in {"keyed", "ensured", "added", "verified", "installed"} : s \in StepNames /\ s \in InstallSteps /\ s \notin RemovalSteps
  BY DEF StepNames, InstallSteps, RemovalSteps
<1>8. \A s \in {"untrusted", "unmarked", "keyless", "removed"} : s \in StepNames /\ s \in RemovalSteps /\ s \notin InstallSteps
  BY DEF StepNames, InstallSteps, RemovalSteps
<1>9. ProxyStays => UNCHANGED interrupted
  BY DEF ProxyStays, vars, history
<1>10. CASE EnsureKept(c)
  <2>1. Made("ensured")
    BY <1>2, <1>3, <1>4, <1>24, <1>10 DEF EnsureKept, Ensuring, Told, caVars
  <2> QED BY <1>5, <1>7, <1>10, <2>1 DEF EnsureKept, Ensuring, InPlace
<1>11. CASE MakeKey(c)
  <2>1. Made("keyed")
    BY <1>2, <1>3, <1>4, <1>24, <1>11 DEF MakeKey, Ensuring, Told, Gone
  <2> QED BY <1>5, <1>7, <1>11, <2>1 DEF MakeKey, Ensuring, InPlace
<1>12. CASE MakeCert(c)
  <2>1. Made("ensured")
    BY <1>2, <1>3, <1>4, <1>24, <1>12 DEF MakeCert, Told
  <2> QED BY <1>1, <1>5, <1>7, <1>12, <2>1 DEF MakeCert
<1>13. CASE AddTrust(c)
  <2>1. Made("added")
    BY <1>2, <1>3, <1>4, <1>24, <1>13 DEF AddTrust, Told
  <2> QED BY <1>1, <1>5, <1>7, <1>13, <2>1 DEF AddTrust
<1>14. CASE VerifyTrust(c)
  <2>1. Made("verified")
    BY <1>2, <1>3, <1>4, <1>24, <1>14 DEF VerifyTrust, Told, caVars
  <2> QED BY <1>1, <1>5, <1>7, <1>14, <2>1 DEF VerifyTrust
<1>15. CASE MarkTrust(c)
  <2>1. Made("installed")
    BY <1>2, <1>3, <1>4, <1>24, <1>15 DEF MarkTrust, Told
  <2> QED BY <1>1, <1>5, <1>7, <1>15, <2>1 DEF MarkTrust
<1>16. CASE NoMarker(c)
  <2>1. Made("unmarked")
    BY <1>2, <1>3, <1>4, <1>24, <1>16 DEF NoMarker, Removing, Told, caVars
  <2> QED BY <1>5, <1>8, <1>16, <2>1 DEF NoMarker, Removing, InPlace
<1>17. CASE Untrust(c)
  <2>1. Made("untrusted")
    BY <1>2, <1>3, <1>4, <1>24, <1>17 DEF Untrust, Removing, Told, Withdrawn
  <2> QED BY <1>5, <1>8, <1>17, <2>1 DEF Untrust, Removing, InPlace
<1>18. CASE UnlinkMarker(c)
  <2>1. Made("unmarked")
    BY <1>2, <1>3, <1>4, <1>24, <1>18 DEF UnlinkMarker, Told
  <2> QED BY <1>1, <1>5, <1>8, <1>18, <2>1 DEF UnlinkMarker
<1>19. CASE RemoveKey(c)
  <2>1. Made("keyless")
    BY <1>2, <1>3, <1>4, <1>24, <1>19 DEF RemoveKey, Told
  <2> QED BY <1>1, <1>5, <1>8, <1>19, <2>1 DEF RemoveKey
<1>20. CASE RemoveCert(c)
  <2>1. Made("removed")
    BY <1>2, <1>3, <1>4, <1>24, <1>20 DEF RemoveCert, Told
  <2> QED BY <1>1, <1>5, <1>8, <1>20, <2>1 DEF RemoveCert
<1>21. CASE EnsureRefused(c) \/ MakeCertFails(c) \/ MarkFails(c) \/ RemovalRefused(c)
  <2>1. Made("none")
    BY <1>2, <1>3, <1>4, <1>24, <1>21 DEF EnsureRefused, MakeCertFails, MarkFails, RemovalRefused, Ensuring, Removing, Told, caVars
  <2> QED BY <1>6, <1>21, <2>1 DEF EnsureRefused, MakeCertFails, MarkFails, RemovalRefused, Fails
<1>22. CASE TrustFails(c) \/ UntrustFails(c)
  <2>1. Made("none")
    BY <1>2, <1>3, <1>4, <1>24, <1>22 DEF TrustFails, UntrustFails, Removing
  <2> QED BY <1>6, <1>22, <2>1 DEF TrustFails, UntrustFails, Fails
<1>23. CASE AfterEnsure(c) \/ AfterRemoval(c)
  <2>1. Made("none")
    BY <1>2, <1>3, <1>4, <1>24, <1>23 DEF AfterEnsure, AfterRemoval, Told, caVars
  <2> QED BY <1>6, <1>23, <2>1 DEF AfterEnsure, AfterRemoval
<1> QED BY <1>10, <1>11, <1>12, <1>13, <1>14, <1>15, <1>16, <1>17, <1>18, <1>19, <1>20, <1>21, <1>22, <1>23 DEF WithAuthority

\* A command that has no business with the authority
LEMMA TrustAside ==
  ASSUME TrustInv, AuthorityTypes', [RecorderNext]_vars, NEW c \in Clients, step[c] = "none",
         Opens(c) \/ Proceeds(c) \/ AuthorityStep(c), UNCHANGED trustVars
  PROVE  Trust'
<1>1. UNCHANGED <<key, cert, step, failedTool, marker, trusted>>
  BY DEF trustVars, caVars
<1>10. Shape /\ ClientMoves(c)
  BY DEF TrustInv, ClientMoves
<1>2. ClientStep(c)
  BY <1>10, ClientSteps
<1>3. ~interrupted' => ~interrupted
  BY InterruptLasts
<1>4. Stepping'
  BY <1>1, <1>2 DEF TrustInv, Trust, Stepping, ClientStep, InstallSteps, RemovalSteps
<1> SUFFICES ASSUME alone' PROVE Single' /\ Places' /\ Store' /\ (marker' # 0 => marker' = cert')
  BY <1>4 DEF Trust
<1>5. alone /\ Single /\ Places /\ Store /\ (marker # 0 => marker = cert)
  BY <1>2 DEF ClientStep, TrustInv, Trust
<1>6. \A k \in Clients \ {c} : client'[k].at = "idle"
  BY <1>2, <1>5 DEF Single, ClientStep
<1>7. Single' /\ Places'
  BY <1>1, <1>5, <1>6 DEF Single, Places
<1>8. Store'
  BY <1>1, <1>3, <1>5 DEF Store
<1> QED BY <1>1, <1>5, <1>7, <1>8

LEMMA TrustInterrupted ==
  ASSUME TrustInv, NEW c \in Clients, Interrupt(c), Steps(c, "none"), UNCHANGED caVars
  PROVE  Trust'
<1>1. UNCHANGED <<key, cert, failedTool, marker, trusted, alone>> /\ interrupted'
  BY DEF caVars, Interrupt
<1>10. Shape /\ ClientMoves(c)
  BY DEF TrustInv, ClientMoves
<1>2. ClientStep(c)
  BY <1>10, ClientSteps
<1>3. step'[c] = "none" /\ \A k \in Clients \ {c} : step'[k] = step[k]
  BY DEF TrustInv, AuthorityTypes, Steps
<1>4. Stepping'
  BY <1>2, <1>3 DEF TrustInv, Trust, Stepping, ClientStep, InstallSteps, RemovalSteps
<1> SUFFICES ASSUME alone PROVE Single' /\ Places' /\ Store' /\ (marker' # 0 => marker' = cert')
  BY <1>1, <1>4 DEF Trust
<1>5. Single /\ Places /\ (marker # 0 => marker = cert)
  BY DEF TrustInv, Trust
<1>6. client[c].at # "idle"
  BY DEF Interrupt
<1>7. \A k \in Clients \ {c} : client'[k].at = "idle"
  BY <1>2, <1>5, <1>6 DEF Single, ClientStep
<1>8. Single' /\ Places'
  BY <1>1, <1>3, <1>5, <1>7 DEF Single, Places
<1> QED BY <1>1, <1>5, <1>8 DEF Store

LEMMA TrustStepInv ==
  ASSUME TrustInv, [TrustNext]_allVars
  PROVE  Trust'
<1>1. [RecorderNext]_vars /\ AuthorityTypes'
  <2>1. CASE TrustNext
    BY <2>1, TrustStep, TrustTypes DEF TrustInv
  <2>2. CASE UNCHANGED allVars
    BY <2>2 DEF allVars, trustVars, caVars, TrustInv, AuthorityTypes
  <2> QED BY <2>1, <2>2
<1>2. ASSUME UNCHANGED trustVars, UNCHANGED <<client, alone, interrupted>> PROVE Trust'
  <2>1. UNCHANGED <<key, cert, step, failedTool, marker, trusted>>
    BY <1>2 DEF trustVars, caVars
  <2>2. alone => \A c \in Clients : step[c] = "keyed" => key' /\ cert' = 0
    BY <2>1 DEF TrustInv, Trust, Places
  <2> QED BY <1>2, <2>1, <2>2, TrustKept
<1>3. CASE UNCHANGED allVars
  BY <1>2, <1>3, Bystanders DEF allVars
<1>4. limit.clients \subseteq Clients /\ limit.handlers \subseteq Handlers /\ 1..limit.daemons \subseteq Daemons
  BY BoundsAreNaturals DEF TrustInv, LimitOK, Daemons
<1>5. ASSUME NEW h \in limit.handlers, Connection(h), UNCHANGED trustVars PROVE Trust'
  BY <1>2, <1>4, <1>5, Bystanders
<1>6. ASSUME NEW h \in limit.handlers, Issue(h) PROVE Trust'
  BY <1>6, Bystanders, TrustRegenerates DEF Issue, ProxyStays
<1>7. ASSUME NEW d \in Daemons, DaemonSteps(d) PROVE Trust'
  <2>1. Main(d)
    BY <1>7 DEF DaemonSteps, BindWithAuthority, Main
  <2>2. Regenerate \/ UNCHANGED trustVars
    BY <1>7 DEF DaemonSteps, BindWithAuthority
  <2> QED BY <1>2, <2>1, <2>2, Bystanders, TrustRegenerates
<1>8. ASSUME NEW d \in Daemons, Trouble(d), UNCHANGED trustVars PROVE Trust'
  BY <1>2, <1>8, Bystanders
<1>9. ASSUME NEW c \in limit.clients, WithAuthority(c) PROVE Trust'
  BY <1>1, <1>4, <1>9, TrustByCommand
<1>10. ASSUME NEW c \in limit.clients, Opens(c) \/ Proceeds(c) \/ AuthorityStep(c), step[c] = "none", UNCHANGED trustVars
       PROVE  Trust'
  BY <1>1, <1>4, <1>10, TrustAside
<1>11. ASSUME NEW c \in limit.clients, Elsewhere(c) PROVE Trust'
  <2>1. UNCHANGED trustVars /\ (Proceeds(c) \/ AuthorityStep(c))
    BY <1>4, <1>11 DEF Elsewhere, Proceeds, AuthorityStep
  <2>2. client[c].at \notin {"checked", "installing", "removing", "removing only"}
    BY <1>11 DEF Elsewhere, WriteStarting, SpawnFails, Ready, GiveUp, Spawn, MarkStale, WriteStop, StopSeen, Waits,
       Escalate, NotStopped, WriteAgain
  <2>3. step[c] = "none"
    BY <1>4, <2>2 DEF TrustInv, Trust, Stepping, AuthorityTypes, StepNames
  <2> QED BY <1>10, <2>1, <2>3
<1>12. ASSUME NEW c \in limit.clients, Opens(c) \/ AuthorityCommand(c), UNCHANGED trustVars PROVE Trust'
  <2>1. client[c].at = "idle"
    BY <1>12 DEF Opens, StartCommand, AlreadyRunning, NothingToStop, StopCommand, AuthorityCommand, Begin
  <2>2. step[c] = "none"
    BY <1>4, <2>1 DEF TrustInv, Trust, Stepping, AuthorityTypes, StepNames
  <2> QED BY <1>10, <1>12, <2>2 DEF AuthorityStep
<1>13. ASSUME NEW c \in limit.clients, Interrupt(c), Steps(c, "none"), UNCHANGED caVars PROVE Trust'
  BY <1>1, <1>4, <1>13, TrustInterrupted
<1> QED BY <1>3, <1>5, <1>6, <1>7, <1>8, <1>9, <1>11, <1>12, <1>13 DEF TrustNext

LEMMA TrustImplies == TrustInv => TrustIsRemovable
<1> SUFFICES ASSUME TrustInv, alone
             PROVE  /\ marker # 0 => marker = cert
                    /\ ~failedTool /\ ~interrupted /\ (\A c \in Clients : client[c].at = "idle") =>
                         trusted = {marker} \ {0}
  BY DEF TrustIsRemovable
<1>1. Stepping /\ Store /\ (marker # 0 => marker = cert)
  BY DEF TrustInv, Trust
<1>2. (\A c \in Clients : client[c].at = "idle") => \A c \in Clients : step[c] = "none"
  BY <1>1 DEF Stepping, TrustInv, AuthorityTypes, StepNames
<1> QED BY <1>1, <1>2 DEF Store

LEMMA TrustInvariant ==
  /\ TrustInit => TrustInv
  /\ TrustInv /\ [TrustNext]_allVars => TrustInv'
<1>1. TrustInit => TrustInv
  <2> SUFFICES ASSUME TrustInit PROVE TrustInv
    OBVIOUS
  <2>1. Shape /\ LimitOK
    <3>1. Shape
      BY ShapeInit DEF TrustInit
    <3>2. LimitOK
      BY LimitsAreWithin DEF TrustInit, LimitOK
    <3> QED BY <3>1, <3>2
  <2>2. AuthorityTypes
    <3>1. 0 \in 0..MaxCerts
      BY CertsAreNatural
    <3>2. step \in [Clients -> StepNames]
      BY DEF TrustInit, StepNames
    <3> QED BY <3>1, <3>2 DEF TrustInit, AuthorityTypes
  <2>3. Trust
    <3>1. \A c \in Clients : step[c] = "none" /\ client[c].at = "idle"
      BY DEF TrustInit, Init, At
    <3>2. marker = 0 /\ trusted = {}
      BY DEF TrustInit
    <3> QED BY <3>1, <3>2 DEF Trust, Stepping, InstallSteps, RemovalSteps, Single, Places, Store
  <2> QED BY <2>1, <2>2, <2>3 DEF TrustInv
<1>2. ASSUME TrustInv, [TrustNext]_allVars PROVE TrustInv'
  <2>1. Shape /\ LimitOK /\ AuthorityTypes
    BY <1>2 DEF TrustInv
  <2>2. Shape' /\ LimitOK'
    BY <1>2, <2>1, ShapeStep, TrustStep
  <2>3. AuthorityTypes'
    <3>1. CASE TrustNext
      BY <2>1, <3>1, TrustTypes
    <3>2. CASE UNCHANGED allVars
      BY <2>1, <3>2 DEF allVars, trustVars, caVars, AuthorityTypes
    <3> QED BY <1>2, <3>1, <3>2
  <2> QED BY <1>2, <2>2, <2>3, TrustStepInv DEF TrustInv
<1> QED BY <1>1, <1>2

\* The key, the certificate, the marker and the store of the authority keep their types,
\* and so does everything the recorder of TrafficProxy has, when the commands that
\* install and remove the authority run as well.
THEOREM AuthorityKeepsTypes == TrustSpec => []TrustTypeOK
<1>1. TrustInv => TrustTypeOK
  BY DEF TrustInv, Shape, AuthorityTypes, TrustTypeOK, StepNames, InstallSteps, RemovalSteps
<1> QED BY <1>1, TrustInvariant, PTL DEF TrustSpec

\* As long as commands do not overlap, the certificate that trust.json names is the one on
\* the disk, so that it can be withdrawn, and if no tool failed and no command was
\* interrupted the store trusts, between the commands, that one and no other: whatever the
\* daemons, their connections and the removals of start, stop, install_ca and remove_ca do.
THEOREM TrustCanBeRemoved == TrustSpec => []TrustIsRemovable
BY TrustImplies, TrustInvariant, PTL DEF TrustSpec

\* What holds of the recorder on its own holds with the authority: its gate, its ledger and
\* its only daemon are not disturbed by the commands that install and remove the authority,
\* nor by the steps of stop --remove-ca that write the state back.
THEOREM RecorderWithAuthority == TrustSpec => [](OkIsComplete /\ LedgerIsExact /\ OneRecorder)
<1>1. TrustInit => TrustInv /\ Ledger /\ Witnessed /\ Solo
  <2>1. Init => Witnessed
    BY DEF Init, Witnessed, NoHandler
  <2>2. TrustInit => Init
    BY DEF TrustInit
  <2> QED BY <2>1, <2>2, TrustInvariant, LedgerInit, SoloInit
<1>2. TrustInv /\ Ledger /\ Witnessed /\ Solo /\ [TrustNext]_allVars
        => TrustInv' /\ Ledger' /\ Witnessed' /\ Solo'
  <2> SUFFICES ASSUME TrustInv, Ledger, Witnessed, Solo, [TrustNext]_allVars
               PROVE  TrustInv' /\ Ledger' /\ Witnessed' /\ Solo'
    OBVIOUS
  <2>1. Shape /\ LimitOK /\ TrustInv'
    BY TrustInvariant DEF TrustInv
  <2>2. [RecorderNext]_vars
    BY <2>1, TrustStep
  <2>3. Ledger'
    BY <2>1, <2>2, LedgerInvariant
  <2>4. Witnessed'
    BY <2>1, <2>2, WitnessedStep
  <2>5. Solo'
    BY <2>1, <2>2, SoloStep
  <2> QED BY <2>1, <2>3, <2>4, <2>5
<1>3. TrustInv /\ Ledger /\ Witnessed /\ Solo => OkIsComplete /\ LedgerIsExact /\ OneRecorder
  <2>1. TrustInv => Shape
    BY DEF TrustInv
  <2> QED BY <2>1, WitnessedImplies, LedgerImplies, SoloImplies
<1> QED BY <1>1, <1>2, <1>3, PTL DEF TrustSpec
=============================================================================
