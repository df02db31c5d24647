----------------------------- MODULE TrafficProxy -----------------------------
(***************************************************************************)
(* The traffic recorder of one plan: start_traffic and stop_traffic of     *)
(* supervisor/traffic.py, the daemon they start and the handler threads of *)
(* its proxy (scripts/traffic.py).  Commands and daemons share the state   *)
(* file, the stop file and the evidence log; nothing locks the first two.  *)
(*                                                                         *)
(* A daemon is named by its PID; each start builds one session ID, and a   *)
(* PID is not used twice.  Each access to a shared file is a step of its   *)
(* own; an append to the log is one step (the evidence lock serialises it) *)
(* that may fail before or after the line is written.                      *)
(***************************************************************************)
EXTENDS TrafficRecords

CONSTANTS
  Clients,          \* processes in which an operator runs commands
  Handlers,         \* connections that are open at the same time
  Messages,         \* what applications send through the proxy
  Block,            \* the traffic block of the plan
  Chains,           \* the states the chain may be found in
  Authority,        \* whether commands install and remove the certificate authority
  MaxDaemons, MaxCommands, MaxRequests, MaxFaults   \* bounds

ASSUME BoundsAreNaturals == {MaxDaemons, MaxCommands, MaxRequests, MaxFaults} \subseteq Nat

\* start_traffic and the daemon refuse a plan without a contract, or with one that is not valid
ASSUME BlockIsContract == TrafficContract(Block).kind = "contract"

VARIABLES
  state,       \* state.json: who wrote it last and the PID it names
  stop,        \* whether stop.flag exists
  log,         \* the traffic records of this plan in the evidence log
  daemon,      \* where each daemon is in run_daemon
  signalled,   \* daemons whose handler has seen a signal
  captures,    \* TrafficProxy.captures of each daemon, as a count
  declared,    \* what each daemon counted for its closing record
  handler,     \* the connections
  client,      \* the commands
  forwarded,   \* what the upstream hosts were sent
  late,        \* daemons that counted while a connection was still open
  torn,        \* daemons one of whose appends raised after its line was written
  alone,       \* no command has overlapped another
  interrupted, \* a command was interrupted
  commands, requests, faults   \* how much of each bound is used

files      == <<state, stop, log>>
memory     == <<signalled, captures, declared, late>>
daemonVars == <<daemon, memory>>
history    == <<forwarded, torn, alone, interrupted>>
bounds     == <<commands, requests, faults>>
vars       == <<files, daemonVars, handler, client, history, bounds>>

Daemons == 1..MaxDaemons
Marks   == {"absent", "starting", "running", "stopped", "failed", "stale"}
States  == [mark : Marks, pid : 0..MaxDaemons]

Serving == {d \in Daemons : daemon[d] \in {"bound", "announced", "serving"}}
Alive(pid) == pid \in Daemons /\ daemon[pid] \notin {"unborn", "dead"}
Running(st) == st.mark = "running" /\ Alive(st.pid)

Fault == faults < MaxFaults /\ faults' = faults + 1
NoHandler == [at |-> "idle", daemon |-> 0, message |-> Nothing]
Phase(d, place) == daemon' = [daemon EXCEPT ![d] = place]

\* With a process go its memory and its connections
Dies(d) ==
  /\ Phase(d, "dead")
  /\ signalled' = [signalled EXCEPT ![d] = FALSE]
  /\ captures' = [captures EXCEPT ![d] = 0]
  /\ declared' = [declared EXCEPT ![d] = 0]
  /\ handler' = [h \in Handlers |-> IF handler[h].daemon = d THEN NoHandler ELSE handler[h]]

-----------------------------------------------------------------------------
(* A connection: _ProxyHandler.handle and TrafficProxy.serve_tunnel *)

Accept(h, d, m) ==
  /\ handler[h] = NoHandler
  /\ d \in Serving
  /\ requests < MaxRequests
  /\ handler' = [handler EXCEPT ![h] = [at |-> "open", daemon |-> d, message |-> m]]
  /\ requests' = requests + 1
  /\ UNCHANGED <<files, daemonVars, client, history, commands, faults>>

Parsed(m) ==
  LET authority == SplitAuthority(m.authority)
  IN IF authority = Nothing THEN Nothing ELSE ParseHttpRequest(authority.host, m.http)

Close(h) == handler' = [handler EXCEPT ![h] = NoHandler]

\* A bad CONNECT, a certificate that cannot be issued, a malformed request
Reject(h) ==
  /\ handler[h].at = "open"
  /\ Close(h)
  /\ UNCHANGED <<files, daemonVars, client, history, bounds>>

\* proxy.lock: one connection of a daemon at a time is inside record()
NoLock(h) == TRUE   \* mutant: record() without its lock
Unlocked(h) == \A k \in Handlers \ {h} : handler[k].daemon = handler[h].daemon => handler[k].at # "logged"

Entry(h) == RequestRecord(Parsed(handler[h].message), handler[h].daemon, captures[handler[h].daemon] + 1)

Record(h) ==
  /\ handler[h].at = "open"
  /\ Parsed(handler[h].message) # Nothing
  /\ Unlocked(h)
  /\ log' = Append(log, Entry(h))
  /\ handler' = [handler EXCEPT ![h].at = "logged"]
  /\ UNCHANGED <<state, stop, daemonVars, client, history, bounds>>

RecordFailsOpen(h) ==   \* mutant: a failed append does not stop the request
  /\ handler[h].at = "open"
  /\ Parsed(handler[h].message) # Nothing
  /\ Fault
  /\ handler' = [handler EXCEPT ![h].at = "recorded"]
  /\ UNCHANGED <<files, torn, daemonVars, client, forwarded, alone, interrupted, commands, requests>>

\* append_record raises, before or after its line is in the log: 502, nothing is forwarded
RecordFails(h) ==
  /\ handler[h].at = "open"
  /\ Parsed(handler[h].message) # Nothing
  /\ Unlocked(h)
  /\ Fault
  /\ \/ UNCHANGED <<log, torn>>
     \/ log' = Append(log, Entry(h)) /\ torn' = torn \cup {handler[h].daemon}
  /\ Close(h)
  /\ UNCHANGED <<state, stop, daemonVars, client, forwarded, alone, interrupted, commands, requests>>

Keep(h) ==
  /\ handler[h].at = "logged"
  /\ captures' = [captures EXCEPT ![handler[h].daemon] = @ + 1]
  /\ handler' = [handler EXCEPT ![h].at = "recorded"]
  /\ UNCHANGED <<files, daemon, signalled, declared, late, client, history, bounds>>

\* The upstream host may be unreachable: then the request was recorded for nothing
Forward(h) ==
  /\ handler[h].at = "recorded"
  /\ \/ forwarded' = forwarded \cup {[session |-> handler[h].daemon, message |-> handler[h].message]}
     \/ UNCHANGED forwarded
  /\ Close(h)
  /\ UNCHANGED <<files, daemonVars, client, torn, alone, interrupted, bounds>>

-----------------------------------------------------------------------------
(* run_daemon *)

\* ca.ensure and proxy.start: from here on connections are accepted
Bind(d) ==
  /\ daemon[d] = "born"
  /\ Phase(d, "bound")
  /\ UNCHANGED <<files, memory, handler, client, history, bounds>>

BindFails(d) ==
  /\ daemon[d] = "born"
  /\ state' = [mark |-> "failed", pid |-> d]
  /\ Phase(d, "dead")
  /\ UNCHANGED <<stop, log, memory, handler, client, history, bounds>>

Announce(d) ==
  /\ daemon[d] = "bound"
  /\ state' = [mark |-> "running", pid |-> d]
  /\ Phase(d, "announced")
  /\ UNCHANGED <<stop, log, memory, handler, client, history, bounds>>

\* Until the handlers are installed a signal ends the process on the spot
InstallHandlers(d) ==
  /\ daemon[d] = "announced"
  /\ Phase(d, "serving")
  /\ UNCHANGED <<files, memory, handler, client, history, bounds>>

StopRequested(d) == stop \/ signalled[d]

\* proxy.stop: no new connection, but the open ones are not waited for
StopServing(d) ==
  /\ daemon[d] = "serving"
  /\ StopRequested(d)
  /\ Phase(d, "draining")
  /\ UNCHANGED <<files, memory, handler, client, history, bounds>>

\* session_record is built from proxy.captures, which is read without the lock
CountCaptures(d) ==
  /\ daemon[d] = "draining"
  /\ declared' = [declared EXCEPT ![d] = captures[d]]
  /\ late' = IF \E h \in Handlers : handler[h].daemon = d /\ handler[h].at \in {"open", "logged"}
             THEN late \cup {d} ELSE late
  /\ Phase(d, "closing")
  /\ UNCHANGED <<files, signalled, captures, handler, client, history, bounds>>

AppendClosing(d) ==
  /\ daemon[d] = "closing"
  /\ log' = Append(log, SessionRecord(d, declared[d]))
  /\ Phase(d, "closed")
  /\ UNCHANGED <<state, stop, memory, handler, client, history, bounds>>

ClosingFails(d) ==
  /\ daemon[d] = "closing"
  /\ Fault
  /\ \/ UNCHANGED <<log, torn>>
     \/ log' = Append(log, SessionRecord(d, declared[d])) /\ torn' = torn \cup {d}
  /\ Phase(d, "unclosed")
  /\ UNCHANGED <<state, stop, memory, handler, client, forwarded, alone, interrupted, commands, requests>>

WriteStopped(d) ==
  /\ daemon[d] \in {"closed", "unclosed"}
  /\ state' = [mark |-> IF daemon[d] = "closed" THEN "stopped" ELSE "failed", pid |-> d]
  /\ Phase(d, "halted")
  /\ UNCHANGED <<stop, log, memory, handler, client, history, bounds>>

\* The stop file goes last, whoever wrote it, and with the process its connections
Exit(d) ==
  /\ daemon[d] = "halted"
  /\ stop' = FALSE
  /\ Dies(d)
  /\ UNCHANGED <<state, log, late, client, history, bounds>>

\* SIGTERM from a command; a daemon that has handlers only notes it
Signal(d) ==
  IF daemon[d] \in {"born", "bound", "announced"} THEN Dies(d)
  ELSE /\ signalled' = [signalled EXCEPT ![d] = Alive(d)]
       /\ UNCHANGED <<daemon, captures, declared, handler>>

Kill(d) ==
  /\ Alive(d)
  /\ Fault
  /\ Dies(d)
  /\ UNCHANGED <<files, late, client, history, commands, requests>>

-----------------------------------------------------------------------------
(* Commands *)

Answers == {"none", "stopped"}

At(place, pid) == [at |-> place, pid |-> pid, seen |-> "absent", answer |-> "none"]

\* A command that finds another one open overlaps it
Begin(c, step) ==
  /\ client[c].at = "idle"
  /\ commands < MaxCommands
  /\ commands' = commands + 1
  /\ client' = [k \in Clients |-> IF k = c THEN step ELSE [client[k] EXCEPT !.answer = "none"]]
  /\ alone' = (alone /\ \A k \in Clients : client[k].at = "idle")

Goes(c, place) == client' = [client EXCEPT ![c].at = place]
Returns(c, answer) == client' = [client EXCEPT ![c] = [At("idle", 0) EXCEPT !.answer = answer]]

\* The stop is over; with --remove-ca the authority is removed next
Stopped(c) ==
  \/ Returns(c, "stopped")
  \/ Authority /\ client' = [client EXCEPT ![c] = At("removing", 0)]

commandIdle == <<handler, forwarded, torn, interrupted, requests, faults>>

(* start_traffic *)

NotRunning == ~Running(state)

StartCommand(c) ==
  /\ NotRunning
  /\ Begin(c, At("checked", 0))
  /\ UNCHANGED <<files, daemonVars, commandIdle>>

AlreadyRunning(c) ==
  /\ Running(state)
  /\ Begin(c, [At("idle", 0) EXCEPT !.answer = "none"])
  /\ UNCHANGED <<files, daemonVars, commandIdle>>

\* The authority is there: the marker of an earlier stop goes
CleanStop(c) ==
  /\ client[c].at = "checked"
  /\ stop' = FALSE
  /\ Goes(c, "cleaned")
  /\ UNCHANGED <<state, log, daemonVars, alone, commands, commandIdle>>

WriteStarting(c) ==
  /\ client[c].at = "cleaned"
  /\ state' = [mark |-> "starting", pid |-> 0]
  /\ Goes(c, "written")
  /\ UNCHANGED <<stop, log, daemonVars, alone, commands, commandIdle>>

Spawn(c, d) ==
  /\ client[c].at = "written"
  /\ daemon[d] = "unborn"
  /\ \A e \in 1..(d - 1) : daemon[e] # "unborn"
  /\ Phase(d, "born")
  /\ client' = [client EXCEPT ![c].at = "waiting", ![c].pid = d]
  /\ UNCHANGED <<files, memory, alone, commands, commandIdle>>

SpawnFails(c) ==
  /\ client[c].at = "written"
  /\ Returns(c, "none")
  /\ UNCHANGED <<files, daemonVars, alone, commands, commandIdle>>

Ready(c) ==
  /\ client[c].at = "waiting"
  /\ Alive(client[c].pid)
  /\ state = [mark |-> "running", pid |-> client[c].pid]
  /\ Returns(c, "none")
  /\ UNCHANGED <<files, daemonVars, alone, commands, commandIdle>>

GiveUpSilently(c) ==   \* mutant: the child is left to itself
  /\ client[c].at = "waiting"
  /\ Returns(c, "none")
  /\ UNCHANGED <<files, daemonVars, alone, commands, commandIdle>>

\* The child ended, or the deadline passed: terminate() if it is still there
GiveUp(c) ==
  /\ client[c].at = "waiting"
  /\ Signal(client[c].pid)
  /\ Returns(c, "none")
  /\ UNCHANGED <<files, late, history, bounds>>

(* stop_traffic *)

\* No state, or one that names no running daemon: the command is done
NothingToStop(c) ==
  /\ state.mark # "running"
  /\ \/ Begin(c, [At("idle", 0) EXCEPT !.answer = IF state.mark = "absent" THEN "none" ELSE "stopped"])
     \/ Authority /\ state.mark # "absent" /\ Begin(c, At("removing", 0))
  /\ UNCHANGED <<files, daemonVars, commandIdle>>

StopCommand(c) ==
  /\ state.mark = "running"
  /\ Begin(c, At(IF Running(state) THEN "asking" ELSE "marking", state.pid))
  /\ UNCHANGED <<files, daemonVars, commandIdle>>

\* _mark_stale writes back what the command read
MarkStale(c) ==
  /\ client[c].at = "marking"
  /\ state' = [mark |-> "stale", pid |-> client[c].pid]
  /\ Stopped(c)
  /\ UNCHANGED <<stop, log, daemonVars, alone, commands, commandIdle>>

WriteStop(c) ==
  /\ client[c].at = "asking"
  /\ stop' = TRUE
  /\ Goes(c, "first wait")
  /\ UNCHANGED <<state, log, daemonVars, alone, commands, commandIdle>>

Waits == {"first wait", "second wait"}

\* _wait_stopped: the daemon's own word, or its death and a state that is not running
StopSeen(c) ==
  /\ client[c].at \in Waits
  /\ state.mark # "running"
  /\ state.pid = client[c].pid \/ ~Alive(client[c].pid)
  /\ Stopped(c)
  /\ UNCHANGED <<files, daemonVars, alone, commands, commandIdle>>

EscalateGently(c) ==   \* mutant: no signal after the stop file
  /\ client[c].at = "first wait"
  /\ Goes(c, "second wait")
  /\ UNCHANGED <<files, daemonVars, alone, commands, commandIdle>>

\* Time is up, or the daemon died and left a running state behind
Escalate(c) ==
  /\ client[c].at = "first wait"
  /\ Signal(client[c].pid)
  /\ Goes(c, "second wait")
  /\ UNCHANGED <<files, late, history, bounds>>

NotStopped(c) ==
  /\ client[c].at = "second wait"
  /\ Returns(c, "none")
  /\ UNCHANGED <<files, daemonVars, alone, commands, commandIdle>>

\* A start or a command of TrafficTrust ends on an error of the authority
AuthorityFails(c) ==
  /\ client[c].at \in {"checked", "installing", "removing", "removing only"}
  /\ Returns(c, "none")
  /\ UNCHANGED <<files, daemonVars, alone, commands, commandIdle>>

Interrupt(c) ==
  /\ client[c].at # "idle"
  /\ Fault
  /\ Returns(c, "none")
  /\ interrupted' = TRUE
  /\ UNCHANGED <<files, daemonVars, handler, forwarded, torn, alone, commands, requests>>

-----------------------------------------------------------------------------
Init ==
  /\ state = [mark |-> "absent", pid |-> 0]
  /\ stop = FALSE
  /\ log = <<>>
  /\ daemon = [d \in Daemons |-> "unborn"]
  /\ signalled = [d \in Daemons |-> FALSE]
  /\ captures = [d \in Daemons |-> 0]
  /\ declared = [d \in Daemons |-> 0]
  /\ late = {} /\ forwarded = {} /\ torn = {}
  /\ handler = [h \in Handlers |-> NoHandler]
  /\ client = [c \in Clients |-> At("idle", 0)]
  /\ alone = TRUE /\ interrupted = FALSE
  /\ commands = 0 /\ requests = 0 /\ faults = 0

Connection(h) ==
  \/ \E d \in Daemons, m \in Messages : Accept(h, d, m)
  \/ Reject(h) \/ Record(h) \/ RecordFails(h) \/ Keep(h) \/ Forward(h)

\* What run_daemon does by itself
Main(d) ==
  \/ Bind(d) \/ Announce(d) \/ InstallHandlers(d) \/ StopServing(d)
  \/ CountCaptures(d) \/ AppendClosing(d) \/ WriteStopped(d) \/ Exit(d)

Trouble(d) == BindFails(d) \/ ClosingFails(d) \/ Kill(d)

Opens(c) == StartCommand(c) \/ AlreadyRunning(c) \/ NothingToStop(c) \/ StopCommand(c)

Proceeds(c) ==
  \/ CleanStop(c) \/ WriteStarting(c) \/ SpawnFails(c) \/ Ready(c) \/ GiveUp(c)
  \/ \E d \in Daemons : Spawn(c, d)
  \/ MarkStale(c) \/ WriteStop(c) \/ StopSeen(c) \/ Escalate(c) \/ NotStopped(c)
  \/ AuthorityFails(c)

Next ==
  \/ \E h \in Handlers : Connection(h)
  \/ \E d \in Daemons : Main(d) \/ Trouble(d)
  \/ \E c \in Clients : Opens(c) \/ Proceeds(c) \/ Interrupt(c)

\* The main loop of a daemon polls its stop condition; the waits of a command end
Fairness ==
  /\ \A d \in Daemons : WF_vars(Main(d))
  /\ \A c \in Clients : WF_vars(Proceeds(c))

Spec == Init /\ [][Next]_vars /\ Fairness

-----------------------------------------------------------------------------
(* Properties *)

TypeOK ==
  /\ state \in States
  /\ stop \in BOOLEAN
  /\ daemon \in [Daemons -> {"unborn", "born", "bound", "announced", "serving", "draining",
                             "closing", "closed", "unclosed", "halted", "dead"}]
  /\ signalled \in [Daemons -> BOOLEAN]
  /\ captures \in [Daemons -> Nat]
  /\ declared \in [Daemons -> Nat]
  /\ handler \in [Handlers -> {NoHandler} \cup
                    [at : {"open", "logged", "recorded"}, daemon : Daemons, message : Messages]]
  /\ client \in [Clients -> [at : {"idle", "checked", "cleaned", "written", "waiting", "marking", "asking",
                                    "installing", "removing", "removing only", "rewriting"} \cup Waits,
                             seen : Marks, pid : 0..MaxDaemons, answer : Answers]]
  /\ late \subseteq Daemons /\ torn \subseteq Daemons
  /\ alone \in BOOLEAN /\ interrupted \in BOOLEAN
  /\ forwarded \subseteq [session : Daemons, message : Messages]

Allowed == TrafficContract(Block).allowed

\* When the completion gate accepts the traffic of a plan, everything that left
\* through the proxy is in the log, came in whole, went to an allowed host, was no
\* upload of a transcript, and belongs to a session that was closed with its count:
\* however daemons, connections and commands interleave, die or fail.
OkIsComplete ==
  \A chain \in Chains :
    EvaluateTraffic(Block, log, chain).ok =>
      \A f \in forwarded :
        LET http == f.message.http
            host == f.message.authority.host
        IN /\ host \in Allowed
           /\ http.framed => http.ends
           /\ "transcript" \notin http.path
           /\ ~(http.framed /\ "transcript" \in http.body /\ "upload" \in http.path)
           /\ \E i \in RequestsOf(log, f.session) : log[i].host = host
           /\ \E s \in SessionRecords(log) :
                s.session = f.session /\ s.requests = Observed(log, f.session)

\* Unless an append raised after it had written, the requests of a session are
\* numbered without gap or repetition in the order of the log, and its closing record
\* counts them all if no connection was open when it was made.
LedgerIsExact ==
  \A d \in Daemons \ torn :
    /\ \A i \in RequestsOf(log, d) : log[i].seq = Cardinality({j \in RequestsOf(log, d) : j <= i})
    /\ d \notin late => \A s \in SessionRecords(log) : s.session = d => s.requests = Observed(log, d)

\* As long as commands do not overlap and none is interrupted, at most one daemon
\* accepts connections, whatever died before, and none does once the last command
\* has answered that the recorder is stopped.
OneRecorder ==
  alone /\ ~interrupted =>
           /\ Cardinality(Serving) <= 1
           /\ (\E c \in Clients : client[c].answer = "stopped") => Serving = {}

\* A stop command that found a daemon ends it, even if the daemon of an earlier
\* session removes the stop file late.
StopEnds ==
  \A d \in Daemons :
    (\E c \in Clients : client[c].at = "first wait" /\ client[c].pid = d)
      ~> (d \notin Serving \/ ~alone \/ interrupted)
=============================================================================
