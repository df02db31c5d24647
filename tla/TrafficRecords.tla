---------------------------- MODULE TrafficRecords ----------------------------
(***************************************************************************)
(* The pure part of the traffic evidence: scripts/traffic.py parses and    *)
(* classifies a request, builds the two kinds of records and audits them   *)
(* against the hosts the plan allows; supervisor/traffic.py adds the state *)
(* of the chain and turns the outcome into what the completion gate and    *)
(* the exit code say.                                                      *)
(*                                                                         *)
(* A request keeps what the outcome tells apart: its host and the markers  *)
(* in its path and in the part of its body that is scanned.  Counts by     *)
(* day, host and class, masked secrets and detected names are left out.    *)
(***************************************************************************)
EXTENDS Integers, FiniteSets, Sequences, SequencesExt

CONSTANTS
  Hosts,            \* the host names that occur
  TelemetryHosts,   \* those with a telemetry marker in the name
  ModelHosts,       \* the model APIs that are known by name
  MaxAllowedHosts,  \* MAX_ALLOWED_HOSTS
  MaxBody           \* MAX_BODY_BYTES

BodyMarks == {"transcript", "tool result", "prompt shape"}
PathMarks == {"transcript", "upload", "telemetry", "model"}
Classes   == {"transcript upload", "telemetry", "tool result", "prompt", "unknown"}

Nothing == [kind |-> "nothing"]

-----------------------------------------------------------------------------
(* The traffic block of a plan *)

\* A name in allowed_hosts that is no host name: empty, or with a scheme, port or path
BadName == "bad name"

ContractErrors(block) ==
  {error \in {"shape", "unknown key", "no hosts", "too many", "bad host"} :
     CASE error = "shape"       -> block.kind # "object"
       [] error = "unknown key" -> block.kind = "object" /\ block.extra
       [] error = "no hosts"    -> block.kind = "object" /\ block.hosts = <<>>
       [] error = "too many"    -> block.kind = "object" /\ Len(block.hosts) > MaxAllowedHosts
       [] error = "bad host"    -> block.kind = "object" /\ Contains(block.hosts, BadName)}

\* None without a block, ValueError on a bad one, otherwise a set of lower-case names
TrafficContract(block) ==
  IF block.kind = "absent" THEN [kind |-> "none"]
  ELSE IF ContractErrors(block) # {} THEN [kind |-> "invalid"]
  ELSE [kind |-> "contract", allowed |-> ToSet(block.hosts)]

-----------------------------------------------------------------------------
(* A tunnel as it comes in: the authority of CONNECT, then one HTTP request *)

Ports == 1..65535

SplitAuthority(target) ==
  IF target.host = "" \/ target.port \notin Ports
  THEN Nothing
  ELSE [kind |-> "authority", host |-> target.host]

\* Chunked or with a Content-Length: a body that ends early is an error, never a
\* shorter body
BodyArrives(http) == http.framed => http.size \in 0..MaxBody /\ http.ends

\* What the tunnel hands on, or Nothing: the connection was closed, or a
\* ProxyError closes it
ParseHttpRequest(host, http) ==
  IF http.head # "well formed" \/ ~BodyArrives(http)
  THEN Nothing
  ELSE [kind |-> "request", host |-> host, path |-> http.path,
        body |-> IF http.framed THEN http.body ELSE {}]

-----------------------------------------------------------------------------
(* classify_request: the first rule that applies *)

TranscriptUpload(r) ==
  \/ "transcript" \in r.path
  \/ "transcript" \in r.body /\ "upload" \in r.path

ClassifyRequest(r) ==
  IF TranscriptUpload(r) THEN "transcript upload"
  ELSE IF r.host \in TelemetryHosts \/ "telemetry" \in r.path THEN "telemetry"
  ELSE IF "tool result" \in r.body THEN "tool result"
  ELSE IF r.host \in ModelHosts \/ "model" \in r.path \/ "prompt shape" \in r.body THEN "prompt"
  ELSE "unknown"

RequestRecord(r, session, seq) ==
  [mode |-> "request", session |-> session, seq |-> seq,
   host |-> r.host, class |-> ClassifyRequest(r)]

SessionRecord(session, captures) ==
  [mode |-> "session", session |-> session, requests |-> captures]

-----------------------------------------------------------------------------
(* audit_records *)

RequestRecords(records) == {r \in ToSet(records) : r.mode = "request"}
SessionRecords(records) == {r \in ToSet(records) : r.mode = "session"}

\* The places of the requests of a session
RequestsOf(records, session) ==
  {i \in DOMAIN records : records[i].mode = "request" /\ records[i].session = session}

Observed(records, session) == Cardinality(RequestsOf(records, session))

Violations(records, allowed) ==
  {r \in RequestRecords(records) : r.host \notin allowed \/ r.class = "transcript upload"}

CountMismatches(records) ==
  {s \in SessionRecords(records) : s.requests # Observed(records, s.session)}

\* Sessions with requests and no closing record
OrphanSessions(records) ==
  {r.session : r \in RequestRecords(records)} \ {s.session : s \in SessionRecords(records)}

AuditRecords(records, allowed) ==
  IF \/ SessionRecords(records) = {}
     \/ CountMismatches(records) # {}
     \/ OrphanSessions(records) # {}
  THEN "INCOMPLETE"
  ELSE IF Violations(records, allowed) # {} THEN "VIOLATION"
  ELSE IF RequestRecords(records) = {} THEN "SILENT"
  ELSE "OK"

-----------------------------------------------------------------------------
(* build_traffic_report, and what the gate and the exit code make of it *)

\* chain.active, chain.anchored and chain.authenticated as _chain_state reads them
BuildTrafficReport(block, records, chain) ==
  LET contract == TrafficContract(block)
  IN CASE contract.kind = "invalid" -> "INVALID"
       [] contract.kind = "none"    -> "NOT_CONFIGURED"
       [] contract.kind = "contract" ->
            IF ~chain.active \/ ~chain.anchored THEN "TAMPERED"
            ELSE IF ~chain.authenticated THEN "UNVERIFIED"
            ELSE AuditRecords(records, contract.allowed)

\* TrafficCheck: whether the completion gate asks for traffic, and whether it passes
EvaluateTraffic(block, records, chain) ==
  LET contract == TrafficContract(block)
  IN IF contract.kind = "none" THEN [required |-> FALSE, ok |-> TRUE]
     ELSE [required |-> TRUE, ok |-> BuildTrafficReport(block, records, chain) = "OK"]

GateOutcomes == {"TAMPERED", "UNVERIFIED", "NOT_CONFIGURED", "INCOMPLETE"}

ReportExitCode(outcome) ==
  IF outcome = "OK" THEN 0 ELSE IF outcome \in GateOutcomes THEN 2 ELSE 1
=============================================================================
