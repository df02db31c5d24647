----------------------------- MODULE TrafficTrust -----------------------------
(***************************************************************************)
(* The certificate authority of the traffic recorder and the trust the     *)
(* system puts in it, under the commands and daemons of TrafficProxy:      *)
(* CertificateAuthority, install_trust and uninstall_trust of              *)
(* scripts/traffic.py, install_ca and remove_ca of supervisor/traffic.py   *)
(* and the parts of start_traffic and stop_traffic between which they run. *)
(*                                                                         *)
(* The key and the certificate are two files, and the trust store is the   *)
(* system's: nothing makes a step on both of them atomic, and trust.json   *)
(* is all the program knows of what it has installed.                      *)
(***************************************************************************)
EXTENDS TrafficProxy

CONSTANTS
  SingleSlot,   \* the store keeps one certificate of the program (Linux), not one per certificate
  MaxCerts,     \* bound on generated certificates
  Limits        \* bounds that go together: [clients, daemons, handlers], who runs commands, how
                \* many daemons they get to start and which connections there are

ASSUME CertsAreNatural == MaxCerts \in Nat

ASSUME LimitsAreWithin ==
  Limits \subseteq [clients : SUBSET Clients, daemons : 0..MaxDaemons, handlers : SUBSET Handlers]

VARIABLES
  key,        \* whether ca.key.pem exists
  cert,       \* the certificate in ca.crt.pem, 0 if there is none
  generated,  \* how many certificates were generated
  trusted,    \* the certificates of the program that the system trusts
  marker,     \* the certificate that trust.json names, 0 if there is none
  step,       \* where each command is with the authority
  failedTool, \* a tool of the trust store reported a failure
  limit       \* the bounds of this behaviour

caVars    == <<key, cert, generated, trusted, marker, failedTool>>
trustVars == <<caVars, step, limit>>
allVars   == <<vars, trustVars>>

Whole == key /\ cert # 0
Gone  == ~key /\ cert = 0

InPlace(c, places) == client[c].at \in places
Steps(c, place) == step' = [step EXCEPT ![c] = place] /\ UNCHANGED limit

\* The command ends with an error and leaves the files as they are
Fails(c) == AuthorityFails(c) /\ Steps(c, "none")
ProxyStays == UNCHANGED vars

-----------------------------------------------------------------------------
(* The authority on its own, and how a stop ends that removes it *)

AuthorityCommand(c) ==
  /\ \E place \in {"installing", "removing only"} : Begin(c, At(place, 0))
  /\ UNCHANGED <<files, daemonVars, commandIdle>>

AuthorityDone(c) ==
  /\ client[c].at \in {"installing", "removing only"}
  /\ Returns(c, "none")
  /\ UNCHANGED <<files, daemonVars, alone, commands, commandIdle>>

\* stop --remove-ca ends with the state read again ...
ReadAgain(c) ==
  /\ client[c].at = "removing"
  /\ client' = [client EXCEPT ![c] = [At("rewriting", state.pid) EXCEPT !.seen = state.mark]]
  /\ UNCHANGED <<files, daemonVars, alone, commands, commandIdle>>

\* ... and written back
WriteAgain(c) ==
  /\ client[c].at = "rewriting"
  /\ state' = [mark |-> client[c].seen, pid |-> client[c].pid]
  /\ Returns(c, "stopped")
  /\ UNCHANGED <<stop, log, daemonVars, alone, commands, commandIdle>>

-----------------------------------------------------------------------------
(* CertificateAuthority.ensure, for a command *)

Ensuring(c) == InPlace(c, {"checked", "installing"}) /\ step[c] = "none"

EnsureKept(c) ==
  /\ Ensuring(c)
  /\ Whole
  /\ Steps(c, "ensured")
  /\ ProxyStays /\ UNCHANGED caVars

\* One of the two files is missing
EnsureRefused(c) ==
  /\ Ensuring(c)
  /\ ~Whole /\ ~Gone
  /\ Fails(c) /\ UNCHANGED caVars

MakeKey(c) ==
  /\ Ensuring(c)
  /\ Gone
  /\ key' = TRUE
  /\ Steps(c, "keyed")
  /\ ProxyStays /\ UNCHANGED <<cert, generated, trusted, marker, failedTool>>

MakeCert(c) ==
  /\ step[c] = "keyed"
  /\ key
  /\ generated < MaxCerts
  /\ cert' = generated + 1
  /\ generated' = generated + 1
  /\ Steps(c, "ensured")
  /\ ProxyStays /\ UNCHANGED <<key, trusted, marker, failedTool>>

MakeCertFails(c) ==
  /\ step[c] = "keyed"
  /\ Fails(c) /\ UNCHANGED caVars

\* The daemon's own ensure, and the one in issue() of every connection, which comes
\* upon an authority that a command has removed
Regenerate ==
  /\ Gone
  /\ generated < MaxCerts
  /\ cert' = generated + 1
  /\ generated' = generated + 1
  /\ key' = TRUE
  /\ UNCHANGED <<trusted, marker, failedTool, step, limit>>

BindWithAuthority(d) ==
  /\ Bind(d)
  /\ \/ Whole /\ UNCHANGED trustVars
     \/ Regenerate

Issue(h) ==
  /\ handler[h].at = "open"
  /\ Regenerate
  /\ ProxyStays

-----------------------------------------------------------------------------
(* install_trust and the marker *)

AddTrust(c) ==
  /\ step[c] = "ensured"
  /\ cert # 0
  /\ trusted' = IF SingleSlot THEN {cert} ELSE trusted \cup {cert}
  /\ Steps(c, "added")
  /\ ProxyStays /\ UNCHANGED <<key, cert, generated, marker, failedTool>>

VerifyTrust(c) ==
  /\ step[c] = "added"
  /\ Steps(c, "verified")
  /\ ProxyStays /\ UNCHANGED caVars

\* The store refuses, or took it and the verification fails: no marker either way
TrustFails(c) ==
  /\ step[c] \in {"ensured", "added"}
  /\ failedTool' = TRUE
  /\ Fails(c) /\ UNCHANGED <<key, cert, generated, trusted, marker>>

\* The fingerprint of the certificate as it is now
MarkTrust(c) ==
  /\ step[c] = "verified"
  /\ cert # 0
  /\ marker' = cert
  /\ Steps(c, "installed")
  /\ ProxyStays /\ UNCHANGED <<key, cert, generated, trusted, failedTool>>

MarkFails(c) ==
  /\ step[c] = "verified"
  /\ cert = 0
  /\ Fails(c) /\ UNCHANGED caVars

\* A start goes on with or without installing; install_ca ends
AfterEnsure(c) ==
  /\ \/ step[c] \in {"ensured", "installed"} /\ CleanStop(c)
     \/ step[c] = "installed" /\ client[c].at = "installing" /\ AuthorityDone(c)
  /\ Steps(c, "none")
  /\ UNCHANGED caVars

-----------------------------------------------------------------------------
(* remove_ca, and stop_traffic with remove_ca *)

Removing(c) == InPlace(c, {"removing", "removing only"}) /\ step[c] = "none"

NoMarker(c) ==
  /\ Removing(c)
  /\ marker = 0
  /\ Steps(c, "unmarked")
  /\ ProxyStays /\ UNCHANGED caVars

\* An install marker and no certificate: nothing is touched
RemovalRefused(c) ==
  /\ Removing(c)
  /\ marker # 0 /\ cert = 0
  /\ Fails(c) /\ UNCHANGED caVars

Withdrawn == IF SingleSlot THEN {} ELSE trusted \ {cert}

\* uninstall_trust: the tool says yes and the store no longer has the certificate
Untrust(c) ==
  /\ Removing(c)
  /\ marker # 0 /\ cert # 0
  /\ trusted' = Withdrawn
  /\ Steps(c, "untrusted")
  /\ ProxyStays /\ UNCHANGED <<key, cert, generated, marker, failedTool>>

UntrustFailsOnward(c) ==   \* mutant: the files go although the trust stays
  /\ Removing(c)
  /\ marker # 0 /\ cert # 0
  /\ failedTool' = TRUE
  /\ Steps(c, "unmarked")
  /\ ProxyStays /\ UNCHANGED <<key, cert, generated, trusted, marker>>

\* It fails before or after the store has changed: the files are kept for a retry
UntrustFails(c) ==
  /\ Removing(c)
  /\ marker # 0 /\ cert # 0
  /\ trusted' \in {trusted, Withdrawn}
  /\ failedTool' = TRUE
  /\ Fails(c) /\ UNCHANGED <<key, cert, generated, marker>>

UnlinkMarker(c) ==
  /\ step[c] = "untrusted"
  /\ marker' = 0
  /\ Steps(c, "unmarked")
  /\ ProxyStays /\ UNCHANGED <<key, cert, generated, trusted, failedTool>>

\* remove() deletes in reverse order of the names: leafs, key, certificate
RemoveKey(c) ==
  /\ step[c] = "unmarked"
  /\ key' = FALSE
  /\ Steps(c, "keyless")
  /\ ProxyStays /\ UNCHANGED <<cert, generated, trusted, marker, failedTool>>

RemoveCert(c) ==
  /\ step[c] = "keyless"
  /\ cert' = 0
  /\ Steps(c, "removed")
  /\ ProxyStays /\ UNCHANGED <<key, generated, trusted, marker, failedTool>>

\* The check at the end, in which a connection's new authority shows up
AfterRemoval(c) ==
  /\ step[c] = "removed"
  /\ IF Gone THEN AuthorityDone(c) \/ ReadAgain(c) ELSE AuthorityFails(c)
  /\ Steps(c, "none")
  /\ UNCHANGED caVars

-----------------------------------------------------------------------------
TrustInit ==
  /\ Init
  /\ key = FALSE /\ cert = 0 /\ generated = 0
  /\ trusted = {} /\ marker = 0
  /\ step = [c \in Clients |-> "none"]
  /\ failedTool = FALSE
  /\ limit \in Limits

WithAuthority(c) ==
  \/ EnsureKept(c) \/ EnsureRefused(c) \/ MakeKey(c) \/ MakeCert(c) \/ MakeCertFails(c)
  \/ AddTrust(c) \/ VerifyTrust(c) \/ TrustFails(c) \/ MarkTrust(c) \/ MarkFails(c)
  \/ AfterEnsure(c)
  \/ NoMarker(c) \/ RemovalRefused(c) \/ Untrust(c) \/ UntrustFails(c)
  \/ UnlinkMarker(c) \/ RemoveKey(c) \/ RemoveCert(c) \/ AfterRemoval(c)

\* The steps of a command that are no business of the authority
Elsewhere(c) ==
  /\ \/ WriteStarting(c) \/ SpawnFails(c) \/ Ready(c) \/ GiveUp(c)
     \/ \E d \in 1..limit.daemons : Spawn(c, d)
     \/ MarkStale(c) \/ WriteStop(c) \/ StopSeen(c) \/ Escalate(c) \/ NotStopped(c)
     \/ WriteAgain(c)
  /\ UNCHANGED trustVars

DaemonSteps(d) ==
  \/ BindWithAuthority(d)
  \/ /\ Announce(d) \/ InstallHandlers(d) \/ StopServing(d)
        \/ CountCaptures(d) \/ AppendClosing(d) \/ WriteStopped(d) \/ Exit(d)
     /\ UNCHANGED trustVars

TrustNext ==
  \/ \E h \in limit.handlers : Connection(h) /\ UNCHANGED trustVars
  \/ \E h \in limit.handlers : Issue(h)
  \/ \E d \in Daemons : DaemonSteps(d)
  \/ \E d \in Daemons : Trouble(d) /\ UNCHANGED trustVars
  \/ \E c \in limit.clients : WithAuthority(c) \/ Elsewhere(c)
  \/ \E c \in limit.clients : (Opens(c) \/ AuthorityCommand(c)) /\ UNCHANGED trustVars
  \/ \E c \in limit.clients : Interrupt(c) /\ Steps(c, "none") /\ UNCHANGED caVars

\* The main loop of a daemon polls its stop condition; the waits of a command end
TrustFairness ==
  /\ \A d \in Daemons : WF_allVars(DaemonSteps(d) \/ (BindFails(d) /\ UNCHANGED trustVars))
  /\ WF_allVars(\E c \in limit.clients : WithAuthority(c) \/ Elsewhere(c))

TrustSpec == TrustInit /\ [][TrustNext]_allVars /\ TrustFairness

-----------------------------------------------------------------------------
(* Properties *)

TrustTypeOK ==
  /\ TypeOK
  /\ key \in BOOLEAN /\ failedTool \in BOOLEAN
  /\ cert \in 0..MaxCerts /\ generated \in 0..MaxCerts /\ marker \in 0..MaxCerts
  /\ trusted \subseteq 1..MaxCerts
  /\ step \in [Clients -> {"none", "keyed", "ensured", "added", "verified", "installed",
                           "untrusted", "unmarked", "keyless", "removed"}]

\* As long as commands do not overlap, what the marker names can be withdrawn: the
\* certificate is still there, whatever was interrupted or failed and whatever a
\* running daemon generates anew.  If no tool failed and no command was interrupted
\* the marker also tells the truth whenever no command is open.
TrustIsRemovable ==
  alone =>
    /\ marker # 0 => marker = cert
    /\ ~failedTool /\ ~interrupted /\ (\A c \in Clients : client[c].at = "idle") =>
         trusted = {marker} \ {0}
=============================================================================
