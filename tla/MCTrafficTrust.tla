---------------------------- MODULE MCTrafficTrust ----------------------------
(* TLC instance of TrafficTrust: the connections matter for what they make a daemon do. *)
EXTENDS TrafficTrust, TLC

MCMessages == {
  [authority |-> [host |-> "model.api", port |-> 443],
   http |-> [head |-> "well formed", framed |-> FALSE, size |-> 0, ends |-> TRUE, path |-> {}, body |-> {}]]}

MCBlock == [kind |-> "object", extra |-> FALSE, hosts |-> <<"model.api">>]

MCChains == {[active |-> TRUE, anchored |-> TRUE, authenticated |-> TRUE]}

\* Commands one after the other without and with connections, and commands that
\* overlap without a daemon
One == {CHOOSE c \in Clients : TRUE}

MCLimits == {[clients |-> One, daemons |-> 2, handlers |-> {}],
             [clients |-> One, daemons |-> 1, handlers |-> Handlers],
             [clients |-> Clients, daemons |-> 0, handlers |-> {}]}
=============================================================================
