---------------------------- MODULE MCTrafficProxy ----------------------------
(* TLC instance of TrafficProxy: one allowed host, and messages of every kind. *)
EXTENDS TrafficProxy, TLC

Message(host, port, head, framed, ends, path, body) ==
  [authority |-> [host |-> host, port |-> port],
   http |-> [head |-> head, framed |-> framed, size |-> 1, ends |-> ends, path |-> path, body |-> body]]

MCMessages == {
  Message("model.api", 443, "well formed", TRUE, TRUE, {}, {"prompt shape"}),
  Message("model.api", 443, "well formed", TRUE, FALSE, {}, {"prompt shape"}),
  Message("model.api", 443, "well formed", TRUE, TRUE, {"upload"}, {"transcript"})}

MCBlock == [kind |-> "object", extra |-> FALSE, hosts |-> <<"model.api">>]

MCChains == [active : BOOLEAN, anchored : BOOLEAN, authenticated : BOOLEAN]

Symmetry == Permutations(Clients) \cup Permutations(Handlers)
=============================================================================
