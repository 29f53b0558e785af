---------------------------- MODULE MCWebSession ----------------------------
(* Two fetches at once; the neighbour behind a proxy the server knows, and behind
   one it does not. *)
EXTENDS WebSession

CONSTANTS f1, f2, mine, theirs, proxy, nat

MCFetches   == {f1, f2}
MCAddresses == {mine, theirs, proxy, nat}
MCTrusted   == {proxy}
MCNetworks  == {[route |-> <<proxy>>, mine |-> mine, theirs |-> theirs],
                [route |-> <<nat, proxy>>, mine |-> mine, theirs |-> theirs]}
=============================================================================
