----------------------------- MODULE MCNetStack -----------------------------
(***************************************************************************)
(* Three neighbours and a cache that holds one; two servers, one of which   *)
(* leaves siaddr 0; one name on the net and one beyond it, in a table of    *)
(* two.                                                                     *)
(***************************************************************************)
EXTENDS NetStack

CONSTANTS gw, near, other, far, zero, broadcast, us, us2, mine

MCDefault == [ip |-> mine, gateway |-> gw, net |-> {gw, near}]
MCNamed == [ip |-> us, gateway |-> other, net |-> {other}, server |-> other, siaddr |-> other]
MCSilent == [ip |-> us2, gateway |-> gw, net |-> {gw}, server |-> gw, siaddr |-> zero]
MCLeases == {MCNamed, MCSilent}
MCZone == {<<"near", near>>, <<"far", far>>}
MCTraffic ==
  {[senders |-> {near, other}, asks |-> FALSE, ip |-> FALSE, dns |-> TRUE,
    names |-> {"near", "far"}, leases |-> {MCNamed}, loss |-> FALSE, commands |-> 0],
   [senders |-> {near}, asks |-> TRUE, ip |-> TRUE, dns |-> FALSE,
    names |-> {"far"}, leases |-> {MCNamed}, loss |-> TRUE, commands |-> 0],
   [senders |-> {}, asks |-> FALSE, ip |-> FALSE, dns |-> FALSE,
    names |-> {}, leases |-> MCLeases, loss |-> FALSE, commands |-> 1]}
=============================================================================
