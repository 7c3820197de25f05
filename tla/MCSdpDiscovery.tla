---------------------------- MODULE MCSdpDiscovery ----------------------------
(* An instance of SdpDiscovery for TLC: the record of the server itself and   *)
(* those of one more class; searches for its own class, for everything and with  *)
(* a pattern too long; sizes as in the code, with a smaller response buffer.  *)
EXTENDS SdpDiscovery, TLC

CONSTANTS d1, d2, sdp, audio

Devices == Permutations({d1, d2} \cap Device)

Attributes == {"handle", "state", "class", "name", "psm", "version"}
Sizes == [handle |-> 5, state |-> 5, class |-> 18, name |-> 12, psm |-> 3, version |-> 3]
Patterns == {<<>>, <<sdp>>, <<sdp, audio>>}
ClassLists == {{}, {sdp, audio}}
IdLists == {<<"psm", "class">>, <<"handle", "state", "class", "name">>}
=============================================================================
