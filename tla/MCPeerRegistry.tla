---------------------------- MODULE MCPeerRegistry ----------------------------
(* The instances of PeerRegistry that TLC checks; the .cfg files give the
   constants: two keys so that a handler could hit the wrong one, three
   connections so that a stale, a current and a new one of a key overlap. *)
EXTENDS PeerRegistryRefinement
===============================================================================
