------------------------ MODULE PeerRegistryRefinement ------------------------
(***************************************************************************)
(* PeerRegistry implements PeerOwnership: comparing generations under the  *)
(* table's lock amounts to remembering which connection owns a key.        *)
(***************************************************************************)
EXTENDS PeerRegistry

CONSTANT NoConn  \* the owner of a key that nobody owns

ASSUME NoConnAssumption == NoConn \notin Conns

\* The entry of a key names its owner by the generation the owner drew.
ownerBar ==
  [k \in Keys |->
     IF peers[k] = NoPeer THEN NoConn
     ELSE CHOOSE c \in Conns : gen[c] = peers[k].generation]

phaseBar ==
  [c \in Conns |->
     CASE Joined(c) -> "in"
       [] stage[c] = "abandoned" \/ (stage[c] = "closed" /\ gen[c] # -1) -> "gone"
       [] OTHER -> "new"]

Ownership == INSTANCE PeerOwnership WITH owner <- ownerBar, phase <- phaseBar

\* The whole of register_peer, the handlers and unregister_peer
\* (router.rs:185-256, 285-450) behaves as PeerOwnership allows: the last to
\* insert owns the key, only the owner's own removal frees it.
ImplementsOwnership == Ownership!Spec
===============================================================================
