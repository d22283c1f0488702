---------------------------- MODULE PeerOwnership -----------------------------
(***************************************************************************)
(* What the peer table promises, without generations: a key belongs to the *)
(* connection that joined for it last, until that very connection leaves.  *)
(***************************************************************************)
CONSTANTS Keys, Conns, NoConn

VARIABLES owner,  \* per key, the connection that owns it, or NoConn
          phase   \* per connection: "new", "in" or "gone"

ownershipVars == <<owner, phase>>

Init ==
  /\ owner = [k \in Keys |-> NoConn]
  /\ phase = [c \in Conns |-> "new"]

\* The latest to join owns the key, whoever owned it before.
Join(c, k) ==
  /\ phase[c] = "new"
  /\ phase' = [phase EXCEPT ![c] = "in"]
  /\ owner' = [owner EXCEPT ![k] = c]

\* Leaving gives up what the connection owns and nothing else.
Leave(c) ==
  /\ phase[c] = "in"
  /\ phase' = [phase EXCEPT ![c] = "gone"]
  /\ owner' = [k \in Keys |-> IF owner[k] = c THEN NoConn ELSE owner[k]]

\* A connection that goes without leaving keeps what it owns.
Vanish(c) ==
  /\ phase[c] = "in"
  /\ phase' = [phase EXCEPT ![c] = "gone"]
  /\ UNCHANGED owner

Next ==
  \E c \in Conns : Leave(c) \/ Vanish(c) \/ \E k \in Keys : Join(c, k)

Spec == Init /\ [][Next]_ownershipVars
===============================================================================
