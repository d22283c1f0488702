------------------------------- MODULE RelayMode -------------------------------
(***************************************************************************)
(* The firmware's relay mode as one part among others: the state of        *)
(* EdgeRelay under names that the modules of the other parts leave free,   *)
(* and what it promises of every state.                                    *)
(***************************************************************************)
CONSTANTS Peers, Upstream, RingCapacity, MaxForwarded

VARIABLES stage, ring, cursor, stats, joined, out, missed

relayVars == <<stage, ring, cursor, stats, joined, out, missed>>

Edge == INSTANCE EdgeRelay WITH MaxFrames <- MaxForwarded

\* Nothing is lost unreported or out of order, and the gauges count who is there
\* (relay.rs:66-91, 165-217).
RelayExact ==
  /\ Edge!TypeOK /\ Edge!RelayGaugesExact
  /\ Edge!NothingLostUnreported /\ Edge!SentInOrder
===============================================================================
