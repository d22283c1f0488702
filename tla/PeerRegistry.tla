----------------------------- MODULE PeerRegistry -----------------------------
(***************************************************************************)
(* The router's table of connected peers, written by one task per          *)
(* connection: crates/kodama/src/server/router.rs (register_peer,          *)
(* unregister_peer, the two connection handlers) and the accept loop of    *)
(* apps/kodama-server/src/main.rs that starts the handlers.                *)
(*                                                                         *)
(* A step is what a task does between two points where another task can    *)
(* get in: the generation is drawn before the write lock of the table is   *)
(* taken, so register_peer is two steps; everything done under the lock,   *)
(* the counters included, is one.  A connection is a member of Conns and   *)
(* is used once; one key may have any number of connections at a time.     *)
(***************************************************************************)
EXTENDS Integers, FiniteSets

CONSTANTS
  Keys,          \* public keys of the peers
  Conns,         \* connections, one handler task each
  NoKey,         \* the key of a connection that was not accepted yet
  NoPeer         \* a key's entry in the table when the key is absent

Camera  == "Camera"
Client  == "Client"
Roles   == {Camera, Client}
Unknown == "Unknown"

PeerInfo == [role : Roles, generation : Nat]

\* A PublicKey is 32 bytes, so there are finitely many.
ASSUME KeysAssumption ==
  /\ IsFiniteSet(Keys)
  /\ NoKey \notin Keys
  /\ NoPeer \notin PeerInfo

VARIABLES
  stage,       \* where each connection's task is
  key,         \* the remote public key of each connection
  role,        \* the role each connection was detected to have
  gen,         \* the generation each task holds, -1 before it has one
  peers,       \* the table
  generation,  \* connection_generation
  connected    \* per role, its gauge: an AtomicUsize that holds the residue of
               \* this integer and so wraps when it goes below zero

vars == <<stage, key, role, gen, peers, generation, connected>>

Stages == {"idle", "detecting", "registering", "inserting", "opening",
           "serving", "unregistering", "closed", "abandoned"}

-------------------------------------------------------------------------------
Init ==
  /\ stage = [c \in Conns |-> "idle"]
  /\ key = [c \in Conns |-> NoKey]
  /\ role = [c \in Conns |-> Unknown]
  /\ gen = [c \in Conns |-> -1]
  /\ peers = [k \in Keys |-> NoPeer]
  /\ generation = 0
  /\ connected = [r \in Roles |-> 0]

Goto(c, from, to) ==
  /\ stage[c] = from
  /\ stage' = [stage EXCEPT ![c] = to]

\* The accept loop takes a connection and spawns its task.
Accept(c, k) ==
  /\ Goto(c, "idle", "detecting")
  /\ key' = [key EXCEPT ![c] = k]
  /\ UNCHANGED <<role, gen, peers, generation, connected>>

\* Mutant: the table is written before a generation was drawn.
DetectRoleNoDraw(c, r) ==
  /\ Goto(c, "detecting", "inserting")
  /\ role' = [role EXCEPT ![c] = r]
  /\ UNCHANGED <<key, gen, peers, generation, connected>>

\* A peer that opens its frame stream within the detection timeout is taken for
\* a camera, one that does not for a client: either can happen to any peer.
DetectRole(c, r) ==
  /\ Goto(c, "detecting", "registering")
  /\ role' = [role EXCEPT ![c] = r]
  /\ UNCHANGED <<key, gen, peers, generation, connected>>

\* The stream cannot be accepted, or the server shuts down while detecting.
GiveUpDetection(c) ==
  /\ Goto(c, "detecting", "closed")
  /\ UNCHANGED <<key, role, gen, peers, generation, connected>>

\* register_peer up to the point where it waits for the table's write lock.
DrawGeneration(c) ==
  /\ Goto(c, "registering", "inserting")
  /\ gen' = [gen EXCEPT ![c] = generation]
  /\ generation' = generation + 1
  /\ UNCHANGED <<key, role, peers, connected>>

\* Mutant: a reconnect counts again.
CountsReconnect(c) == TRUE

\* Only a key that was absent moves a gauge.
CountsInsert(c) == peers[key[c]] = NoPeer

\* The rest of register_peer.
InsertPeer(c) ==
  /\ Goto(c, "inserting", IF role[c] = Client THEN "opening" ELSE "serving")
  /\ peers' = [peers EXCEPT ![key[c]] =
                 [role |-> role[c], generation |-> gen[c]]]
  /\ connected' = IF CountsInsert(c)
                    THEN [connected EXCEPT ![role[c]] = @ + 1]
                    ELSE connected
  /\ UNCHANGED <<key, role, gen, generation>>

\* handle_client opens the outgoing stream after it has registered ...
OpenStream(c) ==
  /\ Goto(c, "opening", "serving")
  /\ UNCHANGED <<key, role, gen, peers, generation, connected>>

\* ... and returns through `?` when that fails, without unregistering.
OpenStreamFails(c) ==
  /\ Goto(c, "opening", "abandoned")
  /\ UNCHANGED <<key, role, gen, peers, generation, connected>>

\* Mutant: one way out of the loop skips the unregistration.
StopServingForgets(c) ==
  /\ Goto(c, "serving", "closed")
  /\ UNCHANGED <<key, role, gen, peers, generation, connected>>

\* The frame loop breaks: stream closed, stream error, or rate-limit abuse.
StopServing(c) ==
  /\ Goto(c, "serving", "unregistering")
  /\ UNCHANGED <<key, role, gen, peers, generation, connected>>

\* Mutant: any handler of the key removes the entry.
HoldsKey(c) == peers[key[c]] # NoPeer

\* Mutant: only the latest registration of the router is removed.
HoldsLatest(c) ==
  /\ peers[key[c]] # NoPeer
  /\ peers[key[c]].generation = gen[c]
  /\ gen[c] = generation - 1

HoldsEntry(c) ==
  /\ peers[key[c]] # NoPeer
  /\ peers[key[c]].generation = gen[c]

UnregisterPeer(c) ==
  /\ Goto(c, "unregistering", "closed")
  /\ \/ /\ HoldsEntry(c)
        /\ peers' = [peers EXCEPT ![key[c]] = NoPeer]
        /\ connected' = [connected EXCEPT ![peers[key[c]].role] = @ - 1]
     \/ /\ ~HoldsEntry(c)
        /\ UNCHANGED <<peers, connected>>
  /\ UNCHANGED <<key, role, gen, generation>>

Next ==
  \E c \in Conns :
    \/ \E k \in Keys : Accept(c, k)
    \/ \E r \in Roles : DetectRole(c, r)
    \/ GiveUpDetection(c)
    \/ DrawGeneration(c)
    \/ InsertPeer(c)
    \/ OpenStream(c)
    \/ OpenStreamFails(c)
    \/ StopServing(c)
    \/ UnregisterPeer(c)

Spec == Init /\ [][Next]_vars

\* The runtime keeps polling a task that can go on; a peer, on the other hand,
\* may keep its stream open for ever, so StopServing has no fairness.
Fairness ==
  \A c \in Conns :
    WF_vars(DrawGeneration(c) \/ InsertPeer(c) \/ UnregisterPeer(c))

FairSpec == Spec /\ Fairness

-------------------------------------------------------------------------------
(* What the table and the gauges say.                                      *)

Registered == {k \in Keys : peers[k] # NoPeer}
RegisteredAs(r) == {k \in Registered : peers[k].role = r}

\* The connections whose handler has put its key in the table.
Joined(c) == stage[c] \in {"opening", "serving", "unregistering"}

TypeOK ==
  /\ stage \in [Conns -> Stages]
  /\ key \in [Conns -> Keys \cup {NoKey}]
  /\ role \in [Conns -> Roles \cup {Unknown}]
  /\ gen \in [Conns -> Nat \cup {-1}]
  /\ peers \in [Keys -> PeerInfo \cup {NoPeer}]
  /\ generation \in Nat
  /\ connected \in [Roles -> Int]

-------------------------------------------------------------------------------
(* Properties.                                                             *)

\* Each entry of the table was written by a connection of that key which still
\* has its removal ahead of it, or which failed to open its stream: no other
\* history of overlapping registrations and stale removals
\* (register_peer/unregister_peer, router.rs:185-256) leaves an entry behind.
EntryHasHolder ==
  \A k \in Registered :
    \E c \in Conns :
      /\ key[c] = k
      /\ gen[c] = peers[k].generation
      /\ role[c] = peers[k].role
      /\ Joined(c) \/ stage[c] = "abandoned"

\* Whatever roles a key is given over time and however the handlers of one key
\* overlap, the two gauges together count the table (router.rs:200-215 moves a
\* gauge only for a new key, 229-247 only for a removed one).
GaugesCountTable ==
  connected[Camera] + connected[Client] = Cardinality(Registered)

\* No key is seen with two roles.
RolesAreStable ==
  \A c, d \in Conns :
    (key[c] = key[d] /\ Unknown \notin {role[c], role[d]}) => role[c] = role[d]

\* As long as every peer is always detected with the same role, each gauge is
\* exact, and in particular never wraps below zero (router.rs:200-247).  A key
\* that comes back in another role before its entry is removed stays counted in
\* the old one and is taken off the new one: only the sum, above, holds then.
GaugesExactForStableRoles ==
  RolesAreStable =>
    \A r \in Roles : connected[r] = Cardinality(RegisteredAs(r))

\* Both of what the gauges promise (router.rs:200-247).
GaugesExact == GaugesCountTable /\ GaugesExactForStableRoles

\* A key's registration is taken away only by the handler that wrote the entry
\* standing in the table (the promise of unregister_peer, router.rs:221-224),
\* and is otherwise only overwritten, by a connection of the same key.
OnlyHolderRemoves ==
  [][\A k \in Keys :
       peers'[k] # peers[k] =>
         \E c \in Conns :
           /\ key[c] = k
           /\ \/ /\ peers'[k] = NoPeer
                 /\ stage[c] = "unregistering"
                 /\ gen[c] = peers[k].generation
              \/ /\ peers'[k] # NoPeer
                 /\ stage[c] = "inserting"
                 /\ peers'[k].generation = gen[c]]_vars

\* Once every connection of a key is over and none failed to open its stream,
\* the key leaves the table, however the removals were ordered.
AllOver(k) ==
  \A c \in Conns : key[c] = k => stage[c] \in {"unregistering", "closed"}
DrainedKeyLeaves ==
  \A k \in Keys : AllOver(k) ~> (peers[k] = NoPeer \/ ~AllOver(k))
===============================================================================
