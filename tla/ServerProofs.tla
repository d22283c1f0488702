----------------------------- MODULE ServerProofs -----------------------------
(***************************************************************************)
(* Theorems about the connections of the server: PeerRegistry, for any     *)
(* sets of keys and connections; WebView, for any cameras and any          *)
(* telemetry fields, thresholds, heartbeats and queue sizes; and           *)
(* CommandRouting, for any cameras, channels and requests.                 *)
(*                                                                         *)
(* IInv is what an action of PeerRegistry needs to know of the state       *)
(* before it.  That the generations of different connections differ is     *)
(* what makes comparing them a test of ownership.                          *)
(*                                                                         *)
(* ViewInv, in the second part, is the same for WebView.  What a browser   *)
(* shows is right once there were more undisturbed samples than samples    *)
(* since the heartbeat, for then the heartbeat is one of them: either it   *)
(* was merged already, or it is in the queue and nothing behind it says    *)
(* otherwise.                                                              *)
(*                                                                         *)
(* RoutingIInv, in the third, is that of CommandRouting.  Ids on one       *)
(* channel are drawn upwards and fewer than 2^32 of them, so two requests  *)
(* of a channel have different ids; a message on the wire carries the id   *)
(* of its own request; so what a response finds pending is the request it  *)
(* answers.                                                                *)
(***************************************************************************)
EXTENDS PeerRegistryRefinement, WebView, MCCommandRouting, FiniteSetTheorems,
        SequenceTheorems, TLAPS

\* A task knows its key from the accept on and its role from the detection on.
LocalsFollowStage ==
  \A c \in Conns :
    /\ stage[c] # "idle" => key[c] \in Keys
    /\ stage[c] \in {"idle", "detecting"} => role[c] = Unknown
    /\ stage[c] \in {"registering", "inserting"} => role[c] \in Roles
    /\ stage[c] \in {"idle", "detecting", "registering"} => gen[c] = -1
    /\ stage[c] \in {"inserting", "opening", "serving", "unregistering", "abandoned"}
         => gen[c] # -1

\* Generations are drawn from a counter: below it, and no two alike.
GenerationsDiffer ==
  /\ \A c \in Conns : gen[c] < generation
  /\ \A c, d \in Conns : (gen[c] = gen[d] /\ gen[c] # -1) => c = d

IInv == TypeOK /\ LocalsFollowStage /\ GenerationsDiffer /\ EntryHasHolder

-------------------------------------------------------------------------------
(* The inductive invariant.                                                *)

LEMMA InitIInv == Init => IInv
  BY KeysAssumption
  DEF Init, IInv, TypeOK, LocalsFollowStage, GenerationsDiffer, EntryHasHolder,
      Registered, Stages, Roles, Unknown, Camera, Client

LEMMA NextTypeOK == IInv /\ [Next]_vars => TypeOK'
<1> SUFFICES ASSUME IInv, [Next]_vars PROVE TypeOK'
  OBVIOUS
<1> USE DEF IInv, TypeOK, LocalsFollowStage, Stages, Goto
<1>1. ASSUME NEW c \in Conns, NEW k \in Keys, Accept(c, k) PROVE TypeOK'
  BY <1>1 DEF Accept
<1>2. ASSUME NEW c \in Conns, NEW r \in Roles, DetectRole(c, r) PROVE TypeOK'
  BY <1>2 DEF DetectRole
<1>3. ASSUME NEW c \in Conns, GiveUpDetection(c) PROVE TypeOK'
  BY <1>3 DEF GiveUpDetection
<1>4. ASSUME NEW c \in Conns, DrawGeneration(c) PROVE TypeOK'
  BY <1>4 DEF DrawGeneration
<1>5. ASSUME NEW c \in Conns, InsertPeer(c) PROVE TypeOK'
  <2>1. key[c] \in Keys /\ role[c] \in Roles /\ gen[c] \in Nat
    BY <1>5 DEF CountsInsert, InsertPeer
  <2>2. peers' \in [Keys -> PeerInfo \cup {NoPeer}]
    BY <1>5, <2>1 DEF CountsInsert, InsertPeer, PeerInfo
  <2>3. connected' \in [Roles -> Int]
    BY <1>5, <2>1 DEF CountsInsert, InsertPeer
  <2>4. stage' \in [Conns -> Stages]
    BY <1>5 DEF CountsInsert, InsertPeer
  <2>5. QED
    BY <1>5, <2>2, <2>3, <2>4 DEF CountsInsert, InsertPeer
<1>6. ASSUME NEW c \in Conns, OpenStream(c) PROVE TypeOK'
  BY <1>6 DEF OpenStream
<1>7. ASSUME NEW c \in Conns, OpenStreamFails(c) PROVE TypeOK'
  BY <1>7 DEF OpenStreamFails
<1>8. ASSUME NEW c \in Conns, StopServing(c) PROVE TypeOK'
  BY <1>8 DEF StopServing
<1>9. ASSUME NEW c \in Conns, UnregisterPeer(c) PROVE TypeOK'
  <2>1. key[c] \in Keys
    BY <1>9 DEF UnregisterPeer
  <2>2. peers' \in [Keys -> PeerInfo \cup {NoPeer}]
    BY <1>9, <2>1 DEF UnregisterPeer
  <2>3. connected' \in [Roles -> Int]
    BY <1>9, <2>1 DEF UnregisterPeer, HoldsEntry, PeerInfo
  <2>4. stage' \in [Conns -> Stages]
    BY <1>9 DEF UnregisterPeer
  <2>5. QED
    BY <1>9, <2>2, <2>3, <2>4 DEF UnregisterPeer
<1>10. CASE UNCHANGED vars
  BY <1>10 DEF vars
<1>11. QED
  BY <1>1, <1>2, <1>3, <1>4, <1>5, <1>6, <1>7, <1>8, <1>9, <1>10 DEF Next

LEMMA NextLocals == IInv /\ [Next]_vars => (LocalsFollowStage /\ GenerationsDiffer)'
<1> SUFFICES ASSUME IInv, [Next]_vars
             PROVE (LocalsFollowStage /\ GenerationsDiffer)'
  OBVIOUS
<1> USE DEF IInv, TypeOK, LocalsFollowStage, GenerationsDiffer, Stages, Goto
<1>1. ASSUME NEW c \in Conns, NEW k \in Keys, Accept(c, k)
      PROVE (LocalsFollowStage /\ GenerationsDiffer)'
  BY <1>1 DEF Accept
<1>2. ASSUME NEW c \in Conns, NEW r \in Roles, DetectRole(c, r)
      PROVE (LocalsFollowStage /\ GenerationsDiffer)'
  BY <1>2 DEF DetectRole
<1>3. ASSUME NEW c \in Conns, GiveUpDetection(c)
      PROVE (LocalsFollowStage /\ GenerationsDiffer)'
  BY <1>3 DEF GiveUpDetection
<1>4. ASSUME NEW c \in Conns, DrawGeneration(c)
      PROVE (LocalsFollowStage /\ GenerationsDiffer)'
  <2>1. LocalsFollowStage'
    BY <1>4 DEF DrawGeneration
  <2>2. GenerationsDiffer'
    BY <1>4 DEF DrawGeneration
  <2>3. QED
    BY <2>1, <2>2
<1>5. ASSUME NEW c \in Conns, InsertPeer(c)
      PROVE (LocalsFollowStage /\ GenerationsDiffer)'
  BY <1>5 DEF CountsInsert, InsertPeer
<1>6. ASSUME NEW c \in Conns, OpenStream(c)
      PROVE (LocalsFollowStage /\ GenerationsDiffer)'
  BY <1>6 DEF OpenStream
<1>7. ASSUME NEW c \in Conns, OpenStreamFails(c)
      PROVE (LocalsFollowStage /\ GenerationsDiffer)'
  BY <1>7 DEF OpenStreamFails
<1>8. ASSUME NEW c \in Conns, StopServing(c)
      PROVE (LocalsFollowStage /\ GenerationsDiffer)'
  BY <1>8 DEF StopServing
<1>9. ASSUME NEW c \in Conns, UnregisterPeer(c)
      PROVE (LocalsFollowStage /\ GenerationsDiffer)'
  BY <1>9 DEF UnregisterPeer
<1>10. CASE UNCHANGED vars
  BY <1>10 DEF vars
<1>11. QED
  BY <1>1, <1>2, <1>3, <1>4, <1>5, <1>6, <1>7, <1>8, <1>9, <1>10 DEF Next

\* Inserting makes the inserter the holder of its key, and takes nobody else's
\* entry; removing clears the entry of the remover only, and a stale remover,
\* whose generation is not the entry's, is not the entry's holder.
LEMMA NextEntryHasHolder == IInv /\ [Next]_vars => EntryHasHolder'
<1> SUFFICES ASSUME IInv, [Next]_vars, NEW k \in Keys, peers'[k] # NoPeer
             PROVE \E d \in Conns :
                     /\ key'[d] = k
                     /\ gen'[d] = peers'[k].generation
                     /\ role'[d] = peers'[k].role
                     /\ Joined(d)' \/ stage'[d] = "abandoned"
  BY DEF EntryHasHolder, Registered
<1> USE DEF IInv, TypeOK, Stages, Goto, Joined
<1>1. CASE peers' = peers
  <2>1. PICK d \in Conns :
          /\ key[d] = k
          /\ gen[d] = peers[k].generation
          /\ role[d] = peers[k].role
          /\ Joined(d) \/ stage[d] = "abandoned"
    BY <1>1 DEF EntryHasHolder, Registered
  <2>2. UNCHANGED <<key[d], gen[d], role[d]>>
    BY <2>1 DEF CountsInsert, Next, vars, Accept, DetectRole, GiveUpDetection, DrawGeneration,
                InsertPeer, OpenStream, OpenStreamFails, StopServing, UnregisterPeer
  <2>3. Joined(d)' \/ stage'[d] = "abandoned"
    <3>1. ASSUME NEW c \in Conns, UnregisterPeer(c)
          PROVE c # d
      <4>1. ~HoldsEntry(c)
        BY <1>1, <3>1 DEF UnregisterPeer, HoldsEntry, LocalsFollowStage
      <4>2. QED
        BY <1>1, <2>1, <4>1 DEF HoldsEntry
    <3>2. QED
      BY <2>1, <3>1
      DEF CountsInsert, Next, vars, Accept, DetectRole, GiveUpDetection, DrawGeneration,
          InsertPeer, OpenStream, OpenStreamFails, StopServing, UnregisterPeer
  <2>4. QED
    BY <1>1, <2>1, <2>2, <2>3
<1>2. ASSUME NEW c \in Conns, InsertPeer(c)
      PROVE \E d \in Conns :
              /\ key'[d] = k
              /\ gen'[d] = peers'[k].generation
              /\ role'[d] = peers'[k].role
              /\ Joined(d)' \/ stage'[d] = "abandoned"
  <2>1. CASE key[c] = k
    BY <1>2, <2>1 DEF CountsInsert, InsertPeer
  <2>2. CASE key[c] # k
    <3>1. peers'[k] = peers[k]
      BY <1>2, <2>2 DEF CountsInsert, InsertPeer
    <3>2. PICK d \in Conns :
            /\ key[d] = k
            /\ gen[d] = peers[k].generation
            /\ role[d] = peers[k].role
            /\ Joined(d) \/ stage[d] = "abandoned"
      BY <3>1 DEF EntryHasHolder, Registered
    <3>3. QED
      BY <1>2, <2>2, <3>1, <3>2 DEF CountsInsert, InsertPeer
  <2>3. QED
    BY <2>1, <2>2
<1>3. ASSUME NEW c \in Conns, UnregisterPeer(c), peers' # peers
      PROVE \E d \in Conns :
              /\ key'[d] = k
              /\ gen'[d] = peers'[k].generation
              /\ role'[d] = peers'[k].role
              /\ Joined(d)' \/ stage'[d] = "abandoned"
  <2>1. key[c] # k /\ peers'[k] = peers[k]
    BY <1>3 DEF UnregisterPeer, LocalsFollowStage
  <2>2. PICK d \in Conns :
          /\ key[d] = k
          /\ gen[d] = peers[k].generation
          /\ role[d] = peers[k].role
          /\ Joined(d) \/ stage[d] = "abandoned"
    BY <2>1 DEF EntryHasHolder, Registered
  <2>3. QED
    BY <1>3, <2>1, <2>2 DEF UnregisterPeer
<1>4. QED
  BY <1>1, <1>2, <1>3
  DEF CountsInsert, Next, vars, Accept, DetectRole, GiveUpDetection, DrawGeneration,
      OpenStream, OpenStreamFails, StopServing

LEMMA NextIInv == IInv /\ [Next]_vars => IInv'
  BY NextTypeOK, NextLocals, NextEntryHasHolder DEF IInv

LEMMA Invariant == Spec => []IInv
  BY InitIInv, NextIInv, PTL DEF Spec

\* Each variable keeps its type: tasks their stage, the table its entries.
THEOREM TypeCorrect == Spec => []TypeOK
  BY Invariant, PTL DEF IInv

\* No interleaving of register_peer and unregister_peer leaves an entry without
\* the connection that wrote it, still to be removed or failed to open.
THEOREM EntriesHaveHolders == Spec => []EntryHasHolder
  BY Invariant, PTL DEF IInv
-------------------------------------------------------------------------------
(* The gauges.                                                             *)

LEMMA RegisteredFinite ==
  IsFiniteSet(Registered) /\ \A r \in Roles : IsFiniteSet(RegisteredAs(r))
  BY KeysAssumption, FS_Subset DEF Registered, RegisteredAs

\* A step changes the table and the gauges together, or neither.
LEMMA TableSteps ==
  ASSUME IInv, [Next]_vars
  PROVE  \/ UNCHANGED <<peers, connected>>
         \/ \E c \in Conns : InsertPeer(c)
         \/ \E c \in Conns : UnregisterPeer(c) /\ HoldsEntry(c)
  BY DEF CountsInsert, Next, vars, Accept, DetectRole, GiveUpDetection, DrawGeneration,
         OpenStream, OpenStreamFails, StopServing, UnregisterPeer

\* Inserting an absent key adds one to the table and to one gauge; removing an
\* entry takes one from the table and from the gauge of the entry's role.
LEMMA NextGaugesCountTable ==
  IInv /\ GaugesCountTable /\ [Next]_vars => GaugesCountTable'
<1> SUFFICES ASSUME IInv, GaugesCountTable, [Next]_vars PROVE GaugesCountTable'
  OBVIOUS
<1> USE DEF IInv, TypeOK, Roles, Camera, Client, LocalsFollowStage, Goto
<1>1. CASE UNCHANGED <<peers, connected>>
  BY <1>1 DEF GaugesCountTable, Registered
<1>2. ASSUME NEW c \in Conns, InsertPeer(c) PROVE GaugesCountTable'
  <2>1. key[c] \in Keys /\ role[c] \in Roles /\ peers'[key[c]] # NoPeer
    BY <1>2, KeysAssumption DEF CountsInsert, InsertPeer, PeerInfo
  <2>2. Registered' = Registered \cup {key[c]}
    BY <1>2, <2>1 DEF CountsInsert, InsertPeer, Registered
  <2>3. Cardinality(Registered') =
          IF peers[key[c]] = NoPeer THEN Cardinality(Registered) + 1
                                    ELSE Cardinality(Registered)
    <3>1. Cardinality(Registered \cup {key[c]}) =
            IF key[c] \in Registered THEN Cardinality(Registered)
                                     ELSE Cardinality(Registered) + 1
      BY RegisteredFinite, FS_AddElement
    <3>2. key[c] \in Registered <=> peers[key[c]] # NoPeer
      BY <2>1 DEF Registered
    <3>3. QED
      BY <2>2, <3>1, <3>2
  <2>4. Cardinality(Registered) \in Nat
    BY RegisteredFinite, FS_CardinalityType
  <2>5. QED
    BY <1>2, <2>1, <2>3, <2>4 DEF CountsInsert, InsertPeer, GaugesCountTable
<1>3. ASSUME NEW c \in Conns, UnregisterPeer(c), HoldsEntry(c)
      PROVE GaugesCountTable'
  <2>1. key[c] \in Registered /\ peers[key[c]].role \in Roles
    BY <1>3 DEF UnregisterPeer, HoldsEntry, Registered, PeerInfo
  <2>2. Registered' = Registered \ {key[c]}
    BY <1>3, <2>1 DEF UnregisterPeer, Registered
  <2>3. Cardinality(Registered') = Cardinality(Registered) - 1
    BY <2>1, <2>2, RegisteredFinite, FS_RemoveElement
  <2>4. Cardinality(Registered) \in Nat
    BY RegisteredFinite, FS_CardinalityType
  <2>5. QED
    BY <1>3, <2>1, <2>3, <2>4 DEF UnregisterPeer, GaugesCountTable
<1>4. QED
  BY <1>1, <1>2, <1>3, TableSteps

\* The two gauges together count the table, in every state and for any roles.
THEOREM GaugesTogetherExact == Spec => []GaugesCountTable
<1>1. Init => GaugesCountTable
  BY FS_EmptySet DEF Init, GaugesCountTable, Registered, Roles, Camera, Client
<1>2. QED
  BY <1>1, Invariant, NextGaugesCountTable, PTL DEF Spec

\* No task forgets its key or its role, so roles stable after a step were
\* stable before it.
LEMMA StableBefore == IInv /\ [Next]_vars /\ RolesAreStable' => RolesAreStable
<1> SUFFICES ASSUME IInv, [Next]_vars, RolesAreStable',
                    NEW c \in Conns, NEW d \in Conns,
                    key[c] = key[d], role[c] # Unknown, role[d] # Unknown
             PROVE role[c] = role[d]
  BY DEF RolesAreStable
<1> USE DEF IInv, TypeOK, LocalsFollowStage, Goto
<1>1. UNCHANGED <<key[c], role[c], key[d], role[d]>>
  BY DEF CountsInsert, Next, vars, Accept, DetectRole, GiveUpDetection, DrawGeneration,
         InsertPeer, OpenStream, OpenStreamFails, StopServing, UnregisterPeer
<1>2. QED
  BY <1>1 DEF RolesAreStable

\* With stable roles the entry an insert overwrites has the inserter's role, for
\* it has a holder, a connection of the same key.
LEMMA OverwriteKeepsRole ==
  ASSUME IInv, RolesAreStable, NEW c \in Conns, InsertPeer(c),
         peers[key[c]] # NoPeer
  PROVE  peers[key[c]].role = role[c]
<1> USE DEF IInv, TypeOK, LocalsFollowStage, Goto
<1>1. key[c] \in Registered /\ role[c] \in Roles
  BY DEF CountsInsert, InsertPeer, Registered
<1>2. PICK d \in Conns : key[d] = key[c] /\ role[d] = peers[key[c]].role
  BY <1>1 DEF EntryHasHolder
<1>3. Unknown \notin {role[c], role[d]}
  BY <1>1, <1>2 DEF Registered, PeerInfo, Roles, Unknown, Camera, Client
<1>4. QED
  BY <1>2, <1>3 DEF RolesAreStable

LEMMA NextGaugesExact ==
  IInv /\ GaugesExactForStableRoles /\ [Next]_vars => GaugesExactForStableRoles'
<1> SUFFICES ASSUME IInv, GaugesExactForStableRoles, [Next]_vars,
                    RolesAreStable', NEW r \in Roles
             PROVE connected'[r] = Cardinality(RegisteredAs(r)')
  BY DEF GaugesExactForStableRoles
<1> USE DEF IInv, TypeOK, LocalsFollowStage, Goto
<1>0. RolesAreStable /\ connected[r] = Cardinality(RegisteredAs(r))
  BY StableBefore DEF GaugesExactForStableRoles
<1>1. CASE UNCHANGED <<peers, connected>>
  BY <1>0, <1>1 DEF RegisteredAs, Registered
<1>2. ASSUME NEW c \in Conns, InsertPeer(c)
      PROVE connected'[r] = Cardinality(RegisteredAs(r)')
  <2>1. /\ key[c] \in Keys /\ role[c] \in Roles
        /\ peers'[key[c]] # NoPeer /\ peers'[key[c]].role = role[c]
    BY <1>2, KeysAssumption DEF CountsInsert, InsertPeer, PeerInfo
  <2>2. CASE peers[key[c]] # NoPeer \/ role[c] # r
    <3>1. RegisteredAs(r)' = RegisteredAs(r)
      BY <1>0, <1>2, <2>1, <2>2, OverwriteKeepsRole
      DEF CountsInsert, InsertPeer, RegisteredAs, Registered
    <3>2. connected'[r] = connected[r]
      BY <1>2, <2>1, <2>2 DEF CountsInsert, InsertPeer
    <3>3. QED
      BY <1>0, <3>1, <3>2
  <2>3. CASE peers[key[c]] = NoPeer /\ role[c] = r
    <3>1. /\ RegisteredAs(r)' = RegisteredAs(r) \cup {key[c]}
          /\ key[c] \notin RegisteredAs(r)
      BY <1>2, <2>1, <2>3 DEF CountsInsert, InsertPeer, RegisteredAs, Registered
    <3>2. Cardinality(RegisteredAs(r)') = Cardinality(RegisteredAs(r)) + 1
      <4>1. IsFiniteSet(RegisteredAs(r))
        BY RegisteredFinite
      <4>2. Cardinality(RegisteredAs(r) \cup {key[c]}) =
              IF key[c] \in RegisteredAs(r) THEN Cardinality(RegisteredAs(r))
                                            ELSE Cardinality(RegisteredAs(r)) + 1
        BY <4>1, FS_AddElement
      <4>3. QED
        BY <3>1, <4>2
    <3>3. connected'[r] = connected[r] + 1
      BY <1>2, <2>1, <2>3 DEF CountsInsert, InsertPeer
    <3>4. QED
      BY <1>0, <3>2, <3>3
  <2>4. QED
    BY <2>2, <2>3
<1>3. ASSUME NEW c \in Conns, UnregisterPeer(c), HoldsEntry(c)
      PROVE connected'[r] = Cardinality(RegisteredAs(r)')
  <2>1. key[c] \in Registered /\ peers[key[c]].role \in Roles
    BY <1>3 DEF UnregisterPeer, HoldsEntry, Registered, PeerInfo
  <2>2. CASE peers[key[c]].role # r
    <3>1. RegisteredAs(r)' = RegisteredAs(r)
      BY <1>3, <2>1, <2>2 DEF UnregisterPeer, RegisteredAs, Registered
    <3>2. connected'[r] = connected[r]
      BY <1>3, <2>1, <2>2 DEF UnregisterPeer
    <3>3. QED
      BY <1>0, <3>1, <3>2
  <2>3. CASE peers[key[c]].role = r
    <3>1. /\ RegisteredAs(r)' = RegisteredAs(r) \ {key[c]}
          /\ key[c] \in RegisteredAs(r)
      BY <1>3, <2>1, <2>3 DEF UnregisterPeer, RegisteredAs, Registered
    <3>2. Cardinality(RegisteredAs(r)') = Cardinality(RegisteredAs(r)) - 1
      <4>1. IsFiniteSet(RegisteredAs(r))
        BY RegisteredFinite
      <4>2. Cardinality(RegisteredAs(r) \ {key[c]}) =
              IF key[c] \in RegisteredAs(r) THEN Cardinality(RegisteredAs(r)) - 1
                                            ELSE Cardinality(RegisteredAs(r))
        BY <4>1, FS_RemoveElement
      <4>3. QED
        BY <3>1, <4>2
    <3>3. connected'[r] = connected[r] - 1
      BY <1>3, <2>1, <2>3 DEF UnregisterPeer
    <3>4. QED
      BY <1>0, <3>2, <3>3
  <2>4. QED
    BY <2>2, <2>3
<1>4. QED
  BY <1>1, <1>2, <1>3, TableSteps

\* If no key is ever seen in two roles, each gauge is the number of peers
\* registered in its role.
THEOREM StableGaugesExact == Spec => []GaugesExactForStableRoles
<1>1. Init => GaugesExactForStableRoles
  BY FS_EmptySet DEF Init, GaugesExactForStableRoles, RegisteredAs, Registered
<1>2. QED
  BY <1>1, Invariant, NextGaugesExact, PTL DEF Spec

\* Both of the gauges, and their sum without any assumption on the roles, are
\* right in every reachable state.
THEOREM GaugesAreExact == Spec => []GaugesExact
  BY GaugesTogetherExact, StableGaugesExact, PTL DEF GaugesExact
-------------------------------------------------------------------------------
(* Ownership.                                                              *)

\* A change of the table is made by a connection of the changed key: by its
\* insert, or by the removal of the entry it wrote itself.
THEOREM RemovalsAreOwn == Spec => OnlyHolderRemoves
<1> DEFINE Own ==
      \A k \in Keys :
        peers'[k] # peers[k] =>
          \E c \in Conns :
            /\ key[c] = k
            /\ \/ /\ peers'[k] = NoPeer
                  /\ stage[c] = "unregistering"
                  /\ gen[c] = peers[k].generation
               \/ /\ peers'[k] # NoPeer
                  /\ stage[c] = "inserting"
                  /\ peers'[k].generation = gen[c]
<1>1. IInv /\ [Next]_vars => Own
  <2> SUFFICES ASSUME IInv, [Next]_vars, NEW k \in Keys, peers'[k] # peers[k]
               PROVE  \E c \in Conns :
                        /\ key[c] = k
                        /\ \/ /\ peers'[k] = NoPeer
                              /\ stage[c] = "unregistering"
                              /\ gen[c] = peers[k].generation
                           \/ /\ peers'[k] # NoPeer
                              /\ stage[c] = "inserting"
                              /\ peers'[k].generation = gen[c]
    OBVIOUS
  <2> USE DEF IInv, TypeOK, LocalsFollowStage, Goto
  <2>1. ASSUME NEW c \in Conns, InsertPeer(c)
        PROVE  /\ key[c] = k /\ peers'[k] # NoPeer
               /\ stage[c] = "inserting" /\ peers'[k].generation = gen[c]
    <3>1. key[c] = k /\ role[c] \in Roles /\ gen[c] \in Nat
      BY <2>1 DEF CountsInsert, InsertPeer
    <3>2. QED
      BY <2>1, <3>1, KeysAssumption DEF CountsInsert, InsertPeer, PeerInfo
  <2>2. ASSUME NEW c \in Conns, UnregisterPeer(c), HoldsEntry(c)
        PROVE  /\ key[c] = k /\ peers'[k] = NoPeer
               /\ stage[c] = "unregistering" /\ gen[c] = peers[k].generation
    BY <2>2 DEF UnregisterPeer, HoldsEntry
  <2>3. QED
    BY <2>1, <2>2, TableSteps
<1>2. QED
  BY <1>1, Invariant, PTL DEF Spec, OnlyHolderRemoves

\* The connection that drew the generation of an entry is the key's owner.
GenerationsName ==
  \A k \in Keys, d \in Conns :
    (peers[k] # NoPeer /\ gen[d] = peers[k].generation) => ownerBar[k] = d

LEMMA OwnerIs == IInv => GenerationsName
<1> SUFFICES ASSUME IInv, NEW k \in Keys, NEW d \in Conns,
                    peers[k] # NoPeer, gen[d] = peers[k].generation
             PROVE ownerBar[k] = d
  BY DEF GenerationsName
<1>1. gen[d] # -1
  BY DEF IInv, TypeOK, PeerInfo
<1>2. \A c \in Conns : gen[c] = peers[k].generation => c = d
  BY <1>1 DEF IInv, GenerationsDiffer
<1>3. QED
  BY <1>2 DEF ownerBar

\* A key is owned by a connection of its own, by the one that wrote its entry.
LEMMA OwnerHoldsKey ==
  ASSUME IInv, NEW k \in Keys, peers[k] # NoPeer
  PROVE  /\ ownerBar[k] \in Conns
         /\ key[ownerBar[k]] = k
         /\ gen[ownerBar[k]] = peers[k].generation
         /\ gen[ownerBar[k]] # -1
<1>1. PICK d \in Conns : key[d] = k /\ gen[d] = peers[k].generation
  BY DEF IInv, EntryHasHolder, Registered
<1>2. gen[d] # -1
  BY <1>1 DEF IInv, TypeOK, PeerInfo
<1>3. ownerBar[k] = d
  BY <1>1, OwnerIs DEF GenerationsName
<1>4. QED
  BY <1>1, <1>2, <1>3

\* An entry that a step leaves alone keeps its owner: the owner's generation is
\* never drawn again.
LEMMA OwnerKept ==
  ASSUME IInv, IInv', [Next]_vars, NEW k \in Keys, peers'[k] = peers[k]
  PROVE  ownerBar'[k] = ownerBar[k]
<1>1. CASE peers[k] = NoPeer
  BY <1>1 DEF ownerBar
<1>2. CASE peers[k] # NoPeer
  <2> DEFINE d == ownerBar[k]
  <2>1. d \in Conns /\ gen[d] = peers[k].generation /\ gen[d] # -1
    BY <1>2, OwnerHoldsKey
  <2> HIDE DEF d
  <2>2. gen'[d] = gen[d]
    BY <2>1
    DEF IInv, TypeOK, LocalsFollowStage, Goto, Next, vars, Accept, DetectRole,
        GiveUpDetection, DrawGeneration, InsertPeer, OpenStream,
        OpenStreamFails, StopServing, UnregisterPeer
  <2>3. GenerationsName'
    BY OwnerIs, PTL
  <2>4. QED
    BY <1>2, <2>1, <2>2, <2>3 DEF d, GenerationsName
<1>3. QED
  BY <1>1, <1>2

LEMMA OwnershipInit == Init => Ownership!Init
  BY DEF Init, Ownership!Init, ownerBar, phaseBar, Joined

LEMMA OwnershipNext ==
  IInv /\ IInv' /\ [Next]_vars => [Ownership!Next]_(Ownership!ownershipVars)
<1> SUFFICES ASSUME IInv, IInv', [Next]_vars
             PROVE  [Ownership!Next]_(Ownership!ownershipVars)
  OBVIOUS
<1> USE DEF IInv, TypeOK, LocalsFollowStage, Goto
\* Before a task inserts and after it has closed, its steps are not seen.
<1>1. CASE peers' = peers /\ phaseBar' = phaseBar
  BY <1>1, OwnerKept DEF Ownership!ownershipVars, ownerBar
<1>2. ASSUME NEW c \in Conns,
             \/ \E k \in Keys : Accept(c, k)
             \/ \E r \in Roles : DetectRole(c, r)
             \/ GiveUpDetection(c)
             \/ DrawGeneration(c)
             \/ OpenStream(c)
             \/ StopServing(c)
      PROVE peers' = peers /\ phaseBar' = phaseBar
  BY <1>2 DEF Accept, DetectRole, GiveUpDetection, DrawGeneration, OpenStream,
              StopServing, phaseBar, Joined
<1>3. ASSUME NEW c \in Conns, InsertPeer(c)
      PROVE Ownership!Join(c, key[c]) /\ key[c] \in Keys
  <2>1. key[c] \in Keys /\ role[c] \in Roles /\ gen[c] \in Nat
    BY <1>3 DEF CountsInsert, InsertPeer
  <2>2. /\ phaseBar[c] = "new"
        /\ phaseBar' = [phaseBar EXCEPT ![c] = "in"]
    BY <1>3 DEF CountsInsert, InsertPeer, phaseBar, Joined
  <2>3. ownerBar'[key[c]] = c
    <3>1. peers'[key[c]] # NoPeer /\ gen'[c] = peers'[key[c]].generation
      BY <1>3, <2>1, KeysAssumption DEF CountsInsert, InsertPeer, PeerInfo
    <3>2. GenerationsName'
      BY OwnerIs, PTL
    <3>3. QED
      BY <2>1, <3>1, <3>2 DEF GenerationsName
  <2>4. ASSUME NEW k \in Keys, k # key[c] PROVE ownerBar'[k] = ownerBar[k]
    BY <1>3, <2>1, <2>4, OwnerKept DEF CountsInsert, InsertPeer
  <2>5. ownerBar' = [ownerBar EXCEPT ![key[c]] = c]
    <3>1. /\ ownerBar = [k \in Keys |-> ownerBar[k]]
          /\ ownerBar' = [k \in Keys |-> ownerBar'[k]]
      BY DEF ownerBar
    <3>2. QED
      BY <2>1, <2>3, <2>4, <3>1
  <2>6. QED
    BY <2>1, <2>2, <2>5 DEF Ownership!Join
<1>4. ASSUME NEW c \in Conns, OpenStreamFails(c)
      PROVE Ownership!Vanish(c)
  <2>1. ownerBar' = ownerBar
    BY <1>4, OwnerKept DEF OpenStreamFails, ownerBar
  <2>2. QED
    BY <1>4, <2>1 DEF OpenStreamFails, phaseBar, Joined, Ownership!Vanish
<1>5. ASSUME NEW c \in Conns, UnregisterPeer(c)
      PROVE Ownership!Leave(c)
  <2>1. /\ phaseBar[c] = "in"
        /\ phaseBar' = [phaseBar EXCEPT ![c] = "gone"]
    BY <1>5 DEF UnregisterPeer, phaseBar, Joined
  <2>2. ASSUME NEW k \in Keys
        PROVE  ownerBar'[k] = IF ownerBar[k] = c THEN NoConn ELSE ownerBar[k]
    <3>1. CASE ownerBar[k] = c
      <4>1. peers[k] # NoPeer
        BY <3>1, NoConnAssumption DEF ownerBar
      <4>2. key[c] = k /\ HoldsEntry(c)
        BY <3>1, <4>1, OwnerHoldsKey DEF HoldsEntry
      <4>3. peers'[k] = NoPeer
        BY <1>5, <4>2 DEF UnregisterPeer
      <4>4. QED
        BY <3>1, <4>3 DEF ownerBar
    <3>2. CASE ownerBar[k] # c
      <4>1. ~(HoldsEntry(c) /\ key[c] = k)
        BY <3>2, OwnerIs DEF GenerationsName, HoldsEntry
      <4>2. peers'[k] = peers[k]
        BY <1>5, <4>1 DEF UnregisterPeer
      <4>3. QED
        BY <3>2, <4>2, OwnerKept
    <3>3. QED
      BY <3>1, <3>2
  <2>3. ownerBar' = [k \in Keys |-> IF ownerBar[k] = c THEN NoConn ELSE ownerBar[k]]
    <3>1. ownerBar' = [k \in Keys |-> ownerBar'[k]]
      BY DEF ownerBar
    <3>2. QED
      BY <2>2, <3>1
  <2>4. QED
    BY <2>1, <2>3 DEF Ownership!Leave
<1>6. CASE UNCHANGED vars
  BY <1>6 DEF vars, phaseBar, Joined, ownerBar, Ownership!ownershipVars
<1>7. QED
  BY <1>1, <1>2, <1>3, <1>4, <1>5, <1>6 DEF Next, Ownership!Next

\* The peer table implements ownership: whatever the order in which the handlers
\* of a key draw generations, insert and remove, the key belongs to the last to
\* have inserted until that one leaves.
THEOREM RegistryImplementsOwnership == Spec => ImplementsOwnership
  BY OwnershipInit, OwnershipNext, Invariant, PTL
  DEF Spec, ImplementsOwnership, Ownership!Spec

-------------------------------------------------------------------------------
(* What a browser knows of the cameras.                                    *)


(* A payload that tells a browser nothing wrong of a camera, and one that  *)
(* tells it everything.                                                    *)
Agrees(c, m) ==
  m.camera = c => \A f \in DOMAIN m.payload.values : m.payload.values[f] = reading[c][f]

Covers(c, m) ==
  /\ m.camera = c /\ m.payload.full
  /\ \A f \in Fields : reading[c][f] # Absent => f \in DOMAIN m.payload.values

(* The browser shows the readings, or has them in its queue, and nothing   *)
(* behind them says otherwise.                                             *)
Shown(c) == ready[c] /\ Matches(c) /\ \A i \in DOMAIN queue : Agrees(c, queue[i])

OnItsWay(c) ==
  \E i \in DOMAIN queue : Covers(c, queue[i]) /\ \A j \in i .. Len(queue) : Agrees(c, queue[j])

InRangeValues(m) ==
  \A f \in DOMAIN m.payload.values : m.payload.values[f] \in Values[f]

Typed == ViewTypeOK /\ \A i \in DOMAIN queue : InRangeValues(queue[i])

(* More undisturbed samples than there were since the heartbeat: it is one *)
(* of them.                                                                *)
Steady ==
  \A c \in Cameras :
    /\ session = "off" => queue = <<>> /\ steady[c] = 0
    /\ steady[c] > 0 => beat[c] < Heartbeat
    /\ steady[c] > beat[c] => Shown(c) \/ OnItsWay(c)

ViewInv == Typed /\ Steady

-----------------------------------------------------------------------------
(* The operators.                                                          *)

LEMMA FieldRanges ==
  /\ \A f \in Fields : /\ Values[f] \subseteq Nat /\ Values[f] \subseteq Numbers
                       /\ Values[f] \subseteq RangeOf(f) /\ Absent \notin Values[f]
                       /\ RangeOf(f) \subseteq Values[f] \cup {Absent}
                       /\ f \notin Optional => RangeOf(f) = Values[f]
  /\ Numbers \subseteq Nat /\ Absent \notin Nat
<1>1. \A f \in Fields : Values[f] \subseteq Nat
  BY WebViewAssumption
<1>2. Absent \notin Nat
  BY DEF Absent
<1>3. QED
  BY <1>1, <1>2 DEF Numbers, RangeOf

LEMMA ReadingRange ==
  ASSUME NEW r
  PROVE  r \in Readings <=> r \in [Fields -> Numbers \cup {Absent}] /\ \A f \in Fields : r[f] \in RangeOf(f)
  BY DEF Readings

LEMMA FunctionsAreReadings ==
  ASSUME NEW r, r = [f \in Fields |-> r[f]], \A f \in Fields : r[f] \in RangeOf(f)
  PROVE  r \in Readings
<1>1. \A f \in Fields : r[f] \in Numbers \cup {Absent}
  BY FieldRanges
<1>2. QED
  BY <1>1, ReadingRange

LEMMA NoViewType == NoView \in Readings
<1>1. \A f \in Fields : NoView[f] \in RangeOf(f)
  BY WebViewAssumption DEF NoView, RangeOf
<1>2. NoView = [f \in Fields |-> NoView[f]]
  BY DEF NoView
<1>3. QED
  BY <1>1, <1>2, FunctionsAreReadings

LEMMA ChangeType ==
  ASSUME NEW r \in Readings, NEW f \in Fields, NEW v \in RangeOf(f)
  PROVE  [r EXCEPT ![f] = v] \in Readings
<1> DEFINE q == [r EXCEPT ![f] = v]
<1>1. r \in [Fields -> Numbers \cup {Absent}] /\ \A g \in Fields : r[g] \in RangeOf(g)
  BY ReadingRange
<1>2. q = [g \in Fields |-> q[g]] /\ \A g \in Fields : q[g] \in RangeOf(g)
  BY <1>1
<1> HIDE DEF q
<1>3. q \in Readings
  BY <1>2, FunctionsAreReadings
<1>4. QED
  BY <1>3 DEF q

LEMMA MergeType ==
  ASSUME NEW r \in Readings, NEW m \in Messages, InRangeValues(m)
  PROVE  Merge(r, m.payload.values) \in Readings
<1> DEFINE q == Merge(r, m.payload.values)
<1>1. \A g \in Fields : r[g] \in RangeOf(g)
  BY ReadingRange
<1>2. q = [g \in Fields |-> q[g]] /\ \A g \in Fields : q[g] \in RangeOf(g)
  BY <1>1, FieldRanges DEF Merge, InRangeValues
<1> HIDE DEF q
<1>3. q \in Readings
  BY <1>2, FunctionsAreReadings
<1>4. QED
  BY <1>3 DEF q

(* What a payload of a sample holds: some of the readings, in full all of  *)
(* those there are.                                                        *)
LEMMA PayloadHolds ==
  ASSUME ViewTypeOK, NEW c \in Cameras
  PROVE  LET p == Payload(c) IN
         /\ p \in Payloads
         /\ \A f \in DOMAIN p.values : f \in Fields /\ p.values[f] = reading[c][f]
                                       /\ p.values[f] \in Values[f]
         /\ p.full => \A f \in Fields : reading[c][f] # Absent => f \in DOMAIN p.values
         /\ ~p.full => beat[c] + 1 < Heartbeat
<1> DEFINE r == reading[c]
<1>1. r \in [Fields -> Numbers \cup {Absent}] /\ \A f \in Fields : r[f] \in RangeOf(f)
  BY ReadingRange DEF ViewTypeOK
<1>2. ASSUME NEW S \in SUBSET Fields, \A f \in S : r[f] # Absent
      PROVE  /\ Restrict(r, S) \in [S -> Numbers]
             /\ \A f \in S : Restrict(r, S)[f] = r[f] /\ r[f] \in Values[f]
  BY <1>1, <1>2, FieldRanges DEF Restrict
<1> DEFINE All == {f \in Fields : r[f] # Absent}  Some == Changed(r, lastSent[c])
<1>3. /\ All \in SUBSET Fields /\ \A f \in All : r[f] # Absent
      /\ Some \in SUBSET Fields /\ \A f \in Some : r[f] # Absent
  BY DEF Changed
<1>4. /\ Restrict(r, All) \in [All -> Numbers] /\ Restrict(r, Some) \in [Some -> Numbers]
      /\ \A f \in All : Restrict(r, All)[f] = r[f] /\ r[f] \in Values[f]
      /\ \A f \in Some : Restrict(r, Some)[f] = r[f] /\ r[f] \in Values[f]
  BY <1>2, <1>3
<1>5. CASE lastSent[c] = Never \/ beat[c] + 1 >= Heartbeat
  <2>1. Payload(c) = [full |-> TRUE, values |-> Restrict(r, All)]
    BY <1>5 DEF Payload, Full
  <2> HIDE DEF Some
  <2>2. Restrict(r, All) \in UNION {[S -> Numbers] : S \in SUBSET Fields}
    BY <1>3, <1>4
  <2>3. QED
    BY <1>3, <1>4, <2>1, <2>2 DEF Payloads
<1>6. CASE ~(lastSent[c] = Never \/ beat[c] + 1 >= Heartbeat)
  <2>1. Payload(c) = [full |-> FALSE, values |-> Restrict(r, Some)]
    BY <1>6 DEF Payload
  <2>2. beat[c] + 1 < Heartbeat
    BY <1>6, WebViewAssumption DEF ViewTypeOK
  <2> HIDE DEF Some, All
  <2>3. Restrict(r, Some) \in UNION {[S -> Numbers] : S \in SUBSET Fields}
    BY <1>3, <1>4
  <2>4. QED
    BY <1>3, <1>4, <2>1, <2>2, <2>3 DEF Payloads
<1>7. QED
  BY <1>5, <1>6

-----------------------------------------------------------------------------
(* Types.                                                                  *)

LEMMA Bounds ==
  /\ Heartbeat \in Nat \ {0} /\ QueueCap \in Nat \ {0} /\ MaxLosses \in Nat
  BY WebViewAssumption

LEMMA InitTyped == ViewInit => Typed
<1> SUFFICES ASSUME ViewInit PROVE Typed
  OBVIOUS
<1>1. NoView \in Readings
  BY NoViewType
<1>2. queue = <<>> /\ queue \in Seq(Messages) /\ Len(queue) = 0 /\ DOMAIN queue = {}
  BY DEF ViewInit
<1>3. 0 \in 0 .. MaxLosses /\ 0 \in 0 .. Heartbeat /\ Heartbeat \in 0 .. Heartbeat /\ 0 <= QueueCap
  BY Bounds
<1>4. ViewTypeOK
  BY <1>1, <1>2, <1>3 DEF ViewInit, ViewTypeOK
<1>5. QED
  BY <1>2, <1>4 DEF Typed

(* What a sample does to the queue.                                        *)
LEMMA Delivered ==
  ASSUME Typed, NEW c \in Cameras, Deliver(c, Payload(c))
  PROVE  LET m == [camera |-> c, payload |-> Payload(c)] IN
         /\ m \in Messages /\ InRangeValues(m) /\ Agrees(c, m)
         /\ m.payload.full => Covers(c, m)
         /\ \/ session = "off" /\ UNCHANGED <<channel, losses, steady>>
            \/ /\ session # "off" /\ Len(queue) < QueueCap /\ queue' = Append(queue, m)
               /\ steady' = [steady EXCEPT ![c] = IF @ < Heartbeat THEN @ + 1 ELSE @]
               /\ UNCHANGED <<lagged, losses>>
            \/ /\ session # "off" /\ queue # <<>> /\ Len(queue) = QueueCap
               /\ queue' = Append(Tail(queue), m) /\ lagged' = TRUE
               /\ losses < MaxLosses /\ losses' = losses + 1
               /\ steady' = [steady EXCEPT ![c] = 0, ![Head(queue).camera] = 0]
<1> DEFINE p == Payload(c)  m == [camera |-> c, payload |-> p]
<1>1. /\ p \in Payloads
      /\ \A f \in DOMAIN p.values : f \in Fields /\ p.values[f] = reading[c][f]
                                    /\ p.values[f] \in Values[f]
      /\ p.full => \A f \in Fields : reading[c][f] # Absent => f \in DOMAIN p.values
  BY PayloadHolds DEF Typed
<1>2. m.camera = c /\ m.payload = p
  OBVIOUS
<1>3. m \in Messages
  BY <1>1 DEF Messages
<1>4. Deliver(c, p)
  OBVIOUS
<1>5. queue \in Seq(Messages)
  BY DEF Typed, ViewTypeOK
<1> HIDE DEF p
<1>6. InRangeValues(m) /\ Agrees(c, m) /\ (m.payload.full => Covers(c, m))
  BY <1>1, <1>2 DEF InRangeValues, Agrees, Covers
<1>7. Len(queue) = QueueCap => queue # <<>>
  BY <1>5, Bounds
<1>8. \/ session = "off" /\ UNCHANGED <<channel, losses, steady>>
      \/ /\ session # "off" /\ Len(queue) < QueueCap /\ queue' = Append(queue, m)
         /\ steady' = [steady EXCEPT ![c] = IF @ < Heartbeat THEN @ + 1 ELSE @]
         /\ UNCHANGED <<lagged, losses>>
      \/ /\ session # "off" /\ queue # <<>> /\ Len(queue) = QueueCap
         /\ queue' = Append(Tail(queue), m) /\ lagged' = TRUE
         /\ losses < MaxLosses /\ losses' = losses + 1
         /\ steady' = [steady EXCEPT ![c] = 0, ![Head(queue).camera] = 0]
  BY <1>4, <1>7 DEF Deliver, Overwrite
<1>9. QED
  BY <1>3, <1>6, <1>8 DEF p

LEMMA SampleTyped ==
  ASSUME Typed, NEW c \in Cameras, Sample(c)
  PROVE  Typed'
<1>1. /\ beat \in [Cameras -> 0 .. Heartbeat] /\ reading \in [Cameras -> Readings]
      /\ steady \in [Cameras -> 0 .. Heartbeat] /\ losses \in 0 .. MaxLosses
      /\ lastSent \in [Cameras -> Readings \cup {Never}] /\ lagged \in BOOLEAN
      /\ queue \in Seq(Messages) /\ Len(queue) <= QueueCap /\ DOMAIN queue = 1 .. Len(queue)
      /\ \A i \in DOMAIN queue : InRangeValues(queue[i])
  BY DEF Typed, ViewTypeOK
<1>2. beat' \in [Cameras -> 0 .. Heartbeat]
  <2>1. beat' = [beat EXCEPT ![c] = IF Payload(c).full THEN 0 ELSE @ + 1]
    BY DEF Sample
  <2>2. ~Payload(c).full => beat[c] + 1 < Heartbeat
    BY PayloadHolds DEF Typed
  <2>3. (IF Payload(c).full THEN 0 ELSE beat[c] + 1) \in 0 .. Heartbeat
    BY <1>1, <2>2, Bounds
  <2>4. QED
    BY <1>1, <2>1, <2>3
<1>3. lastSent' \in [Cameras -> Readings \cup {Never}]
  BY <1>1 DEF Sample
<1>4. /\ queue' \in Seq(Messages) /\ Len(queue') <= QueueCap /\ lagged' \in BOOLEAN
      /\ losses' \in 0 .. MaxLosses /\ steady' \in [Cameras -> 0 .. Heartbeat]
      /\ \A i \in DOMAIN queue' : InRangeValues(queue'[i])
  <2>1. CASE Deliver(c, Payload(c))
    <3> DEFINE m == [camera |-> c, payload |-> Payload(c)]
    <3>1. m \in Messages /\ InRangeValues(m)
      BY <2>1, Delivered
    <3>2. CASE session = "off" /\ UNCHANGED <<channel, losses, steady>>
      BY <1>1, <3>2 DEF channel
    <3>3. CASE /\ Len(queue) < QueueCap /\ queue' = Append(queue, m)
               /\ steady' = [steady EXCEPT ![c] = IF @ < Heartbeat THEN @ + 1 ELSE @]
               /\ UNCHANGED <<lagged, losses>>
      <4> HIDE DEF m
      <4>1. /\ queue' \in Seq(Messages) /\ Len(queue') = Len(queue) + 1
            /\ \A i \in 1 .. Len(queue) : queue'[i] = queue[i]
            /\ queue'[Len(queue) + 1] = m
        BY <1>1, <3>1, <3>3, AppendProperties
      <4>2. \A i \in DOMAIN queue' : InRangeValues(queue'[i])
        BY <1>1, <3>1, <4>1
      <4>3. (IF steady[c] < Heartbeat THEN steady[c] + 1 ELSE steady[c]) \in 0 .. Heartbeat
        BY <1>1, Bounds
      <4>4. steady' \in [Cameras -> 0 .. Heartbeat]
        BY <1>1, <3>3, <4>3
      <4>5. QED
        BY <1>1, <3>3, <4>1, <4>2, <4>4, Bounds
    <3>4. CASE /\ queue # <<>> /\ Len(queue) = QueueCap
               /\ queue' = Append(Tail(queue), m) /\ lagged' = TRUE
               /\ losses < MaxLosses /\ losses' = losses + 1
               /\ steady' = [steady EXCEPT ![c] = 0, ![Head(queue).camera] = 0]
      <4> DEFINE t == Tail(queue)
      <4>1. /\ t \in Seq(Messages) /\ Len(t) = Len(queue) - 1
            /\ \A i \in 1 .. Len(t) : t[i] = queue[i + 1]
        BY <1>1, <3>4, HeadTailProperties
      <4> HIDE DEF m, t
      <4>2. /\ queue' \in Seq(Messages) /\ Len(queue') = Len(t) + 1
            /\ \A i \in 1 .. Len(t) : queue'[i] = t[i]
            /\ queue'[Len(t) + 1] = m
        BY <3>1, <3>4, <4>1, AppendProperties DEF t
      <4>3. \A i \in DOMAIN queue' : InRangeValues(queue'[i])
        <5>1. ASSUME NEW i \in 1 .. Len(t) PROVE InRangeValues(queue'[i])
          <6>1. queue'[i] = queue[i + 1] /\ i + 1 \in DOMAIN queue
            BY <1>1, <4>1, <4>2
          <6>2. QED
            BY <1>1, <6>1
        <5>2. Len(t) \in Nat /\ DOMAIN queue' = 1 .. Len(t) + 1
          BY <4>1, <4>2
        <5>3. QED
          BY <3>1, <4>2, <5>1, <5>2
      <4>4. steady' \in [Cameras -> 0 .. Heartbeat]
        <5>1. 0 \in 0 .. Heartbeat
          BY Bounds
        <5>2. [steady EXCEPT ![c] = 0, ![Head(queue).camera] = 0] \in [Cameras -> 0 .. Heartbeat]
          BY <1>1, <5>1
        <5>3. QED
          BY <3>4, <5>2
      <4>5. losses' \in 0 .. MaxLosses
        BY <1>1, <3>4, Bounds
      <4>6. QED
        BY <1>1, <3>4, <4>1, <4>2, <4>3, <4>4, <4>5, Bounds
    <3>5. QED
      BY <2>1, <3>2, <3>3, <3>4, Delivered
  <2>2. CASE Lose(c)
    <3>1. losses' \in 0 .. MaxLosses
      BY <1>1, <2>2, Bounds DEF Lose
    <3>2. QED
      BY <1>1, <2>2, <3>1, Bounds DEF Lose, channel
  <2>3. CASE /\ UNCHANGED <<lastSent, channel, losses>>
             /\ steady' = [steady EXCEPT
                  ![c] = IF @ < Heartbeat /\ c \in online /\ session # "off" THEN @ + 1 ELSE @]
    <3>1. (IF steady[c] < Heartbeat /\ c \in online /\ session # "off"
           THEN steady[c] + 1 ELSE steady[c]) \in 0 .. Heartbeat
      BY <1>1, Bounds
    <3>2. QED
      BY <1>1, <2>3, <3>1 DEF channel
  <2>4. QED
    BY <2>1, <2>2, <2>3 DEF Sample
<1>5. QED
  BY <1>2, <1>3, <1>4 DEF Typed, ViewTypeOK, Sample, browser

LEMMA TypedStep ==
  ASSUME Typed, [ViewNext]_viewVars
  PROVE  Typed'
<1> USE DEF camera, channel, browser
<1>1. ASSUME NEW c \in Cameras, NEW f \in Fields, Change(c, f) PROVE Typed'
  <2>1. PICK v \in RangeOf(f) : reading' = [reading EXCEPT ![c][f] = v]
    BY <1>1 DEF Change
  <2>2. reading' \in [Cameras -> Readings]
    <3>1. reading \in [Cameras -> Readings]
      BY DEF Typed, ViewTypeOK
    <3>2. [reading[c] EXCEPT ![f] = v] \in Readings
      BY <3>1, ChangeType
    <3>3. QED
      BY <2>1, <3>1, <3>2
  <2>3. QED
    BY <1>1, <2>2, Bounds DEF Typed, ViewTypeOK, Change
<1>2. ASSUME NEW c \in Cameras, Arrive(c) PROVE Typed'
  BY <1>2 DEF Typed, ViewTypeOK, Arrive
<1>3. ASSUME NEW c \in Cameras, Depart(c) PROVE Typed'
  BY <1>3, Bounds DEF Typed, ViewTypeOK, Depart
<1>4. ASSUME NEW c \in Cameras, Sample(c) PROVE Typed'
  BY <1>4, SampleTyped
<1>5. CASE Join
  BY <1>5 DEF Typed, ViewTypeOK, Join
<1>6. CASE ListCameras
  BY <1>6 DEF Typed, ViewTypeOK, ListCameras
<1>7. CASE ListPeers
  BY <1>7 DEF Typed, ViewTypeOK, ListPeers
<1>8. CASE Leave
  <2>1. queue' = <<>> /\ queue' \in Seq(Messages) /\ Len(queue') = 0 /\ DOMAIN queue' = {}
    BY <1>8 DEF Leave
  <2>2. 0 \in 0 .. Heartbeat /\ 0 <= QueueCap /\ NoView \in Readings
    BY Bounds, NoViewType
  <2>3. /\ view' \in [Cameras -> Readings] /\ ready' \in [Cameras -> BOOLEAN]
        /\ steady' \in [Cameras -> 0 .. Heartbeat]
        /\ known' = {} /\ knownPeers' = {} /\ lagged' = FALSE /\ session' = "off"
    BY <1>8, <2>2 DEF Leave
  <2>4. ViewTypeOK'
    BY <1>8, <2>1, <2>2, <2>3 DEF Typed, ViewTypeOK, Leave
  <2>5. QED
    BY <2>1, <2>4 DEF Typed
<1>9. CASE Receive
  <2> DEFINE m == Head(queue)  t == Tail(queue)
  <2>1. /\ queue \in Seq(Messages) /\ queue # <<>> /\ Len(queue) <= QueueCap /\ Len(queue) \in Nat
        /\ DOMAIN queue = 1 .. Len(queue) /\ view \in [Cameras -> Readings]
        /\ ready \in [Cameras -> BOOLEAN] /\ \A i \in DOMAIN queue : InRangeValues(queue[i])
    BY <1>9 DEF Receive, Typed, ViewTypeOK
  <2>2. /\ m \in Messages /\ t \in Seq(Messages) /\ Len(t) = Len(queue) - 1
        /\ \A i \in 1 .. Len(t) : t[i] = queue[i + 1]
    BY <2>1, HeadTailProperties
  <2>3. m = queue[1] /\ 1 \in DOMAIN queue
    BY <2>1
  <2>4. /\ queue' = t /\ view' = [view EXCEPT ![m.camera] = Merge(@, m.payload.values)]
        /\ known' = known \cup {m.camera}
        /\ ready' = [ready EXCEPT ![m.camera] =
                       @ \/ m.payload.full \/ Core \subseteq DOMAIN m.payload.values]
    BY <1>9 DEF Receive, List
  <2> HIDE DEF m, t
  <2>5. m.camera \in Cameras /\ m.payload.full \in BOOLEAN
    BY <2>2 DEF Messages, Payloads
  <2>6. Merge(view[m.camera], m.payload.values) \in Readings
    BY <2>1, <2>2, <2>3, <2>5, MergeType
  <2>7. view' \in [Cameras -> Readings] /\ ready' \in [Cameras -> BOOLEAN]
    BY <2>1, <2>4, <2>5, <2>6
  <2>8. \A i \in DOMAIN queue' : InRangeValues(queue'[i])
    <3>1. ASSUME NEW i \in 1 .. Len(t) PROVE InRangeValues(t[i])
      <4>1. t[i] = queue[i + 1] /\ i + 1 \in DOMAIN queue
        BY <2>1, <2>2
      <4>2. QED
        BY <2>1, <4>1
    <3>2. DOMAIN t = 1 .. Len(t)
      BY <2>2
    <3>3. QED
      BY <2>4, <3>1, <3>2
  <2>9. queue' \in Seq(Messages) /\ Len(queue') <= QueueCap
    BY <2>1, <2>2, <2>4, Bounds
  <2>10. QED
    BY <1>9, <2>4, <2>5, <2>7, <2>8, <2>9 DEF Typed, ViewTypeOK, Receive
<1>10. CASE SessionLagged
  BY <1>10 DEF Typed, ViewTypeOK, SessionLagged
<1>11. CASE Tick
  BY <1>11 DEF Typed, ViewTypeOK, Tick
<1>12. CASE UNCHANGED viewVars
  BY <1>12 DEF Typed, ViewTypeOK, viewVars
<1>13. QED
  BY <1>1, <1>2, <1>3, <1>4, <1>5, <1>6, <1>7, <1>8, <1>9, <1>10, <1>11, <1>12 DEF ViewNext

-----------------------------------------------------------------------------
(* What moves in the queue leaves shown what is shown.                     *)

LEMMA QueueFacts ==
  ASSUME Typed
  PROVE  queue \in Seq(Messages) /\ Len(queue) \in Nat /\ DOMAIN queue = 1 .. Len(queue)
  BY DEF Typed, ViewTypeOK

LEMMA SameShown ==
  ASSUME NEW d \in Cameras, Shown(d) \/ OnItsWay(d), UNCHANGED queue,
         reading'[d] = reading[d], view'[d] = view[d], ready'[d] = ready[d]
  PROVE  Shown(d)' \/ OnItsWay(d)'
  BY DEF Shown, OnItsWay, Agrees, Covers, Matches

LEMMA AppendShown ==
  ASSUME Typed, NEW d \in Cameras, NEW m \in Messages, Agrees(d, m),
         queue' = Append(queue, m), UNCHANGED <<reading, view, ready>>,
         Shown(d) \/ OnItsWay(d)
  PROVE  Shown(d)' \/ OnItsWay(d)'
<1>1. /\ Len(queue) \in Nat /\ DOMAIN queue = 1 .. Len(queue)
      /\ DOMAIN queue' = 1 .. Len(queue) + 1 /\ Len(queue') = Len(queue) + 1
      /\ \A i \in DOMAIN queue : queue'[i] = queue[i]
      /\ queue'[Len(queue) + 1] = m
  BY QueueFacts, AppendProperties
<1>2. \A x : (Agrees(d, x)' <=> Agrees(d, x)) /\ (Covers(d, x)' <=> Covers(d, x))
  BY DEF Agrees, Covers
<1>3. CASE Shown(d)
  <2>1. \A i \in DOMAIN queue' : Agrees(d, queue'[i])
    BY <1>1, <1>3 DEF Shown
  <2>2. Matches(d)' /\ ready'[d]
    BY <1>3 DEF Shown, Matches
  <2>3. QED
    BY <1>2, <2>1, <2>2 DEF Shown
<1>4. CASE OnItsWay(d)
  <2>1. PICK i \in DOMAIN queue : Covers(d, queue[i]) /\ \A j \in i .. Len(queue) : Agrees(d, queue[j])
    BY <1>4 DEF OnItsWay
  <2>2. i \in DOMAIN queue' /\ Covers(d, queue'[i])
    BY <1>1, <2>1
  <2>3. ASSUME NEW j \in i .. Len(queue') PROVE Agrees(d, queue'[j])
    <3>1. (j \in DOMAIN queue /\ j \in i .. Len(queue)) \/ j = Len(queue) + 1
      BY <1>1, <2>1
    <3>2. QED
      BY <1>1, <2>1, <3>1
  <2>4. QED
    BY <1>2, <2>2, <2>3 DEF OnItsWay
<1>5. QED
  BY <1>3, <1>4

LEMMA CoverShown ==
  ASSUME NEW d \in Cameras, NEW q \in Seq(Messages), NEW m \in Messages,
         Agrees(d, m), Covers(d, m), queue' = Append(q, m), UNCHANGED reading
  PROVE  OnItsWay(d)'
<1>1. /\ Len(q) \in Nat /\ DOMAIN queue' = 1 .. Len(q) + 1 /\ Len(queue') = Len(q) + 1
      /\ queue'[Len(q) + 1] = m
  BY AppendProperties
<1>2. Agrees(d, m)' /\ Covers(d, m)'
  BY DEF Agrees, Covers
<1>3. \A j \in Len(q) + 1 .. Len(queue') : queue'[j] = m
  BY <1>1
<1>4. QED
  BY <1>1, <1>2, <1>3 DEF OnItsWay

LEMMA LastIndex == \A n \in Nat : \A i \in 1 .. n : i \in 1 .. n - 1 \/ i = n
  OBVIOUS

LEMMA NextIndex ==
  \A n, k, i \in Nat : \A j \in i - 1 .. k : j \in 1 .. n - 1 => j + 1 \in i .. n
  OBVIOUS

(* The rest of the queue, when its head is of another camera.              *)
LEMMA TailShown ==
  ASSUME Typed, NEW d \in Cameras, NEW m \in Messages, Agrees(d, m),
         queue # <<>>, Head(queue).camera # d,
         \/ queue' = Tail(queue)
         \/ queue' = Append(Tail(queue), m),
         reading'[d] = reading[d], view'[d] = view[d], ready'[d] = ready[d],
         Shown(d) \/ OnItsWay(d)
  PROVE  Shown(d)' \/ OnItsWay(d)'
<1> DEFINE t == Tail(queue)
<1>0. Len(queue) \in Nat
  BY QueueFacts
<1>1. /\ queue \in Seq(Messages) /\ Len(queue) \in Nat /\ DOMAIN queue = 1 .. Len(queue)
      /\ Head(queue) = queue[1]
      /\ t \in Seq(Messages) /\ Len(t) = Len(queue) - 1
      /\ \A i \in 1 .. Len(queue) - 1 : t[i] = queue[i + 1]
  BY QueueFacts, HeadTailProperties
<1>2. Len(queue) >= 1
  BY <1>1
<1> HIDE DEF t
<1>3. /\ \A i \in 1 .. Len(queue) - 1 : i \in DOMAIN queue' /\ queue'[i] = queue[i + 1]
      /\ \A i \in DOMAIN queue' : i \in 1 .. Len(queue) - 1 \/ queue'[i] = m
      /\ DOMAIN queue' = 1 .. Len(queue') /\ Len(queue') \in Nat
  <2>1. CASE queue' = t
    BY <1>1, <2>1
  <2>2. CASE queue' = Append(t, m)
    <3>5. t \in Seq(Messages) /\ Len(t) + 1 = Len(queue)
      BY <1>1
    <3>6. /\ Len(queue') = Len(t) + 1 /\ queue' \in Seq(Messages)
          /\ \A i \in 1 .. Len(t) : queue'[i] = t[i]
          /\ queue'[Len(t) + 1] = m
      BY <2>2, <3>5, AppendProperties
    <3>1. /\ Len(queue') = Len(queue) /\ DOMAIN queue' = 1 .. Len(queue)
          /\ \A i \in 1 .. Len(queue) - 1 : queue'[i] = t[i]
          /\ queue'[Len(queue)] = m
      BY <1>1, <3>5, <3>6
    <3>2. \A i \in 1 .. Len(queue) - 1 : i \in 1 .. Len(queue)
      BY <1>1
    <3>3. \A i \in 1 .. Len(queue) : i \in 1 .. Len(queue) - 1 \/ i = Len(queue)
      BY LastIndex, <1>0
    <3>4. QED
      BY <1>1, <3>1, <3>2, <3>3
  <2>3. QED
    BY <2>1, <2>2 DEF t
<1>4. \A x : (Agrees(d, x)' <=> Agrees(d, x)) /\ (Covers(d, x)' <=> Covers(d, x))
  BY DEF Agrees, Covers
<1>5. \A i \in 1 .. Len(queue) - 1 : i + 1 \in DOMAIN queue
  BY <1>1
<1>6. Agrees(d, m)
  OBVIOUS
<1>7. CASE Shown(d)
  <2>1. \A i \in DOMAIN queue : Agrees(d, queue[i])
    BY <1>7 DEF Shown
  <2>2. \A i \in DOMAIN queue' : Agrees(d, queue'[i])
    BY <1>3, <1>5, <1>6, <2>1
  <2>3. Matches(d)' /\ ready'[d]
    BY <1>7 DEF Shown, Matches
  <2>4. QED
    BY <1>4, <2>2, <2>3 DEF Shown
<1>8. CASE OnItsWay(d)
  <2>1. PICK i \in DOMAIN queue :
          Covers(d, queue[i]) /\ \A j \in i .. Len(queue) : Agrees(d, queue[j])
    BY <1>8 DEF OnItsWay
  <2>2. i # 1
    BY <1>1, <2>1 DEF Covers
  <2>3. i \in Nat /\ i - 1 \in 1 .. Len(queue) - 1 /\ (i - 1) + 1 = i
    BY <1>1, <2>1, <2>2
  <2>4. i - 1 \in DOMAIN queue' /\ queue'[i - 1] = queue[i]
    BY <1>3, <2>3
  <2>5. \A j \in i - 1 .. Len(queue') : j \in DOMAIN queue'
    BY <1>3, <2>3
  <2>6. \A j \in i - 1 .. Len(queue') : j \in 1 .. Len(queue) - 1 => j + 1 \in i .. Len(queue)
    BY NextIndex, <1>0, <1>3, <2>3
  <2>7. \A j \in i - 1 .. Len(queue') : Agrees(d, queue'[j])
    BY <1>3, <1>6, <2>1, <2>5, <2>6
  <2>8. QED
    BY <1>4, <2>1, <2>4, <2>7 DEF OnItsWay
<1>9. QED
  BY <1>7, <1>8

(* The head of the queue is merged into the view.                          *)
LEMMA ReceiveShown ==
  ASSUME Typed, Receive, NEW d \in Cameras, Head(queue).camera = d, Shown(d) \/ OnItsWay(d)
  PROVE  Shown(d)' \/ OnItsWay(d)'
<1> DEFINE t == Tail(queue)  n == Len(queue)  m == Head(queue)
<1>1. /\ queue \in Seq(Messages) /\ queue # <<>> /\ n \in Nat /\ DOMAIN queue = 1 .. n
      /\ m = queue[1] /\ m \in Messages
      /\ t \in Seq(Messages) /\ Len(t) = n - 1 /\ \A i \in 1 .. n - 1 : t[i] = queue[i + 1]
  BY QueueFacts, HeadTailProperties DEF Receive
<1>2. 1 \in DOMAIN queue
  BY <1>1
<1>3. /\ queue' = t /\ view' = [view EXCEPT ![d] = Merge(@, m.payload.values)]
      /\ ready' = [ready EXCEPT ![d] =
                     @ \/ m.payload.full \/ Core \subseteq DOMAIN m.payload.values]
      /\ UNCHANGED reading
      /\ view \in [Cameras -> Readings] /\ ready \in [Cameras -> BOOLEAN]
  BY DEF Receive, Typed, ViewTypeOK, camera
<1> HIDE DEF t, n, m
<1>4. /\ view'[d] = Merge(view[d], m.payload.values)
      /\ ready[d] \/ m.payload.full => ready'[d]
  BY <1>3
<1>5. DOMAIN queue' = 1 .. n - 1 /\ Len(queue') = n - 1 /\ \A i \in 1 .. n - 1 : queue'[i] = queue[i + 1]
  BY <1>1, <1>3
<1>6. \A x : (Agrees(d, x)' <=> Agrees(d, x)) /\ (Covers(d, x)' <=> Covers(d, x))
  BY <1>3 DEF Agrees, Covers
<1>7. m.camera = d
  BY DEF m
<1>8. CASE Agrees(d, m) /\ (\A i \in DOMAIN queue : Agrees(d, queue[i]))
           /\ (Covers(d, m) \/ (ready[d] /\ Matches(d)))
  <2>1. ready'[d]
    BY <1>4, <1>8 DEF Covers
  <2>2. ASSUME NEW f \in Fields, reading[d][f] # Absent PROVE view'[d][f] = reading[d][f]
    BY <1>4, <1>7, <1>8, <2>2 DEF Merge, Agrees, Covers, Matches
  <2>3. Matches(d)'
    BY <1>3, <2>2 DEF Matches
  <2>4. ASSUME NEW i \in DOMAIN queue' PROVE Agrees(d, queue'[i])
    <3>1. queue'[i] = queue[i + 1] /\ i + 1 \in DOMAIN queue
      BY <1>1, <1>5
    <3>2. QED
      BY <1>8, <3>1
  <2>5. QED
    BY <1>6, <2>1, <2>3, <2>4 DEF Shown
<1>9. CASE Shown(d)
  <2>1. Agrees(d, m) /\ ready[d] /\ Matches(d) /\ \A i \in DOMAIN queue : Agrees(d, queue[i])
    BY <1>1, <1>2, <1>9 DEF Shown
  <2>2. QED
    BY <1>8, <2>1
<1>10. CASE OnItsWay(d)
  <2>1. PICK i \in DOMAIN queue : Covers(d, queue[i]) /\ \A j \in i .. n : Agrees(d, queue[j])
    BY <1>10 DEF OnItsWay, n
  <2>2. CASE i = 1
    BY <1>1, <1>2, <1>8, <2>1, <2>2
  <2>3. CASE i # 1
    <3>1. i - 1 \in DOMAIN queue' /\ queue'[i - 1] = queue[i]
      <4>1. i \in Nat /\ i - 1 \in 1 .. n - 1 /\ (i - 1) + 1 = i
        BY <1>1, <2>1, <2>3
      <4>2. QED
        BY <1>5, <4>1
    <3>2. ASSUME NEW j \in i - 1 .. Len(queue') PROVE Agrees(d, queue'[j])
      <4>1. j \in 1 .. n - 1 /\ j + 1 \in i .. n
        BY <1>1, <1>5, <2>1, <2>3
      <4>2. queue'[j] = queue[j + 1]
        BY <1>5, <4>1
      <4>3. QED
        BY <2>1, <4>1, <4>2
    <3>3. QED
      BY <1>6, <2>1, <3>1, <3>2 DEF OnItsWay
  <2>4. QED
    BY <2>2, <2>3
<1>11. QED
  BY <1>9, <1>10

-----------------------------------------------------------------------------
(* Every step.                                                             *)

(* What Steady says of one camera.                                         *)
SteadyOf(d) ==
  /\ session = "off" => queue = <<>> /\ steady[d] = 0
  /\ steady[d] > 0 => beat[d] < Heartbeat
  /\ steady[d] > beat[d] => Shown(d) \/ OnItsWay(d)

LEMMA Counters ==
  ASSUME Typed, NEW d \in Cameras
  PROVE  /\ steady[d] \in Int /\ beat[d] \in Int /\ steady[d] >= 0 /\ beat[d] >= 0
         /\ steady[d] <= Heartbeat /\ beat[d] <= Heartbeat
  BY Bounds DEF Typed, ViewTypeOK

(* A camera that was just disturbed.                                       *)
LEMMA DisturbedIsSteady ==
  ASSUME Typed, NEW d \in Cameras, steady[d] = 0, session = "off" => queue = <<>>
  PROVE  SteadyOf(d)
  BY Counters DEF SteadyOf

(* Nothing of the camera moved, and the queue stayed as it was.            *)
LEMMA SteadyStays ==
  ASSUME NEW d \in Cameras, SteadyOf(d), UNCHANGED queue,
         session' = "off" => session = "off",
         reading'[d] = reading[d], view'[d] = view[d], ready'[d] = ready[d],
         steady'[d] = steady[d], beat'[d] = beat[d]
  PROVE  SteadyOf(d)'
<1>1. CASE steady[d] > beat[d]
  <2>1. Shown(d)' \/ OnItsWay(d)'
    BY <1>1, SameShown DEF SteadyOf
  <2>2. QED
    BY <2>1 DEF SteadyOf
<1>2. CASE ~(steady[d] > beat[d])
  BY <1>2 DEF SteadyOf
<1>3. QED
  BY <1>1, <1>2

(* A payload of the camera is queued, or there was nothing to send.        *)
LEMMA SampleCounts ==
  ASSUME Typed, NEW c \in Cameras, Sample(c)
  PROVE  /\ beat'[c] = IF Payload(c).full THEN 0 ELSE beat[c] + 1
         /\ beat'[c] < Heartbeat
         /\ \A d \in Cameras \ {c} : beat'[d] = beat[d]
         /\ UNCHANGED <<reading, session, view, ready>>
<1>1. beat' = [beat EXCEPT ![c] = IF Payload(c).full THEN 0 ELSE @ + 1]
  BY DEF Sample
<1>2. beat \in [Cameras -> 0 .. Heartbeat]
  BY DEF Typed, ViewTypeOK
<1>3. ~Payload(c).full => beat[c] + 1 < Heartbeat
  BY PayloadHolds DEF Typed
<1>4. /\ beat'[c] = IF Payload(c).full THEN 0 ELSE beat[c] + 1
      /\ \A d \in Cameras \ {c} : beat'[d] = beat[d]
  BY <1>1, <1>2
<1>5. beat'[c] < Heartbeat
  BY <1>3, <1>4, Bounds
<1>6. QED
  BY <1>4, <1>5 DEF Sample, browser

LEMMA SampleSteady ==
  ASSUME Typed, Steady, NEW c \in Cameras, Sample(c), NEW d \in Cameras
  PROVE  SteadyOf(d)'
<1> DEFINE m == [camera |-> c, payload |-> Payload(c)]
<1>1. /\ beat'[c] = IF Payload(c).full THEN 0 ELSE beat[c] + 1
      /\ beat'[c] < Heartbeat
      /\ \A e \in Cameras \ {c} : beat'[e] = beat[e]
      /\ UNCHANGED <<reading, session, view, ready>>
  BY SampleCounts
<1>2. Typed' /\ SteadyOf(d)
  BY SampleTyped DEF Steady, SteadyOf
<1>3. steady \in [Cameras -> 0 .. Heartbeat]
  BY DEF Typed, ViewTypeOK
<1>4. /\ steady[d] \in Int /\ beat[d] \in Int /\ steady[d] >= 0 /\ beat[d] >= 0
      /\ beat'[d] \in Int /\ steady'[d] \in Int /\ beat'[d] >= 0
  <2>1. /\ steady' \in [Cameras -> 0 .. Heartbeat] /\ beat' \in [Cameras -> 0 .. Heartbeat]
    BY <1>2 DEF Typed, ViewTypeOK
  <2>2. QED
    BY <2>1, Bounds, Counters
<1>5. session = "off" => queue = <<>> /\ steady[d] = 0
  BY <1>2 DEF SteadyOf
<1>6. CASE Deliver(c, Payload(c))
  <2>1. /\ m \in Messages /\ Agrees(c, m) /\ (m.payload.full => Covers(c, m))
        /\ m.camera = c /\ m.payload = Payload(c)
    BY <1>6, Delivered
  <2>2. d # c => Agrees(d, m)
    BY DEF Agrees
  <2> HIDE DEF m
  <2>3. CASE session = "off" /\ UNCHANGED <<channel, losses, steady>>
    BY <1>1, <1>4, <1>5, <2>3 DEF channel, SteadyOf
  <2>4. CASE /\ session # "off" /\ queue' = Append(queue, m)
             /\ steady' = [steady EXCEPT ![c] = IF @ < Heartbeat THEN @ + 1 ELSE @]
    <3>1. CASE d = c /\ m.payload.full
      <4>1. OnItsWay(d)'
        BY <1>1, <2>1, <2>4, <3>1, QueueFacts, CoverShown
      <4>2. QED
        BY <1>1, <2>4, <3>1, <4>1 DEF SteadyOf
    <3>2. CASE d # c \/ ~m.payload.full
      <4>1. Agrees(d, m)
        BY <2>1, <2>2
      <4>2. steady'[d] > beat'[d] => steady[d] > beat[d]
        <5>1. CASE d = c
          BY <1>1, <1>3, <1>4, <2>1, <2>4, <3>2, <5>1
        <5>2. CASE d # c
          BY <1>1, <1>3, <2>4, <5>2
        <5>3. QED
          BY <5>1, <5>2
      <4>3. steady'[d] > 0 => beat'[d] < Heartbeat
        BY <1>1, <1>2, <1>3, <2>4 DEF SteadyOf
      <4>4. CASE steady[d] > beat[d]
        <5>1. Shown(d)' \/ OnItsWay(d)'
          BY <1>1, <1>2, <2>1, <2>4, <4>1, <4>4, AppendShown DEF SteadyOf
        <5>2. QED
          BY <1>1, <2>4, <4>3, <5>1 DEF SteadyOf
      <4>5. CASE ~(steady[d] > beat[d])
        BY <1>1, <2>4, <4>2, <4>3, <4>5 DEF SteadyOf
      <4>6. QED
        BY <4>4, <4>5
    <3>3. QED
      BY <3>1, <3>2
  <2>5. CASE /\ session # "off" /\ queue # <<>> /\ queue' = Append(Tail(queue), m)
             /\ steady' = [steady EXCEPT ![c] = 0, ![Head(queue).camera] = 0]
    <3>1. CASE d = c \/ d = Head(queue).camera
      <4>1. steady'[d] = 0
        BY <1>3, <2>5, <3>1
      <4>2. QED
        BY <1>1, <1>4, <2>5, <4>1 DEF SteadyOf
    <3>2. CASE d # c /\ d # Head(queue).camera
      <4>1. steady'[d] = steady[d] /\ beat'[d] = beat[d]
        BY <1>1, <1>3, <2>5, <3>2
      <4>2. CASE steady[d] > beat[d]
        <5>1. Shown(d) \/ OnItsWay(d)
          BY <1>2, <4>2 DEF SteadyOf
        <5>2. Shown(d)' \/ OnItsWay(d)'
          BY <1>1, <2>1, <2>2, <2>5, <3>2, <5>1, TailShown
        <5>3. QED
          BY <1>1, <1>2, <2>5, <4>1, <5>2 DEF SteadyOf
      <4>3. CASE ~(steady[d] > beat[d])
        BY <1>1, <1>2, <2>5, <4>1, <4>3 DEF SteadyOf
      <4>4. QED
        BY <4>2, <4>3
    <3>3. QED
      BY <3>1, <3>2
  <2>6. QED
    BY <1>6, <2>3, <2>4, <2>5, Delivered DEF m
<1>7. CASE Lose(c)
  <2>1. steady' = [steady EXCEPT ![c] = 0] /\ queue' = queue
    BY <1>7 DEF Lose, channel
  <2>2. CASE d = c
    <3>1. steady'[d] = 0
      BY <1>3, <2>1, <2>2
    <3>2. QED
      BY <1>1, <1>4, <1>5, <2>1, <3>1 DEF SteadyOf
  <2>3. CASE d # c
    BY <1>1, <1>2, <1>3, <2>1, <2>3, SteadyStays
  <2>4. QED
    BY <2>2, <2>3
<1>8. CASE /\ ~Payload(c).full /\ UNCHANGED channel
           /\ steady' = [steady EXCEPT
                ![c] = IF @ < Heartbeat /\ c \in online /\ session # "off" THEN @ + 1 ELSE @]
  <2>1. queue' = queue
    BY <1>8 DEF channel
  <2>2. CASE d # c
    BY <1>1, <1>2, <1>3, <1>8, <2>1, <2>2, SteadyStays
  <2>3. CASE d = c
    <3>1. /\ steady'[d] > beat'[d] => steady[d] > beat[d]
          /\ session = "off" => steady'[d] = steady[d]
      BY <1>1, <1>3, <1>4, <1>8, <2>3
    <3>2. steady[d] > beat[d] => Shown(d)' \/ OnItsWay(d)'
      BY <1>1, <1>2, <2>1, SameShown DEF SteadyOf
    <3>3. QED
      BY <1>1, <1>5, <2>1, <2>3, <3>1, <3>2 DEF SteadyOf
  <2>4. QED
    BY <2>2, <2>3
<1>9. QED
  BY <1>6, <1>7, <1>8 DEF Sample

LEMMA InitSteady == ViewInit => Steady
  BY Bounds DEF ViewInit, Steady

LEMMA SteadyStep ==
  ASSUME Typed, Steady, [ViewNext]_viewVars
  PROVE  Steady'
<1> SUFFICES ASSUME NEW d \in Cameras PROVE SteadyOf(d)'
  BY DEF Steady, SteadyOf
<1> USE DEF camera, channel, browser
<1>1. SteadyOf(d)
  BY DEF Steady, SteadyOf
<1>2. steady \in [Cameras -> 0 .. Heartbeat] /\ reading \in [Cameras -> Readings]
  BY DEF Typed, ViewTypeOK
<1>3. Typed'
  BY TypedStep
<1>4. beat' \in [Cameras -> 0 .. Heartbeat]
  BY <1>3 DEF Typed, ViewTypeOK
<1>5. steady'[d] = 0 /\ (session' = "off" => queue' = <<>>) => SteadyOf(d)'
  BY <1>4, Bounds DEF SteadyOf
<1>6. ASSUME NEW c \in Cameras, NEW f \in Fields, Change(c, f) PROVE SteadyOf(d)'
  <2>1. CASE d = c
    <3>1. steady'[d] = 0 /\ UNCHANGED <<session, queue>>
      BY <1>2, <1>6, <2>1 DEF Change
    <3>2. QED
      BY <1>1, <1>5, <3>1 DEF SteadyOf
  <2>2. CASE d # c
    <3>1. /\ reading'[d] = reading[d] /\ steady'[d] = steady[d]
          /\ UNCHANGED <<session, queue, view, ready, beat>>
      BY <1>2, <1>6, <2>2 DEF Change
    <3>2. QED
      BY <1>1, <3>1, SteadyStays
  <2>3. QED
    BY <2>1, <2>2
<1>7. ASSUME NEW c \in Cameras, Arrive(c) PROVE SteadyOf(d)'
  BY <1>1, <1>7, SteadyStays DEF Arrive
<1>8. ASSUME NEW c \in Cameras, Depart(c) PROVE SteadyOf(d)'
  <2>1. CASE d = c
    <3>1. steady'[d] = 0 /\ UNCHANGED <<session, queue>>
      BY <1>2, <1>8, <2>1 DEF Depart
    <3>2. QED
      BY <1>1, <1>5, <3>1 DEF SteadyOf
  <2>2. CASE d # c
    <3>1. steady'[d] = steady[d] /\ UNCHANGED <<session, queue, view, ready, beat, reading>>
      BY <1>2, <1>8, <2>2 DEF Depart
    <3>2. QED
      BY <1>1, <3>1, SteadyStays
  <2>3. QED
    BY <2>1, <2>2
<1>9. ASSUME NEW c \in Cameras, Sample(c) PROVE SteadyOf(d)'
  BY <1>9, SampleSteady
<1>10. CASE Join
  BY <1>1, <1>10, SteadyStays DEF Join
<1>11. CASE ListCameras
  BY <1>1, <1>11, SteadyStays DEF ListCameras
<1>12. CASE ListPeers
  BY <1>1, <1>12, SteadyStays DEF ListPeers
<1>13. CASE Leave
  <2>1. steady'[d] = 0 /\ queue' = <<>>
    BY <1>13 DEF Leave
  <2>2. QED
    BY <1>5, <2>1
<1>14. CASE Receive
  <2>1. /\ UNCHANGED <<session, steady, beat, reading>> /\ session = "on" /\ queue # <<>>
        /\ queue' = Tail(queue)
        /\ \A e \in Cameras : e # Head(queue).camera => view'[e] = view[e] /\ ready'[e] = ready[e]
    BY <1>14 DEF Receive, Typed, ViewTypeOK
  <2>2. steady[d] > beat[d] => Shown(d)' \/ OnItsWay(d)'
    <3>1. CASE Head(queue).camera = d
      BY <1>1, <1>14, <3>1, ReceiveShown DEF SteadyOf
    <3>2. CASE Head(queue).camera # d
      <4>1. Head(queue) \in Messages /\ Agrees(d, Head(queue))
        BY <2>1, <3>2, QueueFacts, HeadTailProperties DEF Agrees
      <4>2. QED
        BY <1>1, <2>1, <3>2, <4>1, TailShown DEF SteadyOf
    <3>3. QED
      BY <3>1, <3>2
  <2>3. QED
    BY <1>1, <2>1, <2>2 DEF SteadyOf
<1>15. CASE SessionLagged
  BY <1>1, <1>15, SteadyStays DEF SessionLagged
<1>16. CASE Tick
  BY <1>1, <1>16, SteadyStays DEF Tick
<1>17. CASE UNCHANGED viewVars
  BY <1>1, <1>17, SteadyStays DEF viewVars
<1>18. QED
  BY <1>6, <1>7, <1>8, <1>9, <1>10, <1>11, <1>12, <1>13, <1>14, <1>15, <1>16, <1>17 DEF ViewNext

(* In every reachable state.                                               *)
LEMMA ViewInvariant == ViewSpec => []ViewInv
<1>1. ViewInit => ViewInv
  BY InitTyped, InitSteady DEF ViewInv
<1>2. ViewInv /\ [ViewNext]_viewVars => ViewInv'
  BY TypedStep, SteadyStep DEF ViewInv
<1>3. QED
  BY <1>1, <1>2, PTL DEF ViewSpec

(* A heartbeat's time without a change and without a loss, and a session   *)
(* that has read its queue shows what the sensors say: whatever was lost   *)
(* before, and however often a reading moved by less than its threshold    *)
(* (telemetry.rs:189, ws.rs).                                              *)
THEOREM BrowserCatchesUp == ViewSpec => []BrowserInStep
<1>1. ASSUME ViewInv, NEW c \in Cameras, steady[c] = Heartbeat,
             \A i \in DOMAIN queue : queue[i].camera # c
      PROVE  ready[c] /\ Matches(c)
  <2>1. steady[c] > 0 /\ (beat[c] < Heartbeat => steady[c] > beat[c])
    BY <1>1, Bounds
  <2>2. Shown(c) \/ OnItsWay(c)
    BY <1>1, <2>1 DEF ViewInv, Steady
  <2>3. ~OnItsWay(c)
    BY <1>1 DEF OnItsWay, Covers
  <2>4. QED
    BY <2>2, <2>3 DEF Shown
<1>2. ViewInv => BrowserInStep
  BY <1>1 DEF ViewInv, Typed, BrowserInStep, SteadyIsShown
<1>3. QED
  BY <1>2, ViewInvariant, PTL

-----------------------------------------------------------------------------
(* Commands routed to cameras, and their responses.                        *)

Routed(h) == {r \in Requests : chan[r] = h}

(* A request has a channel from when it is routed.                         *)
ChannelsGiven ==
  \A r \in Requests :
    /\ reqStage[r] = "new" => chan[r] = NoChan
    /\ reqStage[r] \in {"inserting", "sending", "waiting", "expired", "answered"}
         => chan[r] \in Chans
    /\ chan[r] = NoChan => reqStage[r] \in {"new", "failed"}

(* The ids of a channel are 1, 2, ... as far as requests were routed.      *)
IdsDrawn ==
  /\ \A h \in Chans :
       next_id[h] = IF Cardinality(Routed(h)) + 1 = IdModulus
                    THEN 0 ELSE Cardinality(Routed(h)) + 1
  /\ \A r \in Requests : chan[r] \in Chans =>
       id[r] \in 1 .. Cardinality(Routed(chan[r]))
  /\ \A r, s \in Requests : chan[r] \in Chans /\ chan[r] = chan[s] /\ id[r] = id[s]
       => r = s

(* What is on the wire was sent, to the channel of its request.            *)
Sent(h, m) ==
  /\ m.request \in Requests
  /\ chan[m.request] = h /\ id[m.request] = m.id
  /\ reqStage[m.request] \notin {"new", "inserting", "sending"}

(* A request on its way to the camera is there once, and not executed yet. *)
OnceTo(h) ==
  /\ \A i \in 1 .. Len(toCamera[h]) :
       Sent(h, toCamera[h][i]) /\ runs[toCamera[h][i].request] = 0
  /\ \A i, j \in 1 .. Len(toCamera[h]) :
       toCamera[h][i].request = toCamera[h][j].request => i = j

OnceToCamera == \A h \in Chans : OnceTo(h)

(* A response is "ready" or that to an executed request.                   *)
ResponsesExecuted ==
  \A h \in Chans : \A i \in 1 .. Len(fromCamera[h]) :
    \/ fromCamera[h][i].id = ReadyId
    \/ Sent(h, fromCamera[h][i]) /\ runs[fromCamera[h][i].request] = 1

UnsentNotRun ==
  \A r \in Requests :
    reqStage[r] \in {"new", "inserting", "sending"} =>
      runs[r] = 0 /\ answer[r] = NoRequest

ChannelsHaveKeys ==
  \A h \in Chans : chanStage[h] # "new" => chanKey[h] \in CameraKeys

RoutingIInv ==
  /\ RoutingExact
  /\ ChannelsGiven /\ IdsDrawn /\ OnceToCamera /\ ResponsesExecuted
  /\ UnsentNotRun /\ ChannelsHaveKeys

----------------------------------------------------------------------------
(* Ids.                                                                    *)

LEMMA IdRange ==
  /\ IdModulus \in Nat /\ IsFiniteSet(Requests)
  /\ Cardinality(Requests) \in Nat /\ Cardinality(Requests) < IdModulus
  /\ IdModulus > 1 /\ 0 \in Ids /\ 1 \in Ids
<1>1. IdModulus \in Nat /\ IdModulus > 1 /\ IsFiniteSet(Requests) /\ Cardinality(Requests) < IdModulus
  BY RoutingAssumption
<1>2. Cardinality(Requests) \in Nat
  BY <1>1, FS_CardinalityType
<1>3. QED
  BY <1>1, <1>2 DEF Ids

LEMMA NextIdIs ==
  ASSUME NEW i \in Ids
  PROVE  NextId(i) = IF i + 1 = IdModulus THEN 0 ELSE i + 1
<1>1. IdModulus \in Nat /\ IdModulus > 0 /\ i \in 0 .. IdModulus - 1
  BY IdRange DEF Ids
<1>2. CASE i + 1 = IdModulus
  BY <1>1, <1>2 DEF NextId
<1>3. CASE i + 1 < IdModulus
  BY <1>1, <1>3 DEF NextId
<1>4. QED
  BY <1>1, <1>2, <1>3

LEMMA RoutedFinite ==
  ASSUME NEW h
  PROVE  /\ IsFiniteSet(Routed(h)) /\ Cardinality(Routed(h)) \in Nat
         /\ Cardinality(Routed(h)) <= Cardinality(Requests)
<1>1. Routed(h) \subseteq Requests
  BY DEF Routed
<1>2. QED
  BY <1>1, IdRange, FS_Subset, FS_CardinalityType

(* While a request is new there is an id left for it.                      *)
LEMMA IdLeft ==
  ASSUME NEW h, NEW r \in Requests, chan[r] # h
  PROVE  Cardinality(Routed(h)) + 1 < IdModulus
<1>1. Routed(h) \subseteq Requests \ {r}
  BY DEF Routed
<1>2. IsFiniteSet(Requests \ {r}) /\ Cardinality(Requests \ {r}) = Cardinality(Requests) - 1
  BY IdRange, FS_RemoveElement
<1>3. Cardinality(Routed(h)) <= Cardinality(Requests) - 1
  BY <1>1, <1>2, FS_Subset
<1>4. QED
  BY <1>3, IdRange, RoutedFinite

(* Two requests of a channel with the same id are one.                     *)
LEMMA IdsTellApart ==
  ASSUME RoutingIInv, NEW r \in Requests, NEW s \in Requests,
         chan[r] \in Chans, chan[r] = chan[s], id[r] = id[s]
  PROVE  r = s
  BY DEF RoutingIInv, IdsDrawn

LEMMA InitEstablishes == RoutingInit => RoutingIInv
<1> SUFFICES ASSUME RoutingInit PROVE RoutingIInv
  OBVIOUS
<1>1. RoutingTypeOK
  <2>1. alive \in [Chans -> BOOLEAN]
    BY Zenon DEF RoutingInit
  <2>2. /\ toCamera \in [Chans -> Seq(Message)]
        /\ fromCamera \in [Chans -> Seq(Message)]
    BY DEF RoutingInit
  <2>3. /\ next_id \in [Chans -> Ids] /\ id \in [Requests -> Ids]
        /\ runs \in [Requests -> Nat]
    BY IdRange DEF RoutingInit
  <2>4. QED
    BY <2>1, <2>2, <2>3 DEF RoutingInit, RoutingTypeOK, ChanStages, ReqStages
<1>2. AnswersMatch /\ PendingWhileSent /\ NoDeadChannelListed
  BY RoutingAssumption DEF RoutingInit, AnswersMatch, PendingWhileSent, NoDeadChannelListed
<1>3. ChannelsGiven /\ UnsentNotRun /\ ChannelsHaveKeys
  BY RoutingAssumption DEF RoutingInit, ChannelsGiven, UnsentNotRun, ChannelsHaveKeys
<1>4. IdsDrawn
  <2>1. ASSUME NEW h \in Chans PROVE Cardinality(Routed(h)) = 0
    <3>1. Routed(h) = {}
      BY RoutingAssumption DEF RoutingInit, Routed
    <3>2. QED
      BY <3>1, FS_EmptySet
  <2>2. QED
    BY <2>1, IdRange, RoutingAssumption DEF RoutingInit, IdsDrawn
<1>5. OnceToCamera /\ ResponsesExecuted
  BY DEF RoutingInit, OnceToCamera, OnceTo, ResponsesExecuted
<1>6. QED
  BY <1>1, <1>2, <1>3, <1>4, <1>5 DEF RoutingIInv, RoutingExact

----------------------------------------------------------------------------
(* Channels.                                                               *)

(* Sequences of messages, by what a step does to one.                      *)
(* Only routing a request draws an id.                                     *)
LEMMA IdsStay ==
  ASSUME IdsDrawn, UNCHANGED <<next_id, chan, id>>
  PROVE  IdsDrawn'
  BY DEF IdsDrawn, Routed

LEMMA TailElements ==
  ASSUME NEW s \in Seq(Message), s # <<>>
  PROVE  /\ Tail(s) \in Seq(Message) /\ Head(s) \in Message
         /\ Head(s) = s[1] /\ Len(s) \in Nat /\ Len(s) >= 1
         /\ Len(Tail(s)) = Len(s) - 1
         /\ \A i \in 1 .. Len(Tail(s)) : Tail(s)[i] = s[i + 1] /\ i + 1 \in 1 .. Len(s)
  BY HeadTailProperties

LEMMA AppendElements ==
  ASSUME NEW s \in Seq(Message), NEW m \in Message
  PROVE  /\ Append(s, m) \in Seq(Message) /\ Len(s) \in Nat
         /\ Len(Append(s, m)) = Len(s) + 1
         /\ \A i \in 1 .. Len(s) + 1 :
              Append(s, m)[i] = IF i = Len(s) + 1 THEN m ELSE s[i]
  BY AppendProperties, LenProperties

(* The table of channels and the streams under them: nothing of this moves *)
(* a request, and a stream that breaks only loses messages.                *)
LEMMA ChannelsPreserve ==
  ASSUME RoutingIInv, NEW h \in Chans,
         \/ \E k \in CameraKeys : AcceptChannel(h, k)
         \/ InstallChannel(h) \/ Disconnect(h) \/ StopReading(h) \/ CleanupChannel(h)
  PROVE  RoutingIInv'
<1> USE DEF RoutingIInv, RoutingExact
<1>1. UNCHANGED <<next_id, pending, reqVars, runs>>
  BY DEF AcceptChannel, InstallChannel, Disconnect, StopReading, CleanupChannel,
     wireVars
<1>2. RoutingTypeOK'
  <2>1. /\ fromCamera' \in [Chans -> Seq(Message)]
        /\ toCamera' \in [Chans -> Seq(Message)]
    <3>1. /\ fromCamera \in [Chans -> Seq(Message)]
          /\ toCamera \in [Chans -> Seq(Message)]
      BY DEF RoutingTypeOK
    <3>2. <<>> \in Seq(Message)
      OBVIOUS
    <3>3. [id |-> ReadyId, request |-> NoRequest] \in Message
      BY IdRange DEF Message, ReadyId
    <3>4. <<[id |-> ReadyId, request |-> NoRequest]>> \in Seq(Message)
      BY <3>3
    <3>5. \/ fromCamera' = fromCamera
          \/ fromCamera' = [fromCamera EXCEPT ![h] = <<>>]
          \/ fromCamera' = [fromCamera EXCEPT
                              ![h] = <<[id |-> ReadyId, request |-> NoRequest]>>]
      BY DEF AcceptChannel, InstallChannel, Disconnect, StopReading,
         CleanupChannel, wireVars
    <3>6. toCamera' = toCamera \/ toCamera' = [toCamera EXCEPT ![h] = <<>>]
      BY DEF AcceptChannel, InstallChannel, Disconnect, StopReading,
         CleanupChannel, wireVars
    <3>7. QED
      BY <3>1, <3>2, <3>4, <3>5, <3>6, Zenon
  <2>2. /\ chanStage' \in [Chans -> ChanStages]
        /\ chanKey' \in [Chans -> CameraKeys \cup {NoCamera}]
    <3>1. CASE \E k \in CameraKeys : AcceptChannel(h, k)
      BY <3>1 DEF RoutingTypeOK, ChanStages, AcceptChannel
    <3>2. CASE InstallChannel(h) \/ CleanupChannel(h)
      BY <3>2 DEF RoutingTypeOK, ChanStages, InstallChannel, CleanupChannel
    <3>3. CASE Disconnect(h) \/ StopReading(h)
      BY <3>3 DEF RoutingTypeOK, ChanStages, Disconnect, StopReading
    <3>4. QED
      BY <3>1, <3>2, <3>3
  <2>3. alive' \in [Chans -> BOOLEAN]
    <3>1. \/ alive' = [alive EXCEPT ![h] = TRUE] \/ alive' = [alive EXCEPT ![h] = FALSE]
          \/ alive' = alive
      BY DEF AcceptChannel, InstallChannel, Disconnect, StopReading, CleanupChannel
    <3>2. alive \in [Chans -> BOOLEAN]
      BY DEF RoutingTypeOK
    <3>3. QED
      BY <3>1, <3>2, Zenon
  <2>4. camera_commands' \in [CameraKeys -> Chans \cup {NoChan}]
    BY DEF RoutingTypeOK, ChannelsHaveKeys, AcceptChannel, InstallChannel, Disconnect,
       StopReading, CleanupChannel, TableAfterCleanup
  <2>5. QED
    BY <1>1, <2>1, <2>2, <2>3, <2>4 DEF RoutingTypeOK, reqVars
<1>3. AnswersMatch' /\ PendingWhileSent' /\ ChannelsGiven' /\ UnsentNotRun' /\ IdsDrawn'
  BY <1>1, IdsStay DEF AnswersMatch, PendingWhileSent, ChannelsGiven, UnsentNotRun, reqVars
<1>4. NoDeadChannelListed'
  <2>1. CASE \E k \in CameraKeys : AcceptChannel(h, k)
    BY <2>1, RoutingAssumption DEF RoutingTypeOK, NoDeadChannelListed, AcceptChannel
  <2>2. CASE InstallChannel(h)
    BY <2>2, RoutingAssumption
       DEF RoutingTypeOK, NoDeadChannelListed, ChannelsHaveKeys, InstallChannel
  <2>3. CASE CleanupChannel(h)
    BY <2>3, RoutingAssumption
       DEF RoutingTypeOK, NoDeadChannelListed, ChannelsHaveKeys, CleanupChannel,
           TableAfterCleanup
  <2>4. CASE Disconnect(h) \/ StopReading(h)
    BY <2>4, RoutingAssumption
       DEF RoutingTypeOK, NoDeadChannelListed, Disconnect, StopReading
  <2>5. QED
    BY <2>1, <2>2, <2>3, <2>4
<1>5. ChannelsHaveKeys'
  BY DEF RoutingTypeOK, ChannelsHaveKeys, AcceptChannel, InstallChannel, Disconnect,
     StopReading, CleanupChannel
<1>6. OnceToCamera'
  <2>1. \A g \in Chans : toCamera'[g] = toCamera[g] \/ toCamera'[g] = <<>>
    BY DEF RoutingTypeOK, AcceptChannel, InstallChannel, Disconnect, StopReading,
       CleanupChannel, wireVars
  <2>2. \A g \in Chans : \A m : Sent(g, m) => Sent(g, m)'
    BY <1>1 DEF Sent, reqVars
  <2>3. UNCHANGED runs /\ Len(<<>>) = 0
    BY <1>1 DEF reqVars
  <2>4. OnceToCamera
    OBVIOUS
  <2>5. ASSUME NEW g \in Chans PROVE OnceTo(g)'
    <3>1. CASE toCamera'[g] = toCamera[g]
      <4>1. OnceTo(g)
        BY <2>4 DEF OnceToCamera
      <4>2. ASSUME NEW i \in 1 .. Len(toCamera'[g])
            PROVE  /\ Sent(g, toCamera[g][i])'
                   /\ runs'[toCamera'[g][i].request] = 0
        <5>1. Sent(g, toCamera[g][i]) /\ runs[toCamera[g][i].request] = 0
          BY <3>1, <4>1 DEF OnceTo
        <5>2. QED
          BY <2>2, <2>3, <3>1, <5>1
      <4>3. \A i, j \in 1 .. Len(toCamera'[g]) :
              toCamera'[g][i].request = toCamera'[g][j].request => i = j
        BY <3>1, <4>1 DEF OnceTo
      <4>4. QED
        BY <4>2, <4>3 DEF OnceTo
    <3>2. CASE toCamera'[g] = <<>>
      BY <2>3, <3>2 DEF OnceTo
    <3>3. QED
      BY <2>1, <3>1, <3>2
  <2>6. QED
    BY <2>5 DEF OnceToCamera
<1>7. ResponsesExecuted'
  <2>1. \A g \in Chans : \/ fromCamera'[g] = fromCamera[g]
                         \/ fromCamera'[g] = <<>>
                         \/ fromCamera'[g] = <<[id |-> ReadyId, request |-> NoRequest]>>
    BY DEF RoutingTypeOK, AcceptChannel, InstallChannel, Disconnect, StopReading,
       CleanupChannel, wireVars
  <2>2. QED
    BY <1>1, <2>1 DEF ResponsesExecuted, Sent, reqVars
<1>8. QED
  BY <1>2, <1>3, <1>4, <1>5, <1>6, <1>7

(* A request keeps its channel and id once they are on the wire, and every *)
(* execution is of a message on the wire: what is left of the responses    *)
(* still is as it should.                                                  *)
LEMMA ResponsesStay ==
  ASSUME RoutingIInv,
         \A q \in Requests : reqStage[q] \notin {"new", "inserting", "sending"} =>
           /\ chan'[q] = chan[q] /\ id'[q] = id[q]
           /\ reqStage'[q] \notin {"new", "inserting", "sending"},
         \A q \in Requests : runs[q] = 1 => runs'[q] = 1,
         \A g \in Chans : \A i \in 1 .. Len(fromCamera'[g]) :
           \E j \in 1 .. Len(fromCamera[g]) : fromCamera'[g][i] = fromCamera[g][j]
  PROVE  ResponsesExecuted'
<1> SUFFICES ASSUME NEW g \in Chans, NEW i \in 1 .. Len(fromCamera'[g]),
                    fromCamera'[g][i].id # ReadyId
             PROVE  (Sent(g, fromCamera[g][i]) /\ runs[fromCamera[g][i].request] = 1)'
  BY DEF ResponsesExecuted
<1>1. PICK j \in 1 .. Len(fromCamera[g]) : fromCamera'[g][i] = fromCamera[g][j]
  OBVIOUS
<1>2. Sent(g, fromCamera[g][j]) /\ runs[fromCamera[g][j].request] = 1
  BY <1>1 DEF RoutingIInv, ResponsesExecuted
<1>3. QED
  BY <1>1, <1>2 DEF Sent

(* What a response finds pending is the request whose result it carries,   *)
(* which was executed.                                                     *)
LEMMA ResponseFindsItsOwn ==
  ASSUME RoutingIInv, NEW h \in Chans, fromCamera[h] # <<>>,
         Head(fromCamera[h]).id # ReadyId,
         Addressee(h, Head(fromCamera[h])) # NoRequest
  PROVE  LET m == Head(fromCamera[h]) r == Addressee(h, m)
         IN /\ m \in Message /\ r \in Requests
            /\ m.request = r /\ runs[r] = 1
            /\ chan[r] = h /\ id[r] = m.id
            /\ reqStage[r] \in {"sending", "waiting", "expired"}
<1> DEFINE m == Head(fromCamera[h])
           r == Addressee(h, m)
<1>1. fromCamera[h] \in Seq(Message)
  BY DEF RoutingIInv, RoutingExact, RoutingTypeOK
<1>2. m \in Message /\ m = fromCamera[h][1] /\ 1 \in 1 .. Len(fromCamera[h])
  BY <1>1, TailElements
<1>3. m.id \in Ids
  BY <1>2 DEF Message
<1>4. r \in Requests /\ pending[h][m.id] = r
  BY <1>3 DEF RoutingIInv, RoutingExact, RoutingTypeOK, Addressee
<1>5. /\ chan[r] = h /\ id[r] = m.id
      /\ reqStage[r] \in {"sending", "waiting", "expired"}
  BY <1>3, <1>4 DEF RoutingIInv, RoutingExact, PendingWhileSent
<1>6. Sent(h, m) /\ runs[m.request] = 1
  BY <1>2 DEF RoutingIInv, ResponsesExecuted
<1>7. m.request = r
  BY <1>4, <1>5, <1>6, IdsTellApart DEF Sent
<1>8. QED
  BY <1>2, <1>4, <1>5, <1>6, <1>7

LEMMA ReadResponsePreserves ==
  ASSUME RoutingIInv, NEW h \in Chans, ReadResponse(h)
  PROVE  RoutingIInv'
<1> USE DEF RoutingIInv, RoutingExact
<1> DEFINE m == Head(fromCamera[h])
           r == Addressee(h, m)
<1>1. /\ fromCamera[h] # <<>> /\ fromCamera[h] \in Seq(Message)
      /\ fromCamera' = [fromCamera EXCEPT ![h] = Tail(@)]
      /\ UNCHANGED <<chanVars, next_id, toCamera, runs, chan, id>>
  BY DEF ReadResponse, RoutingTypeOK, reqVars
<1>2. UNCHANGED <<chanStage, chanKey, alive, camera_commands>>
  BY <1>1 DEF chanVars
<1>3. /\ fromCamera' \in [Chans -> Seq(Message)]
      /\ \A g \in Chans : g # h => fromCamera'[g] = fromCamera[g]
      /\ fromCamera'[h] = Tail(fromCamera[h])
  BY <1>1, TailElements DEF RoutingTypeOK
<1>4. NoDeadChannelListed' /\ ChannelsHaveKeys' /\ IdsDrawn'
  BY <1>1, <1>2, IdsStay DEF NoDeadChannelListed, ChannelsHaveKeys
<1>5. \A q \in Requests : \/ reqStage'[q] = reqStage[q]
                          \/ reqStage[q] = "waiting" /\ reqStage'[q] = "answered"
  BY DEF ReadResponse, RoutingTypeOK, reqVars
<1>6. OnceToCamera'
  BY <1>1, <1>5 DEF OnceToCamera, OnceTo, Sent
<1>7. ResponsesExecuted'
  <2>1. ASSUME NEW g \in Chans, NEW i \in 1 .. Len(fromCamera'[g])
        PROVE  \E j \in 1 .. Len(fromCamera[g]) : fromCamera'[g][i] = fromCamera[g][j]
    BY <1>1, <1>3, <2>1, TailElements
  <2>2. QED
    BY <1>1, <1>5, <2>1, ResponsesStay
<1>8. CASE UNCHANGED <<pending, reqVars>>
  <2>1. RoutingTypeOK'
    BY <1>1, <1>2, <1>3, <1>8 DEF RoutingTypeOK, reqVars
  <2>2. AnswersMatch' /\ PendingWhileSent' /\ ChannelsGiven' /\ UnsentNotRun'
    BY <1>1, <1>8 DEF AnswersMatch, PendingWhileSent, ChannelsGiven, UnsentNotRun,
       reqVars
  <2>3. QED
    BY <1>4, <1>6, <1>7, <2>1, <2>2
<1>9. CASE /\ m.id # ReadyId /\ r # NoRequest
           /\ pending' = [pending EXCEPT ![h][m.id] = NoRequest]
           /\ IF reqStage[r] = "waiting"
                THEN /\ reqStage' = [reqStage EXCEPT ![r] = "answered"]
                     /\ answer' = [answer EXCEPT ![r] = m.request]
                ELSE UNCHANGED <<reqStage, answer>>
  <2>1. /\ m \in Message /\ r \in Requests /\ m.request = r /\ runs[r] = 1
        /\ chan[r] = h /\ id[r] = m.id
        /\ reqStage[r] \in {"sending", "waiting", "expired"}
    BY <1>1, <1>9, ResponseFindsItsOwn
  <2>2. reqStage[r] # "sending"
    BY <2>1 DEF UnsentNotRun
  <2>3. m.id \in Ids
    BY <2>1 DEF Message
  <2>4. RoutingTypeOK'
    <3>1. pending' \in [Chans -> [Ids -> Requests \cup {NoRequest}]]
      BY <1>9, <2>3 DEF RoutingTypeOK
    <3>2. /\ reqStage' \in [Requests -> ReqStages]
          /\ answer' \in [Requests -> Requests \cup {NoRequest}]
      <4>1. reqStage \in [Requests -> ReqStages] /\ "answered" \in ReqStages
        BY DEF RoutingTypeOK, ReqStages
      <4>2. answer \in [Requests -> Requests \cup {NoRequest}]
        BY DEF RoutingTypeOK
      <4>3. QED
        BY <1>9, <2>1, <4>1, <4>2
    <3>3. QED
      BY <1>1, <1>2, <1>3, <3>1, <3>2 DEF RoutingTypeOK
  <2>5. AnswersMatch'
    BY <1>1, <1>9, <2>1 DEF AnswersMatch, RoutingTypeOK
  <2>6. ASSUME NEW g \in Chans, NEW i \in Ids
        PROVE  pending'[g][i] = IF g = h /\ i = m.id THEN NoRequest ELSE pending[g][i]
    BY <1>9, <2>3 DEF RoutingTypeOK
  <2>7. PendingWhileSent'
    <3>1. ASSUME NEW q \in Requests, reqStage'[q] \in {"sending", "waiting"}
          PROVE  pending'[chan'[q]][id'[q]] = q
      <4>1. reqStage[q] \in {"sending", "waiting"} /\ q # r
        BY <1>9, <2>1, <2>2, <3>1 DEF RoutingTypeOK
      <4>2. chan[q] \in Chans /\ id[q] \in Ids /\ pending[chan[q]][id[q]] = q
        BY <4>1 DEF RoutingTypeOK, ChannelsGiven, PendingWhileSent
      <4>3. ~(chan[q] = h /\ id[q] = m.id)
        BY <2>1, <4>1, <4>2, IdsTellApart
      <4>4. QED
        BY <1>1, <2>6, <4>2, <4>3
    <3>2. ASSUME NEW q \in Requests, NEW g \in Chans, NEW i \in Ids, pending'[g][i] = q
          PROVE  /\ reqStage'[q] \in {"sending", "waiting", "expired"}
                 /\ chan'[q] = g /\ id'[q] = i
      <4>1. pending[g][i] = q /\ ~(g = h /\ i = m.id)
        BY <2>6, <3>2, RoutingAssumption
      <4>2. reqStage[q] \in {"sending", "waiting", "expired"} /\ chan[q] = g /\ id[q] = i
        BY <4>1 DEF PendingWhileSent
      <4>3. q # r
        BY <2>1, <4>1, <4>2
      <4>4. QED
        BY <1>1, <1>9, <4>2, <4>3 DEF RoutingTypeOK
    <3>3. QED
      BY <3>1, <3>2 DEF PendingWhileSent
  <2>8. ChannelsGiven'
    BY <1>1, <1>5 DEF ChannelsGiven
  <2>9. UnsentNotRun'
    BY <1>1, <1>9, <2>1, <2>2 DEF UnsentNotRun, RoutingTypeOK
  <2>10. QED
    BY <1>4, <1>6, <1>7, <2>4, <2>5, <2>7, <2>8, <2>9
<1>10. QED
  BY <1>8, <1>9 DEF ReadResponse

(* A command is executed when its request was sent and not yet executed.   *)
LEMMA ExecutedIsSent ==
  ASSUME RoutingIInv, NEW h \in Chans, toCamera[h] # <<>>
  PROVE  LET m == Head(toCamera[h])
         IN m \in Message /\ Sent(h, m) /\ runs[m.request] = 0
<1>1. toCamera[h] \in Seq(Message)
  BY DEF RoutingIInv, RoutingExact, RoutingTypeOK
<1>2. /\ Head(toCamera[h]) \in Message
      /\ Head(toCamera[h]) = toCamera[h][1] /\ 1 \in 1 .. Len(toCamera[h])
  BY <1>1, TailElements
<1>3. QED
  BY <1>2 DEF RoutingIInv, OnceToCamera, OnceTo

LEMMA CameraExecutesPreserves ==
  ASSUME RoutingIInv, NEW h \in Chans, CameraExecutes(h)
  PROVE  RoutingIInv'
<1> USE DEF RoutingIInv, RoutingExact
<1> DEFINE m == Head(toCamera[h])
           q == m.request
<1>1. /\ toCamera[h] # <<>> /\ toCamera[h] \in Seq(Message)
      /\ fromCamera[h] \in Seq(Message)
      /\ toCamera' = [toCamera EXCEPT ![h] = Tail(@)]
      /\ runs' = [runs EXCEPT ![q] = @ + 1]
      /\ fromCamera' = [fromCamera EXCEPT ![h] = Append(@, m)]
      /\ UNCHANGED <<chanStage, chanKey, alive, camera_commands, next_id, pending,
                     reqStage, chan, id, answer>>
  BY DEF CameraExecutes, RoutingTypeOK, chanVars, reqVars
<1>2. /\ m \in Message /\ q \in Requests /\ chan[q] = h /\ id[q] = m.id
      /\ reqStage[q] \notin {"new", "inserting", "sending"} /\ runs[q] = 0
  BY <1>1, ExecutedIsSent DEF Sent
<1>3. /\ runs' \in [Requests -> Nat] /\ runs'[q] = 1
      /\ \A r \in Requests : r # q => runs'[r] = runs[r]
  BY <1>1, <1>2 DEF RoutingTypeOK
<1>4. RoutingTypeOK'
  <2>1. toCamera' \in [Chans -> Seq(Message)]
    BY <1>1, TailElements DEF RoutingTypeOK
  <2>2. fromCamera' \in [Chans -> Seq(Message)]
    BY <1>1, <1>2, AppendElements DEF RoutingTypeOK
  <2>3. QED
    BY <1>1, <1>3, <2>1, <2>2 DEF RoutingTypeOK
<1>5. AnswersMatch'
  BY <1>1, <1>2, <1>3 DEF AnswersMatch
<1>6. UnsentNotRun'
  BY <1>1, <1>2, <1>3 DEF UnsentNotRun
<1>7. /\ PendingWhileSent' /\ NoDeadChannelListed' /\ ChannelsGiven'
      /\ IdsDrawn' /\ ChannelsHaveKeys'
  <2>1. PendingWhileSent' /\ ChannelsGiven'
    BY <1>1 DEF PendingWhileSent, ChannelsGiven
  <2>2. NoDeadChannelListed' /\ ChannelsHaveKeys'
    BY <1>1 DEF NoDeadChannelListed, ChannelsHaveKeys
  <2>3. IdsDrawn'
    BY <1>1, IdsStay
  <2>4. QED
    BY <2>1, <2>2, <2>3
<1>8. OnceToCamera'
  <2>1. ASSUME NEW g \in Chans
        PROVE  \E d \in {0, 1} :
                 /\ g = h => d = 1
                 /\ Len(toCamera'[g]) = Len(toCamera[g]) - d
                 /\ Len(toCamera[g]) \in Nat
                 /\ \A i \in 1 .. Len(toCamera'[g]) :
                      toCamera'[g][i] = toCamera[g][i + d]
    <3>1. CASE g = h
      <4>1. toCamera'[h] = Tail(toCamera[h])
        BY <1>1 DEF RoutingTypeOK
      <4>2. /\ Len(toCamera[h]) \in Nat /\ Len(Tail(toCamera[h])) = Len(toCamera[h]) - 1
            /\ \A i \in 1 .. Len(Tail(toCamera[h])) :
                 Tail(toCamera[h])[i] = toCamera[h][i + 1]
        BY <1>1, TailElements
      <4>3. QED
        BY <3>1, <4>1, <4>2
    <3>2. CASE g # h
      <4>1. toCamera'[g] = toCamera[g] /\ Len(toCamera[g]) \in Nat
        BY <1>1, <3>2, LenProperties DEF RoutingTypeOK
      <4>2. QED
        BY <3>2, <4>1
    <3>3. QED
      BY <3>1, <3>2
  <2>2. ASSUME NEW g \in Chans, NEW i \in 1 .. Len(toCamera'[g])
        PROVE  (Sent(g, toCamera[g][i]) /\ runs[toCamera[g][i].request] = 0)'
    <3>1. PICK k \in 1 .. Len(toCamera[g]) : /\ toCamera'[g][i] = toCamera[g][k]
                                             /\ g = h => k # 1
      BY <2>1
    <3> DEFINE x == toCamera[g][k]
    <3>2. Sent(g, x) /\ runs[x.request] = 0
      BY DEF OnceToCamera, OnceTo
    <3>3. x.request # q
      <4>1. CASE g = h
        <5>1. m = toCamera[h][1] /\ 1 \in 1 .. Len(toCamera[h])
          BY <1>1, TailElements
        <5>2. QED
          BY <3>1, <4>1, <5>1 DEF OnceToCamera, OnceTo
      <4>2. CASE g # h
        BY <1>2, <3>2, <4>2 DEF Sent
      <4>3. QED
        BY <4>1, <4>2
    <3>4. x.request \in Requests /\ runs'[x.request] = 0
      BY <1>3, <3>2, <3>3 DEF Sent
    <3>5. /\ x.request \in Requests /\ chan'[x.request] = g /\ id'[x.request] = x.id
          /\ reqStage'[x.request] \notin {"new", "inserting", "sending"}
      BY <1>1, <3>2 DEF Sent
    <3>6. QED
      BY <3>1, <3>4, <3>5 DEF Sent
  <2>3. ASSUME NEW g \in Chans,
               NEW i \in 1 .. Len(toCamera'[g]), NEW j \in 1 .. Len(toCamera'[g]),
               toCamera'[g][i].request = toCamera'[g][j].request
        PROVE  i = j
    <3>1. PICK d \in {0, 1} :
            /\ Len(toCamera'[g]) = Len(toCamera[g]) - d
            /\ Len(toCamera[g]) \in Nat
            /\ \A k \in 1 .. Len(toCamera'[g]) : toCamera'[g][k] = toCamera[g][k + d]
      BY <2>1
    <3>2. i + d \in 1 .. Len(toCamera[g]) /\ j + d \in 1 .. Len(toCamera[g])
      BY <3>1
    <3>3. toCamera'[g][i] = toCamera[g][i + d] /\ toCamera'[g][j] = toCamera[g][j + d]
      BY <3>1
    <3>4. i + d = j + d
      BY <2>3, <3>2, <3>3 DEF OnceToCamera, OnceTo
    <3>5. QED
      BY <3>1, <3>4
  <2>4. QED
    BY <2>2, <2>3 DEF OnceToCamera, OnceTo
<1>9. ResponsesExecuted'
  <2> SUFFICES ASSUME NEW g \in Chans, NEW i \in 1 .. Len(fromCamera'[g]),
                      fromCamera'[g][i].id # ReadyId
               PROVE  (Sent(g, fromCamera[g][i]) /\ runs[fromCamera[g][i].request] = 1)'
    BY DEF ResponsesExecuted
  <2>1. ASSUME NEW x, Sent(g, x), runs[x.request] = 1
        PROVE  x.request # q /\ runs'[x.request] = 1
    BY <1>2, <1>3, <2>1 DEF Sent
  <2>2. CASE g = h /\ i = Len(fromCamera[h]) + 1
    <3>1. fromCamera'[g][i] = m
      BY <1>1, <1>2, <2>2, AppendElements DEF RoutingTypeOK
    <3>2. QED
      BY <1>1, <1>2, <1>3, <2>2, <3>1 DEF Sent
  <2>3. CASE ~(g = h /\ i = Len(fromCamera[h]) + 1)
    <3>1. i \in 1 .. Len(fromCamera[g]) /\ fromCamera'[g][i] = fromCamera[g][i]
      <4>1. CASE g = h
        BY <1>1, <1>2, <2>3, <4>1, AppendElements DEF RoutingTypeOK
      <4>2. CASE g # h
        BY <1>1, <4>2 DEF RoutingTypeOK
      <4>3. QED
        BY <4>1, <4>2
    <3>2. Sent(g, fromCamera[g][i]) /\ runs[fromCamera[g][i].request] = 1
      BY <3>1 DEF ResponsesExecuted
    <3>3. QED
      BY <1>1, <2>1, <3>1, <3>2 DEF Sent
  <2>4. QED
    BY <2>2, <2>3
<1>10. QED
  BY <1>4, <1>5, <1>6, <1>7, <1>8, <1>9

----------------------------------------------------------------------------
(* Requests.                                                               *)

LEMMA ToCameraStays ==
  ASSUME RoutingIInv, toCamera' = toCamera, runs' = runs,
         \A q \in Requests : reqStage[q] \notin {"new", "inserting", "sending"} =>
           /\ chan'[q] = chan[q] /\ id'[q] = id[q]
           /\ reqStage'[q] \notin {"new", "inserting", "sending"}
  PROVE  OnceToCamera'
  BY DEF RoutingIInv, OnceToCamera, OnceTo, Sent

(* A step of a request that moves neither the channels nor the wire.       *)
LEMMA WireUntouched ==
  ASSUME RoutingIInv, UNCHANGED <<chanVars, wireVars>>,
         \A q \in Requests : reqStage[q] \notin {"new", "inserting", "sending"} =>
           /\ chan'[q] = chan[q] /\ id'[q] = id[q]
           /\ reqStage'[q] \notin {"new", "inserting", "sending"}
  PROVE  /\ OnceToCamera' /\ ResponsesExecuted'
         /\ NoDeadChannelListed' /\ ChannelsHaveKeys'
<1>1. UNCHANGED <<chanStage, chanKey, alive, camera_commands, toCamera, fromCamera, runs>>
  BY DEF chanVars, wireVars
<1>2. OnceToCamera'
  BY <1>1, ToCameraStays
<1>3. ResponsesExecuted'
  BY <1>1, ResponsesStay
<1>4. NoDeadChannelListed' /\ ChannelsHaveKeys'
  BY <1>1 DEF RoutingIInv, RoutingExact, NoDeadChannelListed, ChannelsHaveKeys
<1>5. QED
  BY <1>2, <1>3, <1>4

LEMMA PendingAfter ==
  ASSUME RoutingIInv, NEW r \in Requests, chan[r] \in Chans,
         NEW e \in Requests \cup {NoRequest}, SetPending(r, e)
  PROVE  /\ pending' \in [Chans -> [Ids -> Requests \cup {NoRequest}]]
         /\ id[r] \in Ids
         /\ \A g \in Chans, i \in Ids :
              pending'[g][i] = IF g = chan[r] /\ i = id[r] THEN e ELSE pending[g][i]
<1>1. /\ pending \in [Chans -> [Ids -> Requests \cup {NoRequest}]]
      /\ id[r] \in Ids
  BY DEF RoutingIInv, RoutingExact, RoutingTypeOK
<1>2. QED
  BY <1>1 DEF SetPending

LEMMA StageMovesPreserves ==
  ASSUME RoutingIInv, NEW r \in Requests, RefuseRequest(r) \/ TimeOut(r)
  PROVE  RoutingIInv'
<1> USE DEF RoutingIInv, RoutingExact
<1>1. UNCHANGED <<chanVars, next_id, pending, wireVars, chan, id, answer>>
  BY DEF RefuseRequest, TimeOut
<1>2. UNCHANGED <<chanStage, chanKey, alive, camera_commands, toCamera, fromCamera, runs>>
  BY <1>1 DEF chanVars, wireVars
<1>3. \/ reqStage[r] = "new" /\ reqStage' = [reqStage EXCEPT ![r] = "failed"]
      \/ reqStage[r] = "waiting" /\ reqStage' = [reqStage EXCEPT ![r] = "expired"]
  BY DEF RefuseRequest, TimeOut
<1>4. reqStage \in [Requests -> ReqStages] /\ reqStage' \in [Requests -> ReqStages]
  BY <1>3 DEF RoutingTypeOK, ReqStages
<1>5. RoutingTypeOK'
  BY <1>1, <1>2, <1>4 DEF RoutingTypeOK
<1>6. AnswersMatch' /\ UnsentNotRun' /\ ChannelsGiven'
  BY <1>1, <1>2, <1>3, <1>4 DEF AnswersMatch, UnsentNotRun, ChannelsGiven
<1>7. PendingWhileSent'
  BY <1>1, <1>3, <1>4 DEF PendingWhileSent
<1>8. IdsDrawn'
  BY <1>1, IdsStay
<1>9. OnceToCamera' /\ ResponsesExecuted' /\ NoDeadChannelListed' /\ ChannelsHaveKeys'
  BY <1>1, <1>3, <1>4, WireUntouched
<1>10. QED
  BY <1>5, <1>6, <1>7, <1>8, <1>9

(* The request gives up: its entry goes, and no other.                     *)
LEMMA GiveUpPreserves ==
  ASSUME RoutingIInv, NEW r \in Requests, SendFails(r) \/ DropPending(r)
  PROVE  RoutingIInv'
<1> USE DEF RoutingIInv, RoutingExact
<1>1. UNCHANGED <<chanVars, next_id, wireVars, chan, id, answer>>
  BY DEF SendFails, DropPending
<1>2. UNCHANGED <<chanStage, chanKey, alive, camera_commands, toCamera, fromCamera, runs>>
  BY <1>1 DEF chanVars, wireVars
<1>3. /\ reqStage[r] \in {"sending", "expired"}
      /\ reqStage' = [reqStage EXCEPT ![r] = "failed"] /\ SetPending(r, NoRequest)
  BY DEF SendFails, DropPending
<1>4. reqStage \in [Requests -> ReqStages] /\ reqStage' \in [Requests -> ReqStages]
  BY <1>3 DEF RoutingTypeOK, ReqStages
<1>5. chan[r] \in Chans
  BY <1>3 DEF ChannelsGiven
<1>6. /\ pending' \in [Chans -> [Ids -> Requests \cup {NoRequest}]]
      /\ \A g \in Chans, i \in Ids :
           pending'[g][i] = IF g = chan[r] /\ i = id[r] THEN NoRequest ELSE pending[g][i]
  BY <1>3, <1>5, PendingAfter
<1>7. RoutingTypeOK'
  BY <1>1, <1>2, <1>4, <1>6 DEF RoutingTypeOK
<1>8. AnswersMatch' /\ UnsentNotRun' /\ ChannelsGiven'
  BY <1>1, <1>2, <1>3, <1>4 DEF AnswersMatch, UnsentNotRun, ChannelsGiven
<1>9. PendingWhileSent'
  <2>1. ASSUME NEW q \in Requests, reqStage'[q] \in {"sending", "waiting"}
        PROVE  pending'[chan'[q]][id'[q]] = q
    <3>1. reqStage[q] \in {"sending", "waiting"} /\ q # r
      BY <1>3, <1>4, <2>1
    <3>2. chan[q] \in Chans /\ id[q] \in Ids /\ pending[chan[q]][id[q]] = q
      BY <3>1 DEF RoutingTypeOK, ChannelsGiven, PendingWhileSent
    <3>3. ~(chan[q] = chan[r] /\ id[q] = id[r])
      BY <3>1, <3>2, IdsTellApart
    <3>4. QED
      BY <1>1, <1>6, <3>2, <3>3
  <2>2. ASSUME NEW q \in Requests, NEW g \in Chans, NEW i \in Ids, pending'[g][i] = q
        PROVE  /\ reqStage'[q] \in {"sending", "waiting", "expired"}
               /\ chan'[q] = g /\ id'[q] = i
    <3>1. pending[g][i] = q /\ ~(g = chan[r] /\ i = id[r])
      BY <1>6, <2>2, RoutingAssumption
    <3>2. reqStage[q] \in {"sending", "waiting", "expired"} /\ chan[q] = g /\ id[q] = i
      BY <3>1 DEF PendingWhileSent
    <3>3. QED
      BY <1>1, <1>3, <1>4, <3>1, <3>2
  <2>3. QED
    BY <2>1, <2>2 DEF PendingWhileSent
<1>10. IdsDrawn'
  BY <1>1, IdsStay
<1>11. OnceToCamera' /\ ResponsesExecuted' /\ NoDeadChannelListed' /\ ChannelsHaveKeys'
  BY <1>1, <1>3, <1>4, WireUntouched
<1>12. QED
  BY <1>7, <1>8, <1>9, <1>10, <1>11

(* The entry of the request's id is free: ids tell requests apart.         *)
LEMMA InsertPendingPreserves ==
  ASSUME RoutingIInv, NEW r \in Requests, InsertPending(r)
  PROVE  RoutingIInv'
<1> USE DEF RoutingIInv, RoutingExact
<1>1. UNCHANGED <<chanVars, next_id, wireVars, chan, id, answer>>
  BY DEF InsertPending
<1>2. UNCHANGED <<chanStage, chanKey, alive, camera_commands, toCamera, fromCamera, runs>>
  BY <1>1 DEF chanVars, wireVars
<1>3. /\ reqStage[r] = "inserting"
      /\ reqStage' = [reqStage EXCEPT ![r] = "sending"] /\ SetPending(r, r)
  BY DEF InsertPending
<1>4. reqStage \in [Requests -> ReqStages] /\ reqStage' \in [Requests -> ReqStages]
  BY <1>3 DEF RoutingTypeOK, ReqStages
<1>5. chan[r] \in Chans
  BY <1>3 DEF ChannelsGiven
<1>6. /\ pending' \in [Chans -> [Ids -> Requests \cup {NoRequest}]]
      /\ id[r] \in Ids
      /\ \A g \in Chans, i \in Ids :
           pending'[g][i] = IF g = chan[r] /\ i = id[r] THEN r ELSE pending[g][i]
  BY <1>3, <1>5, PendingAfter
<1>7. RoutingTypeOK'
  BY <1>1, <1>2, <1>4, <1>6 DEF RoutingTypeOK
<1>8. AnswersMatch' /\ UnsentNotRun' /\ ChannelsGiven'
  BY <1>1, <1>2, <1>3, <1>4 DEF AnswersMatch, UnsentNotRun, ChannelsGiven
<1>9. PendingWhileSent'
  <2>1. ASSUME NEW q \in Requests, reqStage'[q] \in {"sending", "waiting"}
        PROVE  pending'[chan'[q]][id'[q]] = q
    <3>1. CASE q = r
      BY <1>1, <1>5, <1>6, <3>1
    <3>2. CASE q # r
      <4>1. reqStage[q] \in {"sending", "waiting"}
        BY <1>3, <1>4, <2>1, <3>2
      <4>2. chan[q] \in Chans /\ id[q] \in Ids /\ pending[chan[q]][id[q]] = q
        BY <4>1 DEF RoutingTypeOK, ChannelsGiven, PendingWhileSent
      <4>3. ~(chan[q] = chan[r] /\ id[q] = id[r])
        BY <3>2, <4>2, IdsTellApart
      <4>4. QED
        BY <1>1, <1>6, <4>2, <4>3
    <3>3. QED
      BY <3>1, <3>2
  <2>2. ASSUME NEW q \in Requests, NEW g \in Chans, NEW i \in Ids, pending'[g][i] = q
        PROVE  /\ reqStage'[q] \in {"sending", "waiting", "expired"}
               /\ chan'[q] = g /\ id'[q] = i
    <3>1. CASE g = chan[r] /\ i = id[r]
      BY <1>1, <1>3, <1>4, <1>6, <2>2, <3>1
    <3>2. CASE ~(g = chan[r] /\ i = id[r])
      <4>1. reqStage[q] \in {"sending", "waiting", "expired"} /\ chan[q] = g /\ id[q] = i
        BY <1>6, <2>2, <3>2 DEF PendingWhileSent
      <4>2. QED
        BY <1>1, <1>3, <1>4, <4>1
    <3>3. QED
      BY <3>1, <3>2
  <2>3. QED
    BY <2>1, <2>2 DEF PendingWhileSent
<1>10. IdsDrawn'
  BY <1>1, IdsStay
<1>11. OnceToCamera' /\ ResponsesExecuted' /\ NoDeadChannelListed' /\ ChannelsHaveKeys'
  BY <1>1, <1>3, <1>4, WireUntouched
<1>12. QED
  BY <1>7, <1>8, <1>9, <1>10, <1>11

(* A request is written once, and was not executed before.                 *)
LEMMA SendRequestPreserves ==
  ASSUME RoutingIInv, NEW r \in Requests, SendRequest(r)
  PROVE  RoutingIInv'
<1> USE DEF RoutingIInv, RoutingExact
<1> DEFINE h == chan[r]
           m == [id |-> id[r], request |-> r]
<1>1. UNCHANGED <<chanVars, next_id, pending, fromCamera, runs, chan, id, answer>>
  BY DEF SendRequest
<1>2. UNCHANGED <<chanStage, chanKey, alive, camera_commands>>
  BY <1>1 DEF chanVars
<1>3. /\ reqStage[r] = "sending" /\ reqStage' = [reqStage EXCEPT ![r] = "waiting"]
      /\ toCamera' = [toCamera EXCEPT ![h] = Append(@, m)] \/ toCamera' = toCamera
  BY DEF SendRequest
<1>4. reqStage \in [Requests -> ReqStages] /\ reqStage' \in [Requests -> ReqStages]
  BY <1>3 DEF RoutingTypeOK, ReqStages
<1>5. h \in Chans /\ m \in Message
  BY <1>3 DEF ChannelsGiven, RoutingTypeOK, Message
<1>6. RoutingTypeOK'
  <2>1. toCamera \in [Chans -> Seq(Message)]
    BY DEF RoutingTypeOK
  <2>2. Append(toCamera[h], m) \in Seq(Message)
    BY <1>5, <2>1, AppendElements
  <2>3. toCamera' \in [Chans -> Seq(Message)]
    BY <1>3, <2>1, <2>2
  <2>4. QED
    BY <1>1, <1>2, <1>4, <2>3 DEF RoutingTypeOK
<1>7. AnswersMatch' /\ UnsentNotRun' /\ ChannelsGiven' /\ PendingWhileSent'
  BY <1>1, <1>3, <1>4
     DEF AnswersMatch, UnsentNotRun, ChannelsGiven, PendingWhileSent
<1>8. IdsDrawn' /\ NoDeadChannelListed' /\ ChannelsHaveKeys'
  BY <1>1, <1>2, IdsStay DEF NoDeadChannelListed, ChannelsHaveKeys
<1>9. \A q \in Requests : reqStage[q] \notin {"new", "inserting", "sending"} =>
        reqStage'[q] \notin {"new", "inserting", "sending"}
  BY <1>3, <1>4
<1>10. ResponsesExecuted'
  BY <1>1, <1>9, ResponsesStay
<1>11. OnceToCamera'
  <2>1. CASE toCamera' = toCamera
    BY <1>1, <1>9, <2>1, ToCameraStays
  <2>2. CASE toCamera' = [toCamera EXCEPT ![h] = Append(@, m)]
    <3>1. \A g \in Chans : g # h => toCamera'[g] = toCamera[g]
      BY <2>2 DEF RoutingTypeOK
    <3>2. /\ Len(toCamera[h]) \in Nat
          /\ Len(toCamera'[h]) = Len(toCamera[h]) + 1
          /\ \A i \in 1 .. Len(toCamera[h]) + 1 :
               toCamera'[h][i] = IF i = Len(toCamera[h]) + 1 THEN m ELSE toCamera[h][i]
      <4>1. toCamera'[h] = Append(toCamera[h], m) /\ toCamera[h] \in Seq(Message)
        BY <1>5, <2>2 DEF RoutingTypeOK
      <4>2. QED
        BY <1>5, <4>1, AppendElements
    <3>3. ASSUME NEW g \in Chans, NEW x, Sent(g, x), runs[x.request] = 0
          PROVE  /\ x.request \in Requests /\ chan'[x.request] = g /\ id'[x.request] = x.id
                 /\ reqStage'[x.request] \notin {"new", "inserting", "sending"}
                 /\ runs'[x.request] = 0 /\ x.request # r
      BY <1>1, <1>3, <1>9, <3>3 DEF Sent
    <3>4. /\ m.request = r /\ m.id = id[r] /\ chan'[r] = h /\ id'[r] = id[r]
          /\ reqStage'[r] = "waiting" /\ runs'[r] = 0
      BY <1>1, <1>3, <1>4 DEF UnsentNotRun
    <3>5. ASSUME NEW g \in Chans, NEW i \in 1 .. Len(toCamera'[g])
          PROVE  /\ (Sent(g, toCamera[g][i]) /\ runs[toCamera[g][i].request] = 0)'
                 /\ ~(g = h /\ i = Len(toCamera[h]) + 1) =>
                      /\ i \in 1 .. Len(toCamera[g])
                      /\ toCamera'[g][i] = toCamera[g][i]
                      /\ toCamera[g][i].request # r
      <4>1. CASE g = h /\ i = Len(toCamera[h]) + 1
        <5>1. toCamera'[g][i] = m
          BY <3>2, <4>1
        <5>2. QED
          BY <3>4, <4>1, <5>1 DEF Sent
      <4>2. CASE ~(g = h /\ i = Len(toCamera[h]) + 1)
        <5>1. i \in 1 .. Len(toCamera[g]) /\ toCamera'[g][i] = toCamera[g][i]
          BY <3>1, <3>2, <4>2
        <5>2. Sent(g, toCamera[g][i]) /\ runs[toCamera[g][i].request] = 0
          BY <5>1 DEF OnceToCamera, OnceTo
        <5>3. QED
          BY <3>3, <5>1, <5>2 DEF Sent
      <4>3. QED
        BY <4>1, <4>2
    <3>6. ASSUME NEW g \in Chans,
                 NEW i \in 1 .. Len(toCamera'[g]), NEW j \in 1 .. Len(toCamera'[g]),
                 toCamera'[g][i].request = toCamera'[g][j].request
          PROVE  i = j
      <4>1. CASE g = h /\ (i = Len(toCamera[h]) + 1 \/ j = Len(toCamera[h]) + 1)
        <5>1. ASSUME NEW k \in 1 .. Len(toCamera'[h])
              PROVE  toCamera'[h][k].request = r <=> k = Len(toCamera[h]) + 1
          <6>1. CASE k = Len(toCamera[h]) + 1
            BY <3>2, <3>4, <6>1
          <6>2. CASE k # Len(toCamera[h]) + 1
            BY <1>5, <3>5, <6>2
          <6>3. QED
            BY <6>1, <6>2
        <5>2. QED
          BY <3>6, <4>1, <5>1
      <4>2. CASE ~(g = h /\ (i = Len(toCamera[h]) + 1 \/ j = Len(toCamera[h]) + 1))
        <5>1. /\ i \in 1 .. Len(toCamera[g]) /\ toCamera'[g][i] = toCamera[g][i]
              /\ j \in 1 .. Len(toCamera[g]) /\ toCamera'[g][j] = toCamera[g][j]
          BY <3>5, <4>2
        <5>2. QED
          BY <3>6, <5>1 DEF OnceToCamera, OnceTo
      <4>3. QED
        BY <4>1, <4>2
    <3>7. QED
      BY <3>5, <3>6 DEF OnceToCamera, OnceTo
  <2>3. QED
    BY <1>3, <2>1, <2>2
<1>12. QED
  BY <1>6, <1>7, <1>8, <1>10, <1>11

(* The id drawn is one above those of all earlier requests of the channel. *)
LEMMA RouteRequestPreserves ==
  ASSUME RoutingIInv, NEW r \in Requests, NEW k \in CameraKeys, RouteRequest(r, k)
  PROVE  RoutingIInv'
<1> USE DEF RoutingIInv, RoutingExact
<1> DEFINE h == camera_commands[k]
           n == Cardinality(Routed(h))
           RoutedNext(g) == {q \in Requests : chan'[q] = g}
<1>1. /\ UNCHANGED <<chanVars, pending, wireVars, answer>>
      /\ reqStage[r] = "new" /\ reqStage' = [reqStage EXCEPT ![r] = "inserting"]
      /\ chan' = [chan EXCEPT ![r] = h] /\ id' = [id EXCEPT ![r] = next_id[h]]
      /\ next_id' = [next_id EXCEPT ![h] = NextId(@)]
      /\ h # NoChan
  BY DEF RouteRequest
<1>2. UNCHANGED <<chanStage, chanKey, alive, camera_commands, toCamera, fromCamera, runs>>
  BY <1>1 DEF chanVars, wireVars
<1>3. h \in Chans /\ chan[r] = NoChan
  BY <1>1 DEF RoutingTypeOK, ChannelsGiven
<1>4. reqStage \in [Requests -> ReqStages] /\ reqStage' \in [Requests -> ReqStages]
  BY <1>1 DEF RoutingTypeOK, ReqStages
<1>5. /\ chan' \in [Requests -> Chans \cup {NoChan}] /\ chan'[r] = h
      /\ \A q \in Requests : q # r => chan'[q] = chan[q]
  BY <1>1, <1>3 DEF RoutingTypeOK
<1>6. /\ id' \in [Requests -> Ids] /\ id'[r] = next_id[h]
      /\ \A q \in Requests : q # r => id'[q] = id[q]
  BY <1>1, <1>3 DEF RoutingTypeOK
<1>7. /\ n \in Nat /\ n + 1 < IdModulus /\ IdModulus \in Nat /\ next_id[h] = n + 1
  <2>1. n \in Nat /\ n + 1 < IdModulus /\ IdModulus \in Nat
    BY <1>3, RoutingAssumption, RoutedFinite, IdLeft, IdRange
  <2>2. QED
    BY <1>3, <2>1 DEF IdsDrawn
<1>8. /\ next_id' \in [Chans -> Ids]
      /\ next_id'[h] = IF n + 2 = IdModulus THEN 0 ELSE n + 2
      /\ \A g \in Chans : g # h => next_id'[g] = next_id[g]
  <2>1. next_id[h] \in Ids /\ next_id \in [Chans -> Ids]
    BY <1>3 DEF RoutingTypeOK
  <2>2. NextId(next_id[h]) = IF n + 2 = IdModulus THEN 0 ELSE n + 2
    BY <1>7, <2>1, NextIdIs
  <2>3. NextId(next_id[h]) \in Ids
    BY <1>7, <2>2 DEF Ids
  <2>4. QED
    BY <1>1, <1>3, <2>1, <2>2, <2>3
<1>9. RoutingTypeOK'
  BY <1>1, <1>2, <1>4, <1>5, <1>6, <1>8 DEF RoutingTypeOK
<1>10. AnswersMatch' /\ UnsentNotRun' /\ ChannelsGiven'
  <2>1. AnswersMatch'
    BY <1>1, <1>2, <1>4 DEF AnswersMatch
  <2>2. UnsentNotRun'
    BY <1>1, <1>2, <1>4 DEF UnsentNotRun
  <2>3. ChannelsGiven'
    BY <1>1, <1>3, <1>4, <1>5, RoutingAssumption DEF ChannelsGiven
  <2>4. QED
    BY <2>1, <2>2, <2>3
<1>11. PendingWhileSent'
  BY <1>1, <1>4, <1>5, <1>6 DEF PendingWhileSent
<1>12. Cardinality(RoutedNext(h)) = n + 1
  <2>1. r \notin Routed(h)
    BY <1>3, RoutingAssumption DEF Routed
  <2>2. RoutedNext(h) = Routed(h) \cup {r}
    BY <1>5 DEF Routed
  <2>3. QED
    BY <2>1, <2>2, RoutedFinite, FS_AddElement
<1>13. \A g \in Chans : g # h => RoutedNext(g) = Routed(g)
  BY <1>3, <1>5, RoutingAssumption DEF Routed
<1>14. IdsDrawn'
  <2>1. ASSUME NEW g \in Chans
        PROVE  next_id'[g] = IF Cardinality(RoutedNext(g)) + 1 = IdModulus
                             THEN 0 ELSE Cardinality(RoutedNext(g)) + 1
    <3>1. CASE g = h
      BY <1>7, <1>8, <1>12, <3>1
    <3>2. CASE g # h
      BY <1>8, <1>13, <3>2 DEF IdsDrawn
    <3>3. QED
      BY <3>1, <3>2
  <2>2. ASSUME NEW q \in Requests, chan'[q] \in Chans
        PROVE  id'[q] \in 1 .. Cardinality(RoutedNext(chan'[q]))
    <3>1. CASE q = r
      BY <1>5, <1>6, <1>7, <1>12, <3>1
    <3>2. CASE q # r
      <4>1. id[q] \in 1 .. Cardinality(Routed(chan[q])) /\ chan'[q] = chan[q] /\ id'[q] = id[q]
        BY <1>5, <1>6, <2>2, <3>2 DEF IdsDrawn
      <4>2. CASE chan[q] = h
        BY <1>7, <1>12, <4>1, <4>2
      <4>3. CASE chan[q] # h
        BY <1>13, <2>2, <4>1, <4>3
      <4>4. QED
        BY <4>2, <4>3
    <3>3. QED
      BY <3>1, <3>2
  <2>3. ASSUME NEW q \in Requests, chan[q] = h
        PROVE  id[q] < next_id[h]
    <3>1. id[q] \in 1 .. n
      BY <1>3, <2>3 DEF IdsDrawn
    <3>2. QED
      BY <1>7, <3>1
  <2>4. ASSUME NEW q \in Requests, NEW s \in Requests,
               chan'[q] \in Chans, chan'[q] = chan'[s], id'[q] = id'[s]
        PROVE  q = s
    <3>1. CASE q # r /\ s # r
      BY <1>5, <1>6, <2>4, <3>1 DEF IdsDrawn
    <3>2. CASE q = r /\ s # r
      <4>1. chan[s] = h /\ id[s] = next_id[h]
        BY <1>5, <1>6, <2>4, <3>2
      <4>2. QED
        BY <1>7, <2>3, <4>1
    <3>3. CASE s = r /\ q # r
      <4>1. chan[q] = h /\ id[q] = next_id[h]
        BY <1>5, <1>6, <2>4, <3>3
      <4>2. QED
        BY <1>7, <2>3, <4>1
    <3>4. QED
      BY <3>1, <3>2, <3>3
  <2>5. QED
    BY <2>1, <2>2, <2>4 DEF IdsDrawn, Routed
<1>15. OnceToCamera' /\ ResponsesExecuted' /\ NoDeadChannelListed' /\ ChannelsHaveKeys'
  BY <1>1, <1>4, <1>5, <1>6, WireUntouched
<1>16. QED
  BY <1>9, <1>10, <1>11, <1>14, <1>15

LEMMA StutterPreserves ==
  ASSUME RoutingIInv, UNCHANGED routingVars
  PROVE  RoutingIInv'
<1>1. UNCHANGED <<chanStage, chanKey, alive, camera_commands, next_id, pending,
                  toCamera, fromCamera, runs, reqStage, chan, id, answer>>
  BY DEF routingVars, chanVars, wireVars, reqVars
<1>2. (RoutingTypeOK /\ AnswersMatch /\ PendingWhileSent /\ NoDeadChannelListed)'
  BY <1>1 DEF RoutingIInv, RoutingExact, RoutingTypeOK, AnswersMatch, PendingWhileSent,
     NoDeadChannelListed
<1>3. (ChannelsGiven /\ IdsDrawn /\ UnsentNotRun /\ ChannelsHaveKeys)'
  BY <1>1 DEF RoutingIInv, ChannelsGiven, IdsDrawn, Routed, UnsentNotRun, ChannelsHaveKeys
<1>4. (OnceToCamera /\ ResponsesExecuted)'
  BY <1>1 DEF RoutingIInv, OnceToCamera, OnceTo, ResponsesExecuted, Sent
<1>5. QED
  BY <1>2, <1>3, <1>4 DEF RoutingIInv, RoutingExact

LEMMA NextPreserves ==
  ASSUME RoutingIInv, [RoutingNext]_routingVars
  PROVE  RoutingIInv'
<1>1. ASSUME NEW h \in Chans,
             \/ \E k \in CameraKeys : AcceptChannel(h, k)
             \/ InstallChannel(h) \/ Disconnect(h) \/ StopReading(h) \/ CleanupChannel(h)
      PROVE  RoutingIInv'
  BY <1>1, ChannelsPreserve
<1>2. ASSUME NEW h \in Chans, ReadResponse(h) PROVE RoutingIInv'
  BY <1>2, ReadResponsePreserves
<1>3. ASSUME NEW h \in Chans, CameraExecutes(h) PROVE RoutingIInv'
  BY <1>3, CameraExecutesPreserves
<1>4. ASSUME NEW r \in Requests, RefuseRequest(r) \/ TimeOut(r) PROVE RoutingIInv'
  BY <1>4, StageMovesPreserves
<1>5. ASSUME NEW r \in Requests, NEW k \in CameraKeys, RouteRequest(r, k) PROVE RoutingIInv'
  BY <1>5, RouteRequestPreserves
<1>6. ASSUME NEW r \in Requests, InsertPending(r) PROVE RoutingIInv'
  BY <1>6, InsertPendingPreserves
<1>7. ASSUME NEW r \in Requests, SendRequest(r) PROVE RoutingIInv'
  BY <1>7, SendRequestPreserves
<1>8. ASSUME NEW r \in Requests, SendFails(r) \/ DropPending(r) PROVE RoutingIInv'
  BY <1>8, GiveUpPreserves
<1>9. CASE UNCHANGED routingVars
  BY <1>9, StutterPreserves
<1>10. QED
  BY <1>1, <1>2, <1>3, <1>4, <1>5, <1>6, <1>7, <1>8, <1>9 DEF RoutingNext

LEMMA RoutingInvariant == RoutingSpec => []RoutingIInv
<1>1. RoutingIInv /\ [RoutingNext]_routingVars => RoutingIInv'
  BY NextPreserves
<1>2. QED
  BY <1>1, InitEstablishes, PTL DEF RoutingSpec

(* Routing is exact for any cameras, channels and requests: a request that *)
(* returns a result returns that of its own command, which was executed    *)
(* once; it is pending from before it is sent until it returns; the table  *)
(* lists no channel whose task has cleaned up (router.rs:458-554).         *)
THEOREM RoutingIsExact == RoutingSpec => []RoutingExact
<1>1. RoutingIInv => RoutingExact
  BY DEF RoutingIInv
<1>2. QED
  BY <1>1, RoutingInvariant, PTL

----------------------------------------------------------------------------
(* The command service.                                                    *)

StatusOf(s) ==
  IF s = "new" THEN "new"
  ELSE IF s = "answered" THEN "result"
  ELSE IF s = "failed" THEN "error" ELSE "asked"

LEMMA StatusIs ==
  /\ statusBar = [r \in Requests |-> StatusOf(reqStage[r])]
  /\ statusBar' = [r \in Requests |-> StatusOf(reqStage'[r])]
<1>1. ASSUME NEW s
      PROVE  (CASE s = "new" -> "new"
                [] s = "answered" -> "result"
                [] s = "failed" -> "error"
                [] OTHER -> "asked") = StatusOf(s)
  BY DEF StatusOf
<1>2. QED
  BY <1>1 DEF statusBar

LEMMA StatusMoves ==
  ASSUME NEW r \in Requests, NEW s, reqStage \in [Requests -> ReqStages],
         reqStage' = [reqStage EXCEPT ![r] = s]
  PROVE  /\ statusBar' = [statusBar EXCEPT ![r] = StatusOf(s)]
         /\ statusBar[r] = StatusOf(reqStage[r])
<1>1. statusBar' = [q \in Requests |-> StatusOf(reqStage'[q])]
  BY StatusIs
<1>2. \A q \in Requests : reqStage'[q] = IF q = r THEN s ELSE reqStage[q]
  OBVIOUS
<1>3. QED
  BY <1>1, <1>2, StatusIs

LEMMA StatusStays ==
  ASSUME reqStage' = reqStage PROVE statusBar' = statusBar
  BY DEF statusBar

LEMMA InitRefines == RoutingInit => Service!Init
<1> SUFFICES ASSUME RoutingInit PROVE Service!Init
  OBVIOUS
<1>1. statusBar = [r \in Requests |-> "new"]
  BY StatusIs DEF RoutingInit, StatusOf
<1>2. QED
  BY <1>1 DEF RoutingInit, Service!Init

(* A request that moves on without returning, or returns with an error.    *)
LEMMA RequestStepRefines ==
  ASSUME RoutingIInv, NEW r \in Requests,
         \/ RefuseRequest(r) \/ \E k \in CameraKeys : RouteRequest(r, k)
         \/ InsertPending(r) \/ SendRequest(r) \/ SendFails(r)
         \/ TimeOut(r) \/ DropPending(r)
  PROVE  [Service!Next]_(Service!serviceVars)
<1>1. reqStage \in [Requests -> ReqStages]
  BY DEF RoutingIInv, RoutingExact, RoutingTypeOK
<1>2. UNCHANGED runs
  BY DEF RefuseRequest, RouteRequest, InsertPending, SendRequest, SendFails, TimeOut,
     DropPending, wireVars
<1>3. CASE reqStage[r] = "new" /\ reqStage' = [reqStage EXCEPT ![r] = "inserting"]
  <2>1. StatusOf("new") = "new" /\ StatusOf("inserting") = "asked"
    BY DEF StatusOf
  <2>2. /\ statusBar' = [statusBar EXCEPT ![r] = StatusOf("inserting")]
        /\ statusBar[r] = StatusOf(reqStage[r])
    BY <1>1, <1>3, StatusMoves
  <2>3. statusBar[r] = "new" /\ statusBar' = [statusBar EXCEPT ![r] = "asked"]
    BY <1>3, <2>1, <2>2
  <2>4. Service!Ask(r)
    BY <1>2, <2>3 DEF Service!Ask
  <2>5. QED
    BY <2>4 DEF Service!Next
<1>4. CASE /\ reqStage[r] \in {"new", "sending", "expired"}
           /\ reqStage' = [reqStage EXCEPT ![r] = "failed"]
  <2>1. /\ statusBar[r] \in {"new", "asked"}
        /\ statusBar' = [statusBar EXCEPT ![r] = "error"]
    BY <1>1, <1>4, StatusMoves DEF StatusOf
  <2>2. Service!ReturnError(r)
    BY <1>2, <2>1 DEF Service!ReturnError
  <2>3. QED
    BY <2>2 DEF Service!Next
<1>5. CASE /\ reqStage[r] \in {"inserting", "sending", "waiting"}
           /\ \E s \in {"sending", "waiting", "expired"} :
                reqStage' = [reqStage EXCEPT ![r] = s]
  <2>1. statusBar[r] = "asked" /\ statusBar' = [statusBar EXCEPT ![r] = "asked"]
    BY <1>1, <1>5, StatusMoves DEF StatusOf
  <2>2. statusBar' = statusBar
    BY <2>1, StatusIs
  <2>3. QED
    BY <1>2, <2>2 DEF Service!serviceVars
<1>6. QED
  BY <1>3, <1>4, <1>5 DEF RefuseRequest, RouteRequest, InsertPending, SendRequest,
     SendFails, TimeOut, DropPending

LEMMA ReadResponseRefines ==
  ASSUME RoutingIInv, NEW h \in Chans, ReadResponse(h)
  PROVE  [Service!Next]_(Service!serviceVars)
<1> DEFINE m == Head(fromCamera[h])
           r == Addressee(h, m)
<1>1. UNCHANGED runs /\ reqStage \in [Requests -> ReqStages]
  BY DEF ReadResponse, RoutingIInv, RoutingExact, RoutingTypeOK
<1>2. CASE UNCHANGED reqStage
  BY <1>1, <1>2, StatusStays DEF Service!serviceVars
<1>3. CASE /\ fromCamera[h] # <<>> /\ m.id # ReadyId /\ r # NoRequest
           /\ reqStage[r] = "waiting" /\ reqStage' = [reqStage EXCEPT ![r] = "answered"]
  <2>1. r \in Requests /\ runs[r] = 1
    BY <1>3, ResponseFindsItsOwn
  <2>2. statusBar[r] = "asked" /\ statusBar' = [statusBar EXCEPT ![r] = "result"]
    BY <1>1, <1>3, <2>1, StatusMoves DEF StatusOf
  <2>3. Service!ReturnResult(r)
    BY <1>1, <2>1, <2>2 DEF Service!ReturnResult
  <2>4. QED
    BY <2>1, <2>3 DEF Service!Next
<1>4. QED
  BY <1>2, <1>3 DEF ReadResponse, reqVars

LEMMA CameraExecutesRefines ==
  ASSUME RoutingIInv, NEW h \in Chans, CameraExecutes(h)
  PROVE  [Service!Next]_(Service!serviceVars)
<1> DEFINE q == Head(toCamera[h]).request
<1>1. /\ toCamera[h] # <<>> /\ UNCHANGED reqStage
      /\ runs' = [runs EXCEPT ![q] = @ + 1]
  BY DEF CameraExecutes, reqVars
<1>2. /\ q \in Requests /\ runs[q] = 0
      /\ reqStage[q] # "new"
  BY <1>1, ExecutedIsSent DEF Sent
<1>3. runs' = [runs EXCEPT ![q] = 1]
  BY <1>1, <1>2 DEF RoutingIInv, RoutingExact, RoutingTypeOK
<1>4. statusBar[q] # "new" /\ UNCHANGED statusBar
  BY <1>1, <1>2, StatusIs, StatusStays DEF StatusOf
<1>5. Service!Execute(q)
  BY <1>2, <1>3, <1>4 DEF Service!Execute
<1>6. QED
  BY <1>2, <1>5 DEF Service!Next

LEMMA StepRefines ==
  ASSUME RoutingIInv, [RoutingNext]_routingVars
  PROVE  [Service!Next]_(Service!serviceVars)
<1>1. ASSUME NEW h \in Chans,
             \/ \E k \in CameraKeys : AcceptChannel(h, k)
             \/ InstallChannel(h) \/ Disconnect(h) \/ StopReading(h) \/ CleanupChannel(h)
      PROVE  [Service!Next]_(Service!serviceVars)
  <2>1. UNCHANGED <<reqStage, runs>>
    BY <1>1 DEF AcceptChannel, InstallChannel, Disconnect, StopReading,
       CleanupChannel, wireVars, reqVars
  <2>2. QED
    BY <2>1, StatusStays DEF Service!serviceVars
<1>2. ASSUME NEW h \in Chans, ReadResponse(h)
      PROVE  [Service!Next]_(Service!serviceVars)
  BY <1>2, ReadResponseRefines
<1>3. ASSUME NEW h \in Chans, CameraExecutes(h)
      PROVE  [Service!Next]_(Service!serviceVars)
  BY <1>3, CameraExecutesRefines
<1>4. ASSUME NEW r \in Requests,
             \/ RefuseRequest(r) \/ \E k \in CameraKeys : RouteRequest(r, k)
             \/ InsertPending(r) \/ SendRequest(r) \/ SendFails(r)
             \/ TimeOut(r) \/ DropPending(r)
      PROVE  [Service!Next]_(Service!serviceVars)
  BY <1>4, RequestStepRefines
<1>5. CASE UNCHANGED routingVars
  BY <1>5, StatusStays DEF routingVars, wireVars, reqVars, Service!serviceVars
<1>6. QED
  BY <1>1, <1>2, <1>3, <1>4, <1>5 DEF RoutingNext

(* Whatever channels break, reconnect or answer late, clients see the      *)
(* command service: a command is executed at most once, a request returns  *)
(* once, and a result only after the execution (router.rs:458-554).        *)
THEOREM RoutingImplementsService == RoutingSpec => ImplementsService
<1>1. RoutingIInv /\ [RoutingNext]_routingVars => [Service!Next]_(Service!serviceVars)
  BY StepRefines
<1>2. QED
  BY <1>1, InitRefines, RoutingInvariant, PTL DEF RoutingSpec, ImplementsService, Service!Spec
=============================================================================
