---------------------------- MODULE RefreshProofs ----------------------------
(***************************************************************************)
(* A refresh and the disk it writes, for any disks, readers, ports,        *)
(* ranges and budgets: nobody else's blocks are touched, a rewrite changes *)
(* nothing, and a key is one disk's.                                       *)
(***************************************************************************)
EXTENDS Refresh, FiniteSetTheorems, WellFoundedInduction, TLAPS

\* The daemon has nothing but serials, capacities and ports to tell disks apart
\* by.  A disk has a name of its own if its device alone answers with its serial.
OwnName(d) ==
  /\ Serial[d] # NoSerial
  /\ \A e \in Disk : Serial[e] = Serial[d] => Device[e] = Device[d]

\* Of two disks of one capacity, in one reader or anywhere, one has such a name.
SlotsToldApart ==
  \A d, e \in Disk : d # e /\ Device[d] = Device[e] /\ Size[d] = Size[e] => OwnName(d)
ToldApart == \A d, e \in Disk : d # e /\ Size[d] = Size[e] => OwnName(d) \/ OwnName(e)

-----------------------------------------------------------------------------
(***************************************************************************)
(* The invariants.                                                         *)
(***************************************************************************)

\* A device is attached with all its disks, at a port of its own, and no two
\* disks have one name.
BusInv ==
  /\ Attached \subseteq Disk /\ mounted \subseteq Attached
  /\ \A d \in Attached : LunsOf(Device[d]) \subseteq Attached
  /\ \A d, e \in Attached : bus[d].port = bus[e].port <=> Device[d] = Device[e]
  /\ \A d, e \in Attached : bus[d].node = bus[e].node => d = e

Content == (Disk \cup {NoDisk}) \X Nat
Holding == {"top", "read", "write", "sync"}

\* Where the loop stands, and that it holds a disk while it runs and no longer.
LoopInv ==
  /\ TypeOK
  /\ content \in [Disk -> [Block -> Content]] /\ buf \in Content
  /\ fresh \in [Disk -> SUBSET Block]
  /\ handle # NoDisk <=> phase \in Holding
  /\ target = NoDisk <=> phase = "idle"
  /\ phase = "idle" => off = 0
  /\ phase \in {"read", "write"} => off < Last
  /\ phase = "sync" \/ result = "complete" => off = Last
  /\ phase # "ended" => result = "none" /\ drops <= MaxDropouts
  /\ phase = "read" => mode = "rewrite"

\* What a rewrite is about to write is what is there.
Unchanged ==
  mode = "rewrite" =>
    /\ \A d \in Disk, b \in Block : content[d][b] = <<d, b>>
    /\ phase = "write" => buf = <<handle, off>>

\* The identity that was confirmed is the target's.
WantInv ==
  phase # "idle" =>
    /\ Serial[target] # NoSerial /\ want.size = Size[target]
    /\ \/ /\ ~want.stable /\ ~OwnName(target)
          /\ \E p : want.key = [port |-> p, size |-> Size[target]]
       \/ /\ LunsOf(Device[target]) # {target}
          /\ \E h : want.key = [serial |-> Serial[target], lun |-> <<h, Lun[target]>>]
       \/ want.key = [serial |-> Serial[target]]

\* What is resolved is the target, and what is open is the target, where it was
\* resolved for as long as it is there.
OursInv ==
  /\ Resolved => target \in Attached /\ at = bus[target]
  /\ handle # NoDisk =>
       /\ handle = target
       /\ ~dead => target \in Attached \ mounted /\ bus[target] = at
  /\ target # NoDisk => \A b \in Block : b < off => b \in fresh[target] \cup skipped
  /\ mode = "zero" => \A d \in Disk, b \in Block : content[d][b] = <<d, b>> \/ d = target

-----------------------------------------------------------------------------
(***************************************************************************)
(* Counting.                                                               *)
(***************************************************************************)

LEMMA TwoAreMore ==
  ASSUME NEW S, IsFiniteSet(S), NEW a \in S, NEW b \in S, a # b
  PROVE  Cardinality(S) > 1
<1>1. {b} \in SUBSET (S \ {a}) /\ IsFiniteSet(S \ {a})
  BY FS_RemoveElement
<1>2. Cardinality({b}) = 1 /\ Cardinality({b}) <= Cardinality(S \ {a})
  BY <1>1, FS_Singleton, FS_Subset
<1>3. Cardinality(S \ {a}) = Cardinality(S) - 1 /\ Cardinality(S) \in Nat
  BY FS_RemoveElement, FS_CardinalityType
<1> QED
  BY <1>2, <1>3

\* A finite set of numbers has a greatest one.
LEMMA GreatestOf ==
  ASSUME NEW S \in SUBSET Nat, IsFiniteSet(S), S # {}
  PROVE  \E n \in S : \A k \in S : k <= n
<1> DEFINE Bad == {X \in SUBSET Nat : IsFiniteSet(X) /\ X # {} /\ ~ \E n \in X : \A k \in X : k <= n}
<1>1. SUFFICES ASSUME Bad # {} PROVE FALSE
  OBVIOUS
<1>2. Bad \subseteq FiniteSubsetsOf(Nat)
  BY DEF FiniteSubsetsOf
<1>3. PICK X \in Bad : \A Y \in Bad : ~(<<Y, X>> \in StrictSubsetOrdering(Nat))
  <2> HIDE DEF Bad
  <2> QED
    BY <1>1, <1>2, FS_StrictSubsetOrderingWellFounded, WFMin, Zenon
<1>4. PICK x \in X : TRUE
  OBVIOUS
<1>5. X \ {x} \in SUBSET Nat /\ IsFiniteSet(X \ {x}) /\ <<X \ {x}, X>> \in StrictSubsetOrdering(Nat)
  BY <1>4, FS_RemoveElement DEF StrictSubsetOrdering
<1>6. X \ {x} \notin Bad
  BY <1>3, <1>5
<1>7. CASE X = {x}
  BY <1>7
<1>8. CASE X # {x}
  <2>1. PICK m \in X \ {x} : \A k \in X \ {x} : k <= m
    BY <1>4, <1>5, <1>6, <1>8
  <2>2. m \in Nat /\ x \in Nat /\ X \subseteq Nat
    BY <1>4, <2>1
  <2>3. CASE m <= x
    <3>1. \A k \in X : k <= x
      BY <2>1, <2>2, <2>3
    <3> QED
      BY <1>4, <3>1
  <2>4. CASE ~(m <= x)
    <3>1. \A k \in X : k <= m
      BY <2>1, <2>2, <2>4
    <3> QED
      BY <2>1, <3>1
  <2> QED
    BY <2>3, <2>4
<1> QED
  BY <1>7, <1>8

\* Every set of more than k numbers has a k-th one.
LEMMA NthThere ==
  ASSUME NEW S \in SUBSET Nat, IsFiniteSet(S), NEW k \in Nat, k < Cardinality(S)
  PROVE  \E n \in S : Cardinality({m \in S : m < n}) = k
<1> DEFINE There(X) == \E n \in X : Cardinality({m \in X : m < n}) = k
           Bad == {X \in SUBSET Nat : IsFiniteSet(X) /\ k < Cardinality(X) /\ ~There(X)}
<1>1. SUFFICES ASSUME Bad # {} PROVE FALSE
  OBVIOUS
<1>2. Bad \subseteq FiniteSubsetsOf(Nat)
  BY DEF FiniteSubsetsOf
<1>3. PICK X \in Bad : \A Y \in Bad : ~(<<Y, X>> \in StrictSubsetOrdering(Nat))
  <2> HIDE DEF Bad
  <2> QED
    BY <1>1, <1>2, FS_StrictSubsetOrderingWellFounded, WFMin, Zenon
<1>4. X # {} /\ Cardinality(X) \in Nat
  BY <1>3, FS_EmptySet, FS_CardinalityType
<1>5. PICK g \in X : \A m \in X : m <= g
  BY <1>3, <1>4, GreatestOf
<1> DEFINE Y == X \ {g}
<1>6. /\ Y \in SUBSET Nat /\ IsFiniteSet(Y) /\ <<Y, X>> \in StrictSubsetOrdering(Nat)
      /\ Cardinality(Y) = Cardinality(X) - 1
  BY <1>3, <1>5, FS_RemoveElement DEF StrictSubsetOrdering
<1>7. CASE k = Cardinality(X) - 1
  <2>1. \A m \in X : m < g <=> m # g
    BY <1>3, <1>5
  <2>2. {m \in X : m < g} = Y
    BY <2>1
  <2> QED
    BY <1>3, <1>5, <1>6, <1>7, <2>2
<1>8. CASE k # Cardinality(X) - 1
  <2>1. k < Cardinality(Y)
    BY <1>3, <1>4, <1>6, <1>8
  <2>2. There(Y)
    BY <1>3, <1>6, <2>1
  <2>3. PICK n \in Y : Cardinality({m \in Y : m < n}) = k
    BY <2>2
  <2>4. {m \in X : m < n} = {m \in Y : m < n}
    BY <1>3, <1>5, <2>3
  <2> QED
    BY <1>3, <2>3, <2>4
<1> QED
  BY <1>7, <1>8

LEMMA NthIs ==
  ASSUME NEW S \in SUBSET Nat, IsFiniteSet(S), NEW k \in Nat, k < Cardinality(S)
  PROVE  Nth(S, k) \in S /\ Cardinality({m \in S : m < Nth(S, k)}) = k
<1>1. \E n \in S : Cardinality({m \in S : m < n}) = k
  BY NthThere
<1> DEFINE P(n) == n \in S /\ Cardinality({m \in S : m < n}) = k
<1> HIDE DEF P
<1>2. \E n : P(n)
  BY <1>1 DEF P
<1>3. P(CHOOSE n : P(n))
  BY <1>2
<1>4. Nth(S, k) = CHOOSE n : P(n)
  BY Zenon DEF Nth, P
<1> QED
  BY <1>3, <1>4 DEF P

\* However many disks there are, there are names for one device more.
LEMMA NamesLeft ==
  ASSUME BusInv, NEW held, IsFiniteSet(held), Cardinality(held) <= 1
  PROVE  /\ FreeNodes(held) \in SUBSET Nat /\ IsFiniteSet(FreeNodes(held))
         /\ Cardinality(Disk) <= Cardinality(FreeNodes(held))
<1> DEFINE N == Cardinality(Disk)
           A == 0 .. (2 * N)
           P == {bus[d] : d \in Attached}
           U == {q.node : q \in P \cup held}
           f == [d \in Attached |-> bus[d]]
           g == [q \in P \cup held |-> q.node]
<1>1. N \in Nat
  BY FS_CardinalityType, IdentityAssumption
<1>2. IsFiniteSet(A) /\ Cardinality(A) = 2 * N + 1
  <2> DEFINE n == 2 * N
  <2>1. n \in Int /\ n >= 0
    BY <1>1
  <2> HIDE DEF n
  <2>2. IsFiniteSet(0 .. n) /\ Cardinality(0 .. n) = n + 1
    BY <2>1, FS_Interval
  <2> QED
    BY <2>2 DEF n
<1>3. IsFiniteSet(Attached) /\ Cardinality(Attached) <= N
  BY FS_Subset, IdentityAssumption DEF BusInv
<1>4. IsFiniteSet(P) /\ Cardinality(P) <= Cardinality(Attached)
  <2>1. f \in Surjection(Attached, P)
    BY DEF Surjection
  <2> QED
    BY <1>3, <2>1, FS_Surjection
<1>5. IsFiniteSet(P \cup held) /\ Cardinality(P \cup held) <= Cardinality(P) + Cardinality(held)
  <2>1. /\ IsFiniteSet(P \cup held)
        /\ Cardinality(P \cup held) = Cardinality(P) + Cardinality(held) - Cardinality(P \cap held)
    BY <1>4, FS_Union
  <2>2. {Cardinality(P), Cardinality(held), Cardinality(P \cap held)} \subseteq Nat
    BY <1>4, FS_CardinalityType, FS_Intersection
  <2> QED
    BY <2>1, <2>2
<1>6. IsFiniteSet(U) /\ Cardinality(U) <= Cardinality(P \cup held)
  <2>1. g \in Surjection(P \cup held, U)
    BY DEF Surjection
  <2> QED
    BY <1>5, <2>1, FS_Surjection
<1>7. /\ IsFiniteSet(A \ U) /\ Cardinality(A \ U) = Cardinality(A) - Cardinality(A \cap U)
      /\ Cardinality(A \cap U) <= Cardinality(U)
  BY <1>2, <1>6, FS_Difference, FS_Intersection
<1>8. {Cardinality(Attached), Cardinality(P), Cardinality(held), Cardinality(P \cup held),
       Cardinality(U), Cardinality(A \cap U)} \subseteq Nat
  BY <1>2, <1>3, <1>4, <1>5, <1>6, FS_CardinalityType, FS_Intersection
<1>9. FreeNodes(held) = A \ U
  BY DEF FreeNodes
<1>10. A \ U \in SUBSET Nat
  BY <1>1
<1> QED
  <2> HIDE DEF A, U, P, N
  <2>1. N <= Cardinality(A \ U)
    BY <1>1, <1>2, <1>3, <1>4, <1>5, <1>6, <1>7, <1>8
  <2> QED
    BY <1>7, <1>9, <1>10, <2>1 DEF N

\* Keys of two kinds differ.
LEMMA KeysApart ==
  ASSUME NEW p, NEW z, NEW s, NEW l
  PROVE  /\ [port |-> p, size |-> z] # [serial |-> s]
         /\ [port |-> p, size |-> z] # [serial |-> s, lun |-> l]
         /\ \A t : [serial |-> t] # [serial |-> s, lun |-> l]
OBVIOUS

-----------------------------------------------------------------------------
(***************************************************************************)
(* The bus.                                                                *)
(***************************************************************************)

LEMMA AttachBus ==
  ASSUME BusInv, NEW v, NEW port, NEW held,
         IsFiniteSet(held), Cardinality(held) <= 1, Attach(v, port, held)
  PROVE  /\ BusInv'
         /\ Attached \subseteq Attached' /\ \A d \in Attached : bus'[d] = bus[d]
<1>1. /\ LunsOf(v) \cap Attached = {} /\ \A d \in Attached : bus[d].port # port
      /\ Attached' = Attached \cup LunsOf(v)
      /\ \A d \in Attached : bus'[d] = bus[d]
      /\ mounted' = mounted
  BY DEF Attach, Attached
<1>2. \A d \in LunsOf(v) : bus'[d].port = port /\ bus'[d].node = Nth(FreeNodes(held), Lun[d])
  <2> TAKE d \in LunsOf(v)
  <2>1. bus'[d] = [port |-> port, host |-> FreeHost(held), node |-> Nth(FreeNodes(held), Lun[d])]
    BY <1>1 DEF Attach
  <2> QED
    BY <2>1
<1>3. LunsOf(v) \subseteq Disk /\ \A d \in Disk : d \in LunsOf(v) <=> Device[d] = v
  BY DEF LunsOf
<1>4. Attached' \subseteq Disk /\ mounted' \subseteq Attached'
  BY <1>1, <1>3 DEF BusInv
<1>5. \A d \in Attached' : LunsOf(Device[d]) \subseteq Attached'
  BY <1>1, <1>3 DEF BusInv
<1>6. \A d, e \in Attached' : bus'[d].port = bus'[e].port <=> Device[d] = Device[e]
  <2>1. \A d \in LunsOf(v) : bus'[d].port = port
    BY <1>2
  <2>2. \A d \in Attached : Device[d] # v
    BY <1>1, <1>3 DEF BusInv
  <2> QED
    BY <1>1, <1>3, <2>1, <2>2 DEF BusInv
<1>7. \A d \in LunsOf(v) : /\ bus'[d].node \in FreeNodes(held)
                           /\ Cardinality({m \in FreeNodes(held) : m < bus'[d].node}) = Lun[d]
  <2> SUFFICES ASSUME NEW d \in LunsOf(v)
               PROVE  /\ bus'[d].node \in FreeNodes(held)
                      /\ Cardinality({m \in FreeNodes(held) : m < bus'[d].node}) = Lun[d]
    OBVIOUS
  <2>1. Lun[d] \in Nat /\ Lun[d] < Cardinality(Disk)
    BY <1>3, IdentityAssumption
  <2>2. Cardinality(Disk) \in Nat /\ Cardinality(FreeNodes(held)) \in Nat
    BY NamesLeft, FS_CardinalityType, IdentityAssumption
  <2>3. Lun[d] < Cardinality(FreeNodes(held))
    BY <2>1, <2>2, NamesLeft
  <2>4. bus'[d].node = Nth(FreeNodes(held), Lun[d])
    BY <1>2
  <2> QED
    BY <2>1, <2>3, <2>4, NamesLeft, NthIs
<1>8. \A d \in Attached : bus[d].node \notin FreeNodes(held)
  BY DEF FreeNodes
<1>9. \A d, e \in Attached' : bus'[d].node = bus'[e].node => d = e
  <2> TAKE d, e \in Attached'
  <2> HAVE bus'[d].node = bus'[e].node
  <2>1. CASE d \in Attached /\ e \in Attached
    BY <1>1, <2>1 DEF BusInv
  <2>2. CASE d \in LunsOf(v) /\ e \in LunsOf(v)
    <3>1. Lun[d] = Lun[e]
      BY <1>7, <2>2
    <3>2. d \in Disk /\ e \in Disk /\ Device[d] = Device[e]
      BY <1>3, <2>2
    <3> QED
      BY <3>1, <3>2, IdentityAssumption
  <2> QED
    BY <1>1, <1>7, <1>8, <2>1, <2>2
<1> QED
  BY <1>1, <1>4, <1>5, <1>6, <1>9 DEF BusInv, Attached

LEMMA DetachBus ==
  ASSUME BusInv, NEW v, Detach(v)
  PROVE  /\ BusInv'
         /\ Attached' = Attached \ LunsOf(v) /\ \A d \in Attached' : bus'[d] = bus[d]
         /\ mounted' \subseteq mounted
<1>1. /\ Attached' = Attached \ LunsOf(v) /\ \A d \in Attached' : bus'[d] = bus[d]
      /\ mounted' = mounted \ LunsOf(v)
  BY DEF Detach, Attached
<1>2. LunsOf(v) \subseteq Disk /\ \A d \in Disk : d \in LunsOf(v) <=> Device[d] = v
  BY DEF LunsOf
<1>3. \A d \in Attached' : LunsOf(Device[d]) \subseteq Attached'
  BY <1>1, <1>2 DEF BusInv, LunsOf
<1> QED
  BY <1>1, <1>3 DEF BusInv, Attached

LEMMA HeldIs == IsFiniteSet(Held) /\ Cardinality(Held) <= 1
<1>1. IsFiniteSet({}) /\ Cardinality({}) <= 1
  BY FS_EmptySet
<1>2. IsFiniteSet({at}) /\ Cardinality({at}) <= 1
  <2>1. IsFiniteSet({at}) /\ Cardinality({at}) = 1
    BY FS_Singleton
  <2> QED
    BY <2>1
<1> QED
  BY <1>1, <1>2 DEF Held

LEMMA BusNext == BusInv /\ [Next]_vars => BusInv'
<1> SUFFICES ASSUME BusInv, [Next]_vars PROVE BusInv'
  OBVIOUS
<1>1. CASE UNCHANGED world
  BY <1>1 DEF world, BusInv, Attached
<1>2. CASE WorldStep
  <2>1. ASSUME NEW v \in Devices, NEW port \in Port, Attach(v, port, Held) PROVE BusInv'
    BY <2>1, HeldIs, AttachBus
  <2>2. ASSUME NEW v \in Devices, Detach(v) PROVE BusInv'
    BY <2>2, DetachBus
  <2>3. ASSUME NEW d \in Disk, NEW x, Mount(d, x) \/ Unmount(d) PROVE BusInv'
    BY <2>3 DEF Mount, Unmount, BusInv, Attached
  <2> QED
    BY <1>1, <1>2, <2>1, <2>2, <2>3 DEF WorldStep
<1> QED
  BY <1>1, <1>2
  DEF Next, Command, Loop, Resolve, CheckNotInUse, Open, Top, ReadBlock, SkipBlock, WriteBlock,
      WriteFails, Dropped, Reattached, GivesUpWaiting, Sync, Done, vars, world, Goto, Ends, EndsWith

LEMMA BusAlways == Spec => []BusInv
<1>1. Init => BusInv
  BY DEF Init, BusInv, Attached
<1> QED
  BY <1>1, BusNext, PTL DEF Spec

-----------------------------------------------------------------------------
(***************************************************************************)
(* The keys.                                                               *)
(***************************************************************************)

\* Serials collide when another device answers with the one of this.
LEMMA CollidesIs ==
  ASSUME BusInv, NEW d \in Attached
  PROVE  Collides(d) <=> \E e \in Attached : Serial[e] = Serial[d] /\ Device[e] # Device[d]
<1> DEFINE P == {UsbNode(e) : e \in Alike(d)}
           f == [e \in Alike(d) |-> UsbNode(e)]
<1>1. d \in Alike(d) /\ Alike(d) \subseteq Attached
  BY DEF Alike
<1>2. IsFiniteSet(P)
  <2>1. IsFiniteSet(Alike(d))
    BY <1>1, FS_Subset, IdentityAssumption DEF BusInv
  <2>2. f \in Surjection(Alike(d), P)
    BY DEF Surjection
  <2> QED
    BY <2>1, <2>2, FS_Surjection
<1>3. ASSUME NEW e \in Attached, Serial[e] = Serial[d], Device[e] # Device[d]
      PROVE  Collides(d)
  <2>1. UsbNode(e) \in P /\ UsbNode(d) \in P
    BY <1>1, <1>3 DEF Alike
  <2>2. UsbNode(e) # UsbNode(d)
    BY <1>3 DEF BusInv, UsbNode
  <2>3. Cardinality(P) > 1
    BY <1>2, <2>1, <2>2, TwoAreMore
  <2> QED
    BY <2>3 DEF Collides
<1>4. ASSUME \A e \in Attached : Serial[e] = Serial[d] => Device[e] = Device[d]
      PROVE  ~Collides(d)
  <2>1. \A e \in Alike(d) : UsbNode(e) = UsbNode(d)
    BY <1>1, <1>4 DEF Alike, BusInv, UsbNode
  <2>2. P = {UsbNode(d)}
    BY <1>1, <2>1
  <2>3. Cardinality(P) = 1
    BY <2>2, FS_Singleton
  <2> QED
    BY <2>3 DEF Collides
<1> QED
  BY <1>3, <1>4

LEMMA LunsAtIs ==
  ASSUME BusInv, NEW d \in Attached
  PROVE  Cardinality(LunsAt(d)) > 1 <=> LunsOf(Device[d]) # {d}
<1>1. LunsAt(d) = LunsOf(Device[d]) /\ d \in LunsAt(d)
  BY DEF LunsAt, LunsOf, BusInv, UsbNode
<1>2. IsFiniteSet(LunsAt(d))
  BY FS_Subset, IdentityAssumption DEF BusInv, LunsAt
<1>3. ASSUME LunsAt(d) # {d} PROVE Cardinality(LunsAt(d)) > 1
  <2>1. PICK e \in LunsAt(d) : e # d
    BY <1>1, <1>3
  <2> QED
    BY <1>1, <1>2, <2>1, TwoAreMore
<1>4. ASSUME LunsAt(d) = {d} PROVE ~(Cardinality(LunsAt(d)) > 1)
  <2>1. Cardinality(LunsAt(d)) = 1
    BY <1>4, FS_Singleton
  <2> QED
    BY <2>1
<1> QED
  BY <1>1, <1>3, <1>4

LEMMA OwnNameStands ==
  ASSUME BusInv, NEW d \in Attached, OwnName(d)
  PROVE  ~OnPath(d)
BY CollidesIs DEF OwnName, OnPath, BusInv

\* The three kinds of key, and of which disk each is.
LEMMA KeyIs ==
  ASSUME BusInv, NEW d \in Attached
  PROVE  \/ /\ OnPath(d) /\ ~OwnName(d)
            /\ Key(d) = [port |-> bus[d].port, size |-> Size[d]]
         \/ /\ ~OnPath(d) /\ LunsOf(Device[d]) # {d}
            /\ Key(d) = [serial |-> Serial[d], lun |-> <<bus[d].host, Lun[d]>>]
         \/ /\ ~OnPath(d) /\ LunsOf(Device[d]) = {d}
            /\ Key(d) = [serial |-> Serial[d]]
<1>1. CASE OnPath(d)
  BY <1>1, OwnNameStands DEF Key
<1>2. CASE ~OnPath(d) /\ LunsOf(Device[d]) # {d}
  BY <1>2, LunsAtIs DEF Key, ScsiAddr
<1>3. CASE ~OnPath(d) /\ LunsOf(Device[d]) = {d}
  BY <1>3, LunsAtIs DEF Key
<1> QED
  BY <1>1, <1>2, <1>3

LEMMA SerialTells ==
  ASSUME BusInv, NEW d \in Attached, NEW e \in Attached, ~OnPath(d), Serial[d] = Serial[e]
  PROVE  Device[d] = Device[e]
BY CollidesIs DEF OnPath

\* No two disks on the bus share a key, however many ports, readers and serials
\* there are, unless a reader has slots of one size and nothing to tell them by
\* (assignKeys, platform.go:69-106).
THEOREM KeysStayDistinct == ASSUME SlotsToldApart PROVE Spec => []KeysDistinct
<1>1. ASSUME BusInv, NEW d \in Attached, NEW e \in Attached, Key(d) = Key(e)
      PROVE  d = e
  <2>1. d \in Disk /\ e \in Disk
    BY <1>1 DEF BusInv
  <2>2. CASE OnPath(d)
    <3>1. /\ ~OwnName(d) /\ Key(d) = [port |-> bus[d].port, size |-> Size[d]]
          /\ Key(e) = [port |-> bus[e].port, size |-> Size[e]]
      BY <1>1, <2>2, KeyIs, KeysApart
    <3>2. bus[d].port = bus[e].port /\ Size[d] = Size[e]
      <4>1. Key(d).port = bus[d].port /\ Key(d).size = Size[d]
        BY <3>1
      <4>2. Key(e).port = bus[e].port /\ Key(e).size = Size[e]
        BY <3>1
      <4> QED
        BY <1>1, <4>1, <4>2
    <3>3. Device[d] = Device[e]
      BY <1>1, <3>2 DEF BusInv
    <3> QED
      BY <2>1, <3>1, <3>2, <3>3 DEF SlotsToldApart
  <2>3. CASE ~OnPath(d) /\ LunsOf(Device[d]) # {d}
    <3>1. /\ Key(d) = [serial |-> Serial[d], lun |-> <<bus[d].host, Lun[d]>>]
          /\ Key(e) = [serial |-> Serial[e], lun |-> <<bus[e].host, Lun[e]>>]
      BY <1>1, <2>3, KeyIs, KeysApart
    <3>2. Serial[d] = Serial[e] /\ Lun[d] = Lun[e]
      <4>1. Key(d).serial = Serial[d] /\ Key(d).lun[2] = Lun[d]
        BY <3>1
      <4>2. Key(e).serial = Serial[e] /\ Key(e).lun[2] = Lun[e]
        BY <3>1
      <4> QED
        BY <1>1, <4>1, <4>2
    <3> QED
      BY <1>1, <2>1, <2>3, <3>2, SerialTells, IdentityAssumption
  <2>4. CASE ~OnPath(d) /\ LunsOf(Device[d]) = {d}
    <3>1. Key(d) = [serial |-> Serial[d]] /\ Key(e) = [serial |-> Serial[e]]
      BY <1>1, <2>4, KeyIs, KeysApart
    <3>2. Serial[d] = Serial[e]
      <4>1. Key(d).serial = Serial[d] /\ Key(e).serial = Serial[e]
        BY <3>1
      <4> QED
        BY <1>1, <4>1
    <3>3. Device[d] = Device[e]
      BY <1>1, <2>4, <3>2, SerialTells
    <3> QED
      BY <2>1, <2>4, <3>3 DEF LunsOf
  <2> QED
    BY <2>2, <2>3, <2>4
<1>2. BusInv => KeysDistinct
  BY <1>1 DEF KeysDistinct
<1> QED
  BY <1>2, BusAlways, PTL

-----------------------------------------------------------------------------
(***************************************************************************)
(* The loop.                                                               *)
(***************************************************************************)

LEMMA LoopFacts ==
  ASSUME LoopInv
  PROVE  /\ Last \in Nat /\ Last > 0 /\ MaxDropouts \in Nat /\ off \in Nat /\ drops \in Nat
         /\ NoDisk \notin Disk
         /\ \A n \in Nat : n < Last => n \in Block /\ n + 1 \in 0 .. Last
         /\ \A n \in Nat : n <= MaxDropouts => n + 1 \in 0 .. (MaxDropouts + 1)
         /\ Junk \in Content /\ Zeroes \in Content
<1>1. Last \in Nat /\ Last > 0 /\ MaxDropouts \in Nat /\ NoDisk \notin Disk
  BY RefreshAssumption
<1>2. off \in Nat /\ drops \in Nat
  <2>1. off \in 0 .. Last /\ drops \in 0 .. (MaxDropouts + 1)
    BY DEF LoopInv, TypeOK
  <2> QED
    BY <1>1, <2>1
<1>3. \A n \in Nat : n < Last => n \in Block /\ n + 1 \in 0 .. Last
  BY <1>1 DEF Block
<1>4. \A n \in Nat : n <= MaxDropouts => n + 1 \in 0 .. (MaxDropouts + 1)
  BY <1>1
<1>5. Junk \in Content /\ Zeroes \in Content
  BY DEF Content, Junk, Zeroes
<1> QED
  BY <1>1, <1>2, <1>3, <1>4, <1>5

LEMMA LoopInit == Init => LoopInv
<1> SUFFICES ASSUME Init PROVE LoopInv
  OBVIOUS
<1>1. TypeOK
  <2>1. Attached \subseteq Disk /\ mounted \subseteq Attached
    BY DEF Init, Attached
  <2>2. 0 \in 0 .. Last /\ 0 \in 0 .. (MaxDropouts + 1)
    BY RefreshAssumption
  <2>3. want.stable = FALSE
    BY DEF Init
  <2> QED
    BY <2>1, <2>2, <2>3 DEF Init, TypeOK
<1>2. content \in [Disk -> [Block -> Content]]
  BY RefreshAssumption DEF Init, Content, Block
<1>3. buf \in Content
  BY DEF Init, Content, Junk, Zeroes
<1> QED
  BY <1>1, <1>2, <1>3, RefreshAssumption DEF Init, LoopInv, Holding

LEMMA WriteIs ==
  ASSUME LoopInv, WriteBlock
  PROVE  /\ handle \in Disk /\ off \in Block
         /\ content' \in [Disk -> [Block -> Content]]
         /\ \A d \in Disk, b \in Block :
              content'[d][b] = IF d = handle /\ b = off THEN buf ELSE content[d][b]
         /\ fresh' \in [Disk -> SUBSET Block]
         /\ \A d \in Disk : fresh'[d] = IF d = handle THEN fresh[d] \cup {off} ELSE fresh[d]
<1>1. handle \in Disk /\ off \in Block /\ buf \in Content
  BY LoopFacts DEF LoopInv, TypeOK, WriteBlock, Holding
<1>2. /\ content \in [Disk -> [Block -> Content]] /\ fresh \in [Disk -> SUBSET Block]
      /\ content' = [content EXCEPT ![handle] = [content[handle] EXCEPT ![off] = buf]]
      /\ fresh' = [fresh EXCEPT ![handle] = fresh[handle] \cup {off}]
  BY DEF LoopInv, WriteBlock
<1>3. [content[handle] EXCEPT ![off] = buf] \in [Block -> Content]
  BY <1>1, <1>2
<1>4. fresh[handle] \cup {off} \in SUBSET Block
  BY <1>1, <1>2
<1> QED
  BY <1>1, <1>2, <1>3, <1>4

LEMMA LoopNext ==
  ASSUME BusInv, BusInv', LoopInv, [Next]_vars
  PROVE  LoopInv'
<1> USE LoopFacts DEF Goto, Ends, EndsWith, world, loop, media, Holding
<1>0. Attached' \subseteq Disk /\ mounted' \subseteq Attached'
  BY DEF BusInv
<1>1. ASSUME NEW d \in Disk, Resolve(d) PROVE LoopInv'
  <2>1. want'.stable \in BOOLEAN
    BY <1>1 DEF Resolve, KeyIsStable
  <2> QED
    BY <1>0, <1>1, <2>1 DEF Resolve, LoopInv, TypeOK, Attached
<1>2. CASE CheckNotInUse
  BY <1>0, <1>2 DEF CheckNotInUse, LoopInv, TypeOK, Attached
<1>3. CASE Open
  <2>1. ASSUME NEW d \in OpensAt(at.node), handle' = d, Goto("top") PROVE LoopInv'
    <3>1. d \in Disk /\ phase # "idle" /\ phase # "ended"
      BY <1>3 DEF OpensAt, BusInv, Open
    <3> QED
      BY <1>0, <1>3, <2>1, <3>1 DEF Open, LoopInv, TypeOK, Attached
  <2>2. CASE OpensAt(at.node) = {}
    <3>1. phase' = "ended" /\ result' \in {"refused", "failed", "interrupted"} /\ handle' = handle
      BY <1>3, <2>2 DEF Open
    <3> QED
      BY <1>0, <1>3, <3>1 DEF Open, LoopInv, TypeOK, Attached
  <2> QED
    BY <1>3, <2>1, <2>2 DEF Open
<1>4. CASE Top
  BY <1>0, <1>4 DEF Top, LoopInv, TypeOK, Attached
<1>5. CASE ReadBlock
  <2>1. content[handle][off] \in Content
    BY <1>5 DEF ReadBlock, LoopInv, TypeOK
  <2> QED
    BY <1>0, <1>5, <2>1 DEF ReadBlock, LoopInv, TypeOK, Attached
<1>6. CASE SkipBlock
  BY <1>0, <1>6 DEF SkipBlock, LoopInv, TypeOK, Attached
<1>7. CASE WriteBlock
  BY <1>0, <1>7, WriteIs DEF WriteBlock, LoopInv, TypeOK, Attached
<1>8. CASE WriteFails
  BY <1>0, <1>8 DEF WriteFails, LoopInv, TypeOK, Attached
<1>9. CASE Dropped
  <2>1. /\ drops' = drops + 1 /\ drops' \in 0 .. (MaxDropouts + 1)
        /\ handle' = NoDisk /\ buf' \in Content
        /\ phase' \in {"wait", "ended"} /\ result' \in {"none", "gave up"}
        /\ phase' # "ended" => result' = "none" /\ drops' <= MaxDropouts
    <3>1. drops' = drops + 1 /\ phase # "ended" /\ result = "none" /\ drops <= MaxDropouts
      BY <1>9 DEF Dropped, LoopInv
    <3>2. drops' \in 0 .. (MaxDropouts + 1)
      BY <3>1
    <3>3. handle' = NoDisk /\ buf' \in Content
      BY <1>9 DEF Dropped, LoopInv
    <3>4. \/ drops' > MaxDropouts /\ phase' = "ended" /\ result' = "gave up"
          \/ ~(drops' > MaxDropouts) /\ phase' = "wait" /\ result' = result
      BY <1>9 DEF Dropped
    <3>5. ~(drops' > MaxDropouts) => drops' <= MaxDropouts
      BY <3>2
    <3> QED
      BY <3>1, <3>2, <3>3, <3>4, <3>5
  <2> QED
    BY <1>0, <1>9, <2>1 DEF Dropped, LoopInv, TypeOK, Attached
<1>10. ASSUME NEW d \in Disk, Reattached(d) PROVE LoopInv'
  BY <1>0, <1>10 DEF Reattached, LoopInv, TypeOK, Attached
<1>11. CASE GivesUpWaiting
  BY <1>0, <1>11 DEF GivesUpWaiting, LoopInv, TypeOK, Attached
<1>12. CASE Sync
  BY <1>0, <1>12 DEF Sync, LoopInv, TypeOK, Attached
<1>13. CASE WorldStep
  <2>1. UNCHANGED command /\ cancelled' \in BOOLEAN /\ dead' \in BOOLEAN
    BY <1>13 DEF WorldStep, LoopInv, TypeOK, LunsOf
  <2> QED
    BY <1>0, <2>1 DEF command, LoopInv, TypeOK, Attached
<1>14. CASE UNCHANGED vars
  BY <1>14 DEF vars, LoopInv, TypeOK, Attached
<1> QED
  BY <1>1, <1>2, <1>3, <1>4, <1>5, <1>6, <1>7, <1>8, <1>9, <1>10, <1>11, <1>12, <1>13, <1>14
  DEF Next, Command, Loop, Done

LEMMA LoopAlways == Spec => [](BusInv /\ LoopInv)
<1>1. BusInv /\ BusInv' /\ LoopInv /\ [Next]_vars => LoopInv'
  BY LoopNext
<1> QED
  BY <1>1, LoopInit, BusAlways, PTL DEF Spec

\* Types, and that a handle is open while the loop runs and at no other time.
THEOREM RefreshTypes == Spec => []TypeOK
<1>1. LoopInv => TypeOK
  BY DEF LoopInv
<1> QED
  BY <1>1, LoopAlways, PTL

LEMMA UnchangedNext ==
  ASSUME LoopInv, Unchanged, [Next]_vars
  PROVE  Unchanged'
<1> USE DEF Goto, Ends, EndsWith, world, loop, media
<1>1. CASE ReadBlock
  <2>1. handle \in Disk /\ off \in Block
    BY <1>1, LoopFacts DEF ReadBlock, LoopInv, TypeOK, Holding
  <2> QED
    BY <1>1, <2>1 DEF ReadBlock, Unchanged
<1>2. CASE WriteBlock
  BY <1>2, WriteIs DEF WriteBlock, Unchanged
<1>3. CASE Top
  BY <1>3 DEF Top, Unchanged
<1>4. ASSUME content' = content, mode' = mode, phase' # "write" PROVE Unchanged'
  BY <1>4 DEF Unchanged
<1>5. ASSUME UNCHANGED <<content, mode, phase, buf, handle, off>> PROVE Unchanged'
  BY <1>5 DEF Unchanged
<1>6. ASSUME NEW d \in Disk, Resolve(d) PROVE Unchanged'
  BY <1>4, <1>6 DEF Resolve
<1>7. CASE CheckNotInUse \/ Open \/ SkipBlock \/ WriteFails \/ Dropped \/ GivesUpWaiting \/ Sync
  BY <1>4, <1>7 DEF CheckNotInUse, Open, SkipBlock, WriteFails, Dropped, GivesUpWaiting, Sync
<1>8. ASSUME NEW d \in Disk, Reattached(d) PROVE Unchanged'
  BY <1>4, <1>8 DEF Reattached
<1>9. CASE WorldStep
  BY <1>5, <1>9 DEF WorldStep, command
<1>10. CASE UNCHANGED vars
  BY <1>5, <1>10 DEF vars
<1> QED
  BY <1>1, <1>2, <1>3, <1>6, <1>7, <1>8, <1>9, <1>10 DEF Next, Command, Loop, Done

LEMMA UnchangedAlways == Spec => []Unchanged
<1>1. Init => Unchanged
  BY DEF Init, Unchanged
<1>2. LoopInv /\ Unchanged /\ [Next]_vars => Unchanged'
  BY UnchangedNext
<1> QED
  BY <1>1, <1>2, LoopAlways, PTL DEF Spec

\* A rewrite changes no byte of any disk: not of the confirmed one, whatever it
\* cannot read and however often it drops out, and not even of another one that
\* took its name before it was opened, or cannot be told from it.  What is
\* written is what was read at that place of that disk, or nothing (gate 4).
THEOREM RewriteChangesNothing ==
  Spec => [](mode = "rewrite" => \A d \in Disk, b \in Block : content[d][b] = <<d, b>>)
<1>1. Unchanged => (mode = "rewrite" => \A d \in Disk, b \in Block : content[d][b] = <<d, b>>)
  BY DEF Unchanged
<1> QED
  BY <1>1, UnchangedAlways, PTL

-----------------------------------------------------------------------------
(***************************************************************************)
(* The identity.                                                           *)
(***************************************************************************)

LEMMA WantNext ==
  ASSUME BusInv, LoopInv, WantInv, [Next]_vars
  PROVE  WantInv'
<1> USE DEF Goto, Ends, EndsWith, world, loop, media
<1>1. ASSUME NEW d \in Disk, Resolve(d) PROVE WantInv'
  <2>1. /\ d \in Attached /\ Serial[d] # NoSerial /\ target' = d
        /\ want' = [key |-> Key(d), size |-> Size[d], stable |-> KeyIsStable(d)]
    BY <1>1 DEF Resolve
  <2>2. want'.key = Key(d) /\ want'.size = Size[d] /\ want'.stable = ~OnPath(d)
    BY <2>1 DEF KeyIsStable
  <2> QED
    BY <2>1, <2>2, KeyIs DEF WantInv
<1>2. ASSUME UNCHANGED loop, phase' # "idle" => phase # "idle" PROVE WantInv'
  BY <1>2 DEF WantInv
<1>3. CASE CheckNotInUse \/ Open \/ Top \/ ReadBlock \/ SkipBlock \/ WriteBlock \/ WriteFails
           \/ Dropped \/ GivesUpWaiting \/ Sync
  BY <1>2, <1>3
  DEF CheckNotInUse, Open, Top, ReadBlock, SkipBlock, WriteBlock, WriteFails, Dropped,
      GivesUpWaiting, Sync
<1>4. ASSUME NEW d \in Disk, Reattached(d) PROVE WantInv'
  BY <1>2, <1>4 DEF Reattached
<1>5. CASE WorldStep \/ UNCHANGED vars
  BY <1>2, <1>5 DEF WorldStep, command, vars
<1> QED
  BY <1>1, <1>3, <1>4, <1>5 DEF Next, Command, Loop, Done

LEMMA WantAlways == Spec => []WantInv
<1>1. Init => WantInv
  BY DEF Init, WantInv
<1>2. BusInv /\ LoopInv /\ WantInv /\ [Next]_vars => WantInv'
  BY WantNext
<1> QED
  BY <1>1, <1>2, LoopAlways, PTL DEF Spec

\* A stick that was confirmed under a stable key has that key whenever it is on
\* the bus and no other device answers with its serial, whatever port and name
\* it came back with (README.md:58).
THEOREM StickComesBackUnderItsKey == Spec => []ComesBackUnderItsKey
<1>1. ASSUME BusInv, LoopInv, WantInv, phase = "wait", target \in Attached, want.stable,
             ~Collides(target), LunsOf(Device[target]) = {target}
      PROVE  Key(target) = want.key
  <2>1. Serial[target] # NoSerial /\ want.key = [serial |-> Serial[target]]
    BY <1>1 DEF WantInv
  <2>2. ~OnPath(target)
    BY <1>1, <2>1 DEF OnPath
  <2> QED
    BY <1>1, <2>1, <2>2, KeyIs
<1>2. BusInv /\ LoopInv /\ WantInv => ComesBackUnderItsKey
  BY <1>1 DEF ComesBackUnderItsKey
<1> QED
  BY <1>2, LoopAlways, WantAlways, PTL

\* What is found under the key that was confirmed, at the capacity that was
\* confirmed, is the disk that was confirmed.
LEMMA FoundIsOurs ==
  ASSUME ToldApart, BusInv, LoopInv, WantInv, phase # "idle",
         NEW d \in Found(want.key), Size[d] = want.size
  PROVE  d = target
<1>1. /\ d \in Attached /\ Key(d) = want.key /\ d \in Disk /\ target \in Disk
      /\ Serial[target] # NoSerial /\ Size[d] = Size[target]
  BY DEF Found, WantInv, LoopInv, TypeOK, BusInv
<1>2. CASE \E p : want.key = [port |-> p, size |-> Size[target]] /\ ~OwnName(target)
  <2>1. ~OwnName(d)
    BY <1>1, <1>2, KeyIs, KeysApart
  <2> QED
    BY <1>1, <1>2, <2>1 DEF ToldApart
<1>3. CASE \E h : want.key = [serial |-> Serial[target], lun |-> <<h, Lun[target]>>]
  <2>1. PICK h : want.key = [serial |-> Serial[target], lun |-> <<h, Lun[target]>>]
    BY <1>3
  <2>2. Key(d) = [serial |-> Serial[d], lun |-> <<bus[d].host, Lun[d]>>]
    BY <1>1, <2>1, KeyIs, KeysApart
  <2>3. Serial[d] = Serial[target] /\ Lun[d] = Lun[target]
    <3>1. want.key.serial = Serial[target] /\ want.key.lun[2] = Lun[target]
      BY <2>1
    <3>2. Key(d).serial = Serial[d] /\ Key(d).lun[2] = Lun[d]
      BY <2>2
    <3> QED
      BY <1>1, <3>1, <3>2
  <2>4. Device[d] = Device[target] => d = target
    BY <1>1, <2>3, IdentityAssumption
  <2> QED
    BY <1>1, <2>3, <2>4 DEF ToldApart, OwnName
<1>4. CASE want.key = [serial |-> Serial[target]]
  <2>1. Key(d) = [serial |-> Serial[d]] /\ LunsOf(Device[d]) = {d}
    BY <1>1, <1>4, KeyIs, KeysApart
  <2>2. Serial[d] = Serial[target]
    <3>1. want.key.serial = Serial[target] /\ Key(d).serial = Serial[d]
      BY <1>4, <2>1
    <3> QED
      BY <1>1, <3>1
  <2>3. Device[d] = Device[target] => d = target
    BY <1>1, <2>1 DEF LunsOf
  <2> QED
    BY <1>1, <2>2, <2>3 DEF ToldApart, OwnName
<1> QED
  BY <1>2, <1>3, <1>4 DEF WantInv

-----------------------------------------------------------------------------
(***************************************************************************)
(* The disk that is written.                                               *)
(***************************************************************************)

\* What the world does to the bus leaves what is resolved, or open and there,
\* where it is, and nobody mounts it.
LEMMA WorldLeavesOurs ==
  ASSUME RaceOpen = FALSE, BusInv, LoopInv, OursInv, WorldStep
  PROVE  OursInv'
<1>1. UNCHANGED command
  BY DEF WorldStep
<1>2. target \in Disk \cup {NoDisk} /\ NoDisk \notin Disk
  BY LoopFacts DEF LoopInv, TypeOK
<1>3. CASE UNCHANGED <<bus, mounted, dead>>
  BY <1>1, <1>3 DEF OursInv, command, loop, media, Resolved, Attached
<1>4. ASSUME BusMayChange, UNCHANGED dead, NEW v \in Devices, NEW port \in Port,
             Attach(v, port, Held)
      PROVE  OursInv'
  <2>1. /\ Attached \subseteq Attached' /\ \A d \in Attached : bus'[d] = bus[d]
        /\ mounted' = mounted
    BY <1>4, AttachBus, HeldIs DEF Attach
  <2> QED
    BY <1>1, <1>4, <2>1 DEF OursInv, command, loop, media, Resolved
<1>5. ASSUME BusMayChange, NEW v \in Devices, Detach(v), dead' = (dead \/ handle \in LunsOf(v))
      PROVE  OursInv'
  <2>1. /\ Attached' = Attached \ LunsOf(v) /\ \A d \in Attached' : bus'[d] = bus[d]
        /\ mounted' \subseteq mounted
    BY <1>5, DetachBus
  <2>2. ~Resolved
    BY <1>5 DEF BusMayChange
  <2> QED
    BY <1>1, <1>5, <2>1, <2>2 DEF OursInv, command, loop, media, Resolved
<1>6. ASSUME UNCHANGED dead, NEW d \in Disk,
             Mount(d, IF dead THEN {} ELSE {handle}) \/ Unmount(d)
      PROVE  OursInv'
  <2>1. UNCHANGED bus /\ (~dead /\ handle \in mounted' => handle \in mounted)
    BY <1>6 DEF Mount, Unmount
  <2> QED
    BY <1>1, <1>6, <2>1 DEF OursInv, command, loop, media, Resolved, Attached
<1> QED
  BY <1>3, <1>4, <1>5, <1>6 DEF WorldStep, world

LEMMA OursNext ==
  ASSUME RaceOpen = FALSE, ToldApart, BusInv, LoopInv, WantInv, OursInv, [Next]_vars
  PROVE  OursInv'
<1> USE LoopFacts DEF Goto, Ends, EndsWith, world, loop, media
<1>1. ASSUME NEW d \in Disk, Resolve(d) PROVE OursInv'
  <2>1. /\ phase = "idle" /\ d \in Attached /\ target' = d /\ at' = bus[d] /\ off' = off
        /\ handle' = handle /\ UNCHANGED <<bus, mounted, dead, content, fresh, mode, skipped>>
    BY <1>1 DEF Resolve
  <2>2. handle = NoDisk /\ off = 0 /\ target = NoDisk
    BY <2>1 DEF LoopInv, Holding
  <2>3. \A b \in Block : ~(b < off')
    BY <2>1, <2>2 DEF Block
  <2>4. mode' = "zero" => \A e \in Disk, b \in Block : content'[e][b] = <<e, b>> \/ e = target'
    BY <2>1, <2>2 DEF OursInv
  <2> QED
    BY <2>1, <2>2, <2>3, <2>4 DEF OursInv, Attached
<1>2. CASE Open
  <2>1. ASSUME NEW d \in OpensAt(at.node), handle' = d, Goto("top") PROVE OursInv'
    <3>1. target \in Attached /\ at = bus[target]
      BY <1>2 DEF Open, OursInv, Resolved
    <3>2. d = target /\ d \notin mounted
      BY <2>1, <3>1 DEF OpensAt, InUse, BusInv
    <3> QED
      BY <1>2, <2>1, <3>1, <3>2 DEF Open, OursInv, Resolved, Attached
  <2>2. CASE OpensAt(at.node) = {}
    <3>1. phase' = "ended" /\ handle' = NoDisk /\ UNCHANGED <<world, loop, media, at, off, skipped>>
      BY <1>2, <2>2 DEF Open, LoopInv, Holding
    <3> QED
      BY <3>1 DEF OursInv, Resolved
  <2> QED
    BY <1>2, <2>1, <2>2 DEF Open
<1>3. CASE WriteBlock
  <2>1. /\ handle = target /\ target # NoDisk /\ off' = off + 1 /\ target' = target /\ mode' = mode
        /\ UNCHANGED <<bus, mounted, dead, handle, at, skipped>> /\ ~Resolved'
    BY <1>3, WriteIs DEF WriteBlock, OursInv, Resolved
  <2>2. \A b \in Block : b < off' => b \in fresh'[target] \cup skipped
    <3>1. \A b \in Block : b < off + 1 => b < off \/ b = off
      BY DEF Block
    <3> QED
      BY <1>3, <2>1, <3>1, WriteIs DEF OursInv
  <2>3. mode = "zero" => \A d \in Disk, b \in Block : content'[d][b] = <<d, b>> \/ d = target
    BY <1>3, <2>1, WriteIs DEF OursInv
  <2> QED
    BY <2>1, <2>2, <2>3 DEF OursInv, Attached
<1>4. CASE SkipBlock
  <2>1. /\ off' = off + 1 /\ skipped' = skipped \cup {off}
        /\ UNCHANGED <<world, loop, media, at, handle, dead>> /\ ~Resolved'
    BY <1>4 DEF SkipBlock, Resolved
  <2>2. \A b \in Block : b < off + 1 => b < off \/ b = off
    BY DEF Block
  <2> QED
    BY <2>1, <2>2 DEF OursInv, Attached
<1>5. ASSUME NEW d \in Disk, Reattached(d) PROVE OursInv'
  <2>1. d = target
    BY <1>5, FoundIsOurs DEF Reattached
  <2>2. d \in Attached /\ at' = bus[d] /\ handle' = NoDisk
    BY <1>5 DEF Reattached, Found, LoopInv, Holding
  <2> QED
    BY <1>5, <2>1, <2>2 DEF Reattached, OursInv, Attached
<1>6. ASSUME UNCHANGED <<bus, mounted, loop, media, at, off, skipped, dead>>,
             handle' \in {handle, NoDisk}, Resolved' => Resolved
      PROVE  OursInv'
  BY <1>6 DEF OursInv, Attached
<1>7. CASE CheckNotInUse \/ Top \/ ReadBlock \/ WriteFails \/ Dropped \/ GivesUpWaiting \/ Sync
  BY <1>6, <1>7
  DEF CheckNotInUse, Top, ReadBlock, WriteFails, Dropped, GivesUpWaiting, Sync, Resolved
<1>8. CASE WorldStep
  BY <1>8, WorldLeavesOurs
<1>9. CASE UNCHANGED vars
  BY <1>6, <1>9 DEF vars, Resolved
<1> QED
  BY <1>1, <1>2, <1>3, <1>4, <1>5, <1>7, <1>8, <1>9 DEF Next, Command, Loop, Done

LEMMA OursAlways ==
  ASSUME RaceOpen = FALSE, ToldApart
  PROVE  Spec => [](LoopInv /\ Unchanged /\ OursInv)
<1>1. Init => OursInv
  BY DEF Init, OursInv, Resolved
<1>2. BusInv /\ LoopInv /\ WantInv /\ OursInv /\ [Next]_vars => OursInv'
  BY OursNext
<1> QED
  BY <1>1, <1>2, LoopAlways, WantAlways, UnchangedAlways, PTL DEF Spec

\* The handle a refresh writes through is the confirmed disk's, whatever the bus
\* did meanwhile, and nobody has that disk mounted; it is closed on every way out
\* (gates 1 to 3, WaitForReattach).  The node must name the same disk when it is
\* opened as when it was resolved, and no other disk may be like this one.
THEOREM HandleStaysOurs ==
  ASSUME RaceOpen = FALSE, ToldApart
  PROVE  Spec => []HandleIsOurs
<1>1. LoopInv /\ OursInv => HandleIsOurs
  BY DEF LoopInv, OursInv, HandleIsOurs, InUse, Holding
<1> QED
  BY <1>1, OursAlways, PTL

\* Nothing is changed but the confirmed disk, and that by zeroing only.
THEOREM ContentStays ==
  ASSUME RaceOpen = FALSE, ToldApart
  PROVE  Spec => []ContentKept
<1>1. LoopInv /\ Unchanged /\ OursInv => ContentKept
  BY DEF LoopInv, TypeOK, Unchanged, OursInv, ContentKept
<1> QED
  BY <1>1, OursAlways, PTL

\* Behind the offset every block of the confirmed disk was rewritten or left
\* alone on purpose, across any number of dropouts, and a refresh that says it is
\* complete has been everywhere (rewriteRange).
THEOREM NoHoleStays ==
  ASSUME RaceOpen = FALSE, ToldApart
  PROVE  Spec => []NoHole
<1>1. LoopInv /\ OursInv => NoHole
  BY DEF LoopInv, OursInv, NoHole
<1> QED
  BY <1>1, OursAlways, PTL
====
