------------------------------ MODULE Identity ------------------------------
(***************************************************************************)
(* Which disk is which: the USB bus as discovery sees it, the keys it      *)
(* files the disks under (platform.go), and how a disk that left the bus   *)
(* is found again.  A disk is one LUN of a USB device; a stick has one, a  *)
(* card reader several.  The kernel gives a device the least free host     *)
(* number and a disk the least free name, and keeps both for as long as    *)
(* somebody holds the disk open.                                           *)
(***************************************************************************)
EXTENDS Naturals, FiniteSets, FiniteSetsExt

CONSTANTS
  Disk,       \* the disks there are
  Device,     \* Device[d]: the USB device d is a LUN of
  Serial,     \* Serial[d]: what its descriptor says
  NoSerial,   \* the empty serial
  Lun,        \* Lun[d]: its number in the device, from 0
  Size,       \* Size[d]: its capacity
  Port        \* where a device can be plugged in

ASSUME IdentityAssumption ==
  /\ IsFiniteSet(Disk)
  /\ Device \in [Disk -> {Device[d] : d \in Disk}]
  /\ Size \in [Disk -> Nat]
  /\ Lun \in [Disk -> Nat] /\ \A d \in Disk : Lun[d] < Cardinality(Disk)
  /\ \A d, e \in Disk :
       Device[d] = Device[e] => Serial[d] = Serial[e] /\ (Lun[d] = Lun[e] => d = e)

VARIABLES
  bus,      \* where the attached disks are: [port, host, node]
  mounted   \* the disks somebody has mounted, or claimed in another way

Attached == DOMAIN bus

\* The sysfs path of the USB node: what tells two devices apart.
UsbNode(d) == bus[d].port

Alike(d) == {e \in Attached : Serial[e] = Serial[d]}

\* Several nodes answer with this serial.
Collides(d) == Cardinality({UsbNode(e) : e \in Alike(d)}) > 1

LunsAt(d) == {e \in Attached : UsbNode(e) = UsbNode(d)}

\* The address in the SCSI tree begins with the number of the host.
ScsiAddr(d) == <<bus[d].host, Lun[d]>>

\* Mutant: two sticks of one serial both keep it.
OnPathWithoutCollision(d) == Serial[d] = NoSerial

OnPath(d) == Serial[d] = NoSerial \/ Collides(d)

\* Mutant: the address in every key.
KeyAddressed(d) ==
  IF OnPath(d) THEN [port |-> bus[d].port, size |-> Size[d]]
  ELSE [serial |-> Serial[d], lun |-> ScsiAddr(d)]

\* assignKeys.
Key(d) ==
  IF OnPath(d) THEN [port |-> bus[d].port, size |-> Size[d]]
  ELSE IF Cardinality(LunsAt(d)) > 1 THEN [serial |-> Serial[d], lun |-> ScsiAddr(d)]
  ELSE [serial |-> Serial[d]]

KeyIsStable(d) == ~OnPath(d)

\* FindByKey: the first disk of that key, in whatever order it is listed.
Found(key) == {d \in Attached : Key(d) = key}

\* What CheckNotInUse looks for, and what O_EXCL makes the kernel refuse.
InUse(d) == d \in mounted

-----------------------------------------------------------------------------
(***************************************************************************)
(* The outside world.  held is what an open handle keeps busy.             *)
(***************************************************************************)

FreeHost(held) ==
  Min(0 .. Cardinality(Disk) \ {q.host : q \in {bus[d] : d \in Attached} \cup held})

FreeNodes(held) ==
  0 .. (2 * Cardinality(Disk)) \ {q.node : q \in {bus[d] : d \in Attached} \cup held}

\* The k-th least of a set of numbers, counted from 0.
Nth(S, k) == CHOOSE n \in S : Cardinality({m \in S : m < n}) = k

LunsOf(v) == {d \in Disk : Device[d] = v}

\* A device comes up with all its LUNs, in their order.
Attach(v, port, held) ==
  /\ LunsOf(v) \cap Attached = {}
  /\ \A d \in Attached : bus[d].port # port
  /\ bus' = [d \in Attached \cup LunsOf(v) |->
               IF d \in Attached THEN bus[d]
               ELSE [port |-> port, host |-> FreeHost(held),
                     node |-> Nth(FreeNodes(held), Lun[d])]]
  /\ UNCHANGED mounted

\* Pulled out, or dropped off the bus.
Detach(v) ==
  /\ LunsOf(v) \subseteq Attached
  /\ bus' = [d \in Attached \ LunsOf(v) |-> bus[d]]
  /\ mounted' = mounted \ LunsOf(v)

Mount(d, exclusive) ==
  /\ d \in Attached \ (mounted \cup exclusive)
  /\ mounted' = mounted \cup {d}
  /\ UNCHANGED bus

Unmount(d) ==
  /\ d \in mounted
  /\ mounted' = mounted \ {d}
  /\ UNCHANGED bus

\* A key is one disk's: two disks under one key would share their history and
\* could be taken for each other (platform.go:69-75).  Sticks whose serial another
\* one shares, or has by turns, are told apart by their ports; the slots of a
\* reader, by their address.
KeysDistinct == \A d, e \in Attached : Key(d) = Key(e) => d = e
=============================================================================
