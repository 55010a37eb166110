------------------------------ MODULE UsbDisk ------------------------------
(***************************************************************************)
(* The SD card as FatFs sees it (usb_diskio.c) over the USB mass storage   *)
(* driver (usb_storage.c): which device is the card, and transfers of      *)
(* sectors in bounded pieces.  usb_poll runs only between requests.        *)
(***************************************************************************)
EXTENDS Integers, FiniteSets, FiniteSetsExt

CONSTANTS
    Readers, Others,   \* USB disks: the on-board reader's type, and others
    Absent,
    Lbas,        \* sector numbers of FatFs (2^32)
    MaxSectors,  \* the driver's sector numbers are signed (2^31 - 1)
    Piece,       \* sectors in one transfer (128)
    Counts       \* lengths of requests

DiskAssumption ==
    /\ Lbas \in Nat /\ MaxSectors \in Nat \ {0} /\ Piece \in Nat \ {0} /\ MaxSectors < Lbas
    /\ Counts \subseteq Nat /\ Readers \intersect Others = {}

VARIABLES
    disk,        \* of each device: medium in it, as last polled, or Absent
    card,        \* usb_storage.c
    op           \* the request: [first, count] as asked, sector, left, result;
                 \* ghosts: touched sectors and how many transfers touched them

diskVars == <<disk, card, op>>

Devices == Readers \union Others
Media == [sectors : 1..(Lbas - 1), plain : BOOLEAN]     \* plain: blocks of 512 bytes
Idle == [first |-> 0, count |-> 0, sector |-> 0, left |-> 0, result |-> "idle", touched |-> {}, moved |-> 0]

DiskInit == disk = [d \in Devices |-> Absent] /\ card = Absent /\ op = Idle

Ready == card # Absent /\ disk[card] # Absent

Accepts(d, m) == d \in Readers /\ m.plain /\ m.sectors <= MaxSectors

usbdisk_create(d, m, before) == IF Accepts(d, m) /\ before = Absent THEN d ELSE before
usbdisk_remove(d) == IF card = d THEN Absent ELSE card

\* usb_msc_poll: the driver finds the medium gone, arrived, or of another
\* geometry; or the device unplugged.
Poll(d) ==
    /\ op.result # "busy"
    /\ \E m \in Media \union {Absent} :
          /\ m # disk[d] /\ disk' = [disk EXCEPT ![d] = m]
          /\ card' = IF m = Absent THEN usbdisk_remove(d)
                     ELSE usbdisk_create(d, m, IF disk[d] = Absent THEN card ELSE usbdisk_remove(d))
    /\ op' = Idle

\* disk_read and disk_write.
Request(sector, count) ==
    /\ op.result # "busy"
    /\ op' = [Idle EXCEPT !.first = sector, !.count = count, !.sector = sector, !.left = count,
                          !.result = IF count = 0 THEN "parameter" ELSE "busy"]
    /\ UNCHANGED <<disk, card>>

InRange(lba, n) == n # 0 /\ n <= Piece /\ lba < disk[card].sectors /\ n <= disk[card].sectors - lba

Advance(n) == (op.sector + n) % Lbas

\* One pass of the loop: usb_storage_blocks, refused or failed or done.
Step ==
    /\ op.result = "busy"
    /\ LET n == Min({op.left, Piece})
           sectors == {x % Lbas : x \in op.sector..(op.sector + n - 1)}
       IN \/ op' = [op EXCEPT !.result = "error", !.left = 0]
          \/ /\ Ready /\ InRange(op.sector, n)
             /\ op' = [op EXCEPT !.sector = Advance(n), !.left = @ - n, !.touched = @ \union sectors, !.moved = @ + n,
                                 !.result = IF op.left = n THEN "ok" ELSE "busy"]
    /\ UNCHANGED <<disk, card>>

DiskNext ==
    \/ \E d \in Devices : Poll(d)
    \/ \E sector \in 0..(Lbas - 1), count \in Counts : Request(sector, count)
    \/ Step

DiskSpec == DiskInit /\ [][DiskNext]_diskVars

(***************************************************************************)
(* Properties.                                                             *)
(***************************************************************************)
Results == {"idle", "parameter", "busy", "error", "ok"}

\* Every variable has its type.
DiskTypeOK ==
    /\ disk \in [Devices -> Media \union {Absent}] /\ card \in Devices \union {Absent}
    /\ op \in [first : 0..(Lbas - 1), count : Nat, sector : 0..(Lbas - 1), left : Nat, result : Results,
               touched : SUBSET (0..(Lbas - 1)), moved : Nat]

\* Whatever is plugged in and out, in any order, the card in use is in an
\* on-board reader, and its present medium is one the transfers can address.
CardFits == card # Absent => card \in Readers /\ disk[card] # Absent /\ disk[card].plain /\ disk[card].sectors <= MaxSectors

\* A request that succeeds has moved each of its sectors exactly once.
RequestExact ==
    op.result = "ok" => op.touched = op.first..(op.first + op.count - 1) /\ op.moved = op.count

\* No request, however long and wherever it starts, reaches a sector that
\* the medium does not have.
InsideMedium == op.touched # {} => \A x \in op.touched : x < disk[card].sectors

\* A request that has moved n sectors has moved the first n it was asked for,
\* all of them on the present medium, and goes on at the next one.
Progress ==
    /\ op.touched = op.first..(op.first + op.moved - 1)
    /\ op.moved # 0 => card # Absent /\ disk[card] # Absent /\ op.first + op.moved <= disk[card].sectors
    /\ op.result = "busy" => op.moved < op.count /\ op.left = op.count - op.moved /\ op.sector = op.first + op.moved

\* A request moves what it should on a card that can hold it.
DiskInv == DiskTypeOK /\ CardFits /\ RequestExact /\ InsideMedium /\ Progress
=============================================================================
