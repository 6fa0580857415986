---------------------------- MODULE BlockDevices ----------------------------
(***************************************************************************)
(* Disks and their partitions: src/src/drivers/ata.c, part.c and blkdev.c. *)
(* Drives are found at start; afterwards calls are made on devices, by     *)
(* byte through /dev or by sector from a file system, with interrupts      *)
(* disabled. A drive may refuse a command, give no data, or lose a sector  *)
(* that it took. Disks are small enough that no byte offset and no sector  *)
(* number wraps.                                                           *)
(***************************************************************************)
EXTENDS Naturals, Sequences, FiniteSets, SequencesExt, FiniteSetsExt

CONSTANTS Drive,         \* positions: 0 and 1 on the first channel, 2 and 3 on the second
          Sectors,       \* sectors of a disk
          SectorSize,    \* bytes of a sector
          DeviceMax,     \* BLKDEV_MAX
          PartMax,       \* PART_MAX
          Tables,        \* partition tables: sequences of [type, start, count]
          Bytes          \* values written

Blank == "0"
Unknown == "?"      \* not what a byte is, but that no caller knows it

ASSUME BlockAssumption ==
    /\ Drive \subseteq 0..3
    /\ {Sectors, SectorSize, DeviceMax, PartMax} \subseteq Nat \ {0}
    /\ Unknown \notin Bytes

VARIABLES drives,    \* what is at each position: "none", "disk" or "packet" (a CD drive)
          sectors,   \* bytes on each disk
          stuck,     \* channels whose selected drive shows an error
          devices,   \* blkdev_table: the disk, where the device starts in it, its length
          stored     \* bytes as last acknowledged to a caller

blockVars == <<drives, sectors, stuck, devices, stored>>

Place == 0..(Sectors * SectorSize - 1)      \* of a byte on a disk
Channel(d) == d \div 2
SectorOf(b) == b \div SectorSize

---------------------------------------------------------------------------
(* Start: ata_probe, part_probe. The tables of devices and partitions are one *)
(* record, of which init_ata makes blkdev_table.                              *)

Device(d, start, count) == [drive |-> d, start |-> start, count |-> count]
Register(t, dev) ==
    IF Len(t.devices) >= DeviceMax THEN t ELSE [t EXCEPT !.devices = Append(@, dev)]

\* Empty entries are passed over; what an entry says is not compared with the disk.
AddPart(t, d, e) ==
    IF e.type = 0 \/ e.count = 0 \/ t.parts >= PartMax THEN t
    ELSE [Register(t, Device(d, e.start, e.count)) EXCEPT !.parts = @ + 1]
\* A disk for which there is no room gets no partitions either.
ProbeDrive(t, d, entries) ==
    IF Len(t.devices) >= DeviceMax THEN t
    ELSE FoldLeft(LAMBDA u, e : AddPart(u, d, e), Register(t, Device(d, 0, Sectors)), entries)

\* The drive selected last on its channel answered IDENTIFY with an error: a CD drive
\* at the second position, or at the first of a channel whose second is not probed.
LeftInError(kinds) == {Channel(d) : d \in {d \in Drive : d % 2 = 1 /\ kinds[d] = "packet"}}

\* The second drive of a channel is probed after the first was read, so its error
\* does not keep the partitions of the first from being found.
InitAta(kinds, tables) ==
    FoldLeft(LAMBDA t, d : IF kinds[d] = "disk" THEN ProbeDrive(t, d, tables[d]) ELSE t,
             [devices |-> <<>>, parts |-> 0], SetToSortSeq(Drive, LAMBDA a, b : a < b)).devices

---------------------------------------------------------------------------
(* Sectors of a device, in a call on the sectors from first to last. fault is    *)
(* what the drive does with sector at: "none", "refused" (an error), "no data"   *)
(* (neither an error nor a request for data) or "lost" (it takes a sector it     *)
(* does not keep, and shows the error afterwards).                               *)

OnDisk(dev, s) == dev.start + s < Sectors
Answers(dev, s, fault, at) ==
    /\ OnDisk(dev, s)
    /\ s = at => fault \in {"none", "lost"}
    /\ s > at => fault = "none"
\* A call stops at the first sector that is not answered. Calls by byte check the
\* length of the device; calls by sector do not.
Served(dev, first, last, fault, at) ==
    {s \in first..last : \A t \in first..s : Answers(dev, t, fault, at)}
\* The error bit stays: it is looked at before the next drive is selected.
ShowsError(dev, first, last, fault, at) ==
    \/ \E s \in first..last : ~OnDisk(dev, s) /\ (s = first \/ s - 1 \in Served(dev, first, last, fault, at))
    \/ fault \in {"refused", "lost"} /\ at \in first..last /\ OnDisk(dev, at)

\* Where byte b of a device lies on its disk.
ByteOf(dev, b) == dev.start * SectorSize + b

\* What the sectors around the bytes of a call hold when they are written back: a
\* partial sector is read first. As if the rest of the buffer was what it held before.
NotReadFirst(d, bytes, p) ==
    IF \E q \in bytes : SectorOf(q) = SectorOf(p) THEN "junk" ELSE sectors[d][p]
ReadFirst(d, bytes, p) == sectors[d][p]

\* The sectors of the bytes are written, but for sector dropped.
Stores(d, bytes, v, dropped) ==
    [p \in Place |-> IF SectorOf(p) = dropped THEN sectors[d][p]
                     ELSE IF p \in bytes THEN v ELSE ReadFirst(d, bytes, p)]
Acknowledged(d, bytes, v, dropped) ==
    [p \in Place |-> IF SectorOf(p) = dropped THEN Unknown
                     ELSE IF p \in bytes THEN v ELSE stored[d][p]]
Dropped(dev, served, fault, at) ==
    IF fault = "lost" /\ at \in served THEN dev.start + at ELSE Sectors

\* bytes: of the device, in the sectors that were served.
Write(dev, bytes, v, dropped) ==
    LET d == dev.drive IN
    /\ sectors' = [sectors EXCEPT ![d] = Stores(d, {ByteOf(dev, b) : b \in bytes}, v, dropped)]
    /\ stored' = [stored EXCEPT ![d] =
                     Acknowledged(d, {dev.start * SectorSize + b : b \in bytes}, v, dropped)]

\* A call that sees the error bit of the channel gives no command: nothing clears it.
NotStuck(dev) == Channel(dev.drive) \notin stuck
Latch(dev, first, last, fault, at) ==
    stuck' = IF ShowsError(dev, first, last, fault, at) THEN stuck \union {Channel(dev.drive)} ELSE stuck

---------------------------------------------------------------------------
(* Calls on /dev/hda and its like: blkdev_do_write, blkdev_do_read *)

\* The last sector of the bytes off..(off + len - 1) that is in the device.
LastIn(dev, off, len) == Min({SectorOf(off + len - 1), dev.count - 1})

BlkWrite(dev, off, len, v, fault, at) ==
    /\ SectorOf(off) < dev.count
    /\ NotStuck(dev)
    /\ \E served \in {Served(dev, SectorOf(off), LastIn(dev, off, len), fault, at)} :
          Write(dev, {b \in off..(off + len - 1) : SectorOf(b) \in served}, v,
                Dropped(dev, served, fault, at))
    /\ Latch(dev, SectorOf(off), LastIn(dev, off, len), fault, at)
    /\ UNCHANGED <<drives, devices>>

BlkRead(dev, off, len, fault, at) ==
    /\ SectorOf(off) < dev.count
    /\ NotStuck(dev)
    /\ fault # "lost"
    /\ Latch(dev, SectorOf(off), LastIn(dev, off, len), fault, at)
    /\ UNCHANGED <<drives, sectors, devices, stored>>

---------------------------------------------------------------------------
(* Calls of a file system: read_sectors, write_sectors, part_read, part_write *)

WriteSectors(dev, first, count, v, fault, at) ==
    /\ NotStuck(dev)
    /\ \E served \in {Served(dev, first, first + count - 1, fault, at)} :
          Write(dev, {b \in Place : SectorOf(b) \in served}, v, Dropped(dev, served, fault, at))
    /\ Latch(dev, first, first + count - 1, fault, at)
    /\ UNCHANGED <<drives, devices>>

ReadSectors(dev, first, count, fault, at) ==
    /\ NotStuck(dev)
    /\ fault # "lost"
    /\ Latch(dev, first, first + count - 1, fault, at)
    /\ UNCHANGED <<drives, sectors, devices, stored>>

---------------------------------------------------------------------------

\* Every drive with any table; only disks are registered.
BlockInit ==
    /\ \E kinds \in [Drive -> {"none", "disk", "packet"}], tables \in [Drive -> Tables] :
          /\ \A d \in Drive : kinds[d] # "disk" => tables[d] = <<>>
          /\ drives = kinds
          /\ stuck = LeftInError(kinds)
          /\ devices = InitAta(kinds, tables)
    /\ sectors = [d \in Drive |-> [p \in Place |-> Blank]]
    /\ stored = sectors

Fault == {"none", "refused", "no data", "lost"}

\* A fault is that of a sector the call goes through.
At(fault, first, last) == IF fault = "none" THEN {first} ELSE first..last

BlockNext ==
    \E dev \in ToSet(devices), fault \in Fault :
       \/ \E off \in Place, len \in 1..(2 * SectorSize) :
          \E at \in At(fault, SectorOf(off), LastIn(dev, off, len)) :
             \/ \E v \in Bytes : BlkWrite(dev, off, len, v, fault, at)
             \/ BlkRead(dev, off, len, fault, at)
       \/ \E first \in 0..(Sectors - 1), count \in 1..2 :
          \E at \in At(fault, first, first + count - 1) :
             \/ \E v \in Bytes : WriteSectors(dev, first, count, v, fault, at)
             \/ ReadSectors(dev, first, count, fault, at)

BlockSpec == BlockInit /\ [][BlockNext]_blockVars

---------------------------------------------------------------------------
(* Property *)

\* What was acknowledged is on the disk, in its place and nowhere else: a partial write
\* keeps the rest of its sectors, a partition writes behind its start, and a call that
\* stops half-way wrote what it counted. Only sectors that a drive lost differ, and since
\* the driver meets the error before its next command, a channel loses at most one.
StoredAsAcknowledged ==
    /\ \A d \in Drive, p \in Place : stored[d][p] \in {sectors[d][p], Unknown}
    /\ \A d \in Drive, p \in Place : stored[d][p] = Unknown =>
          \A e \in Drive, q \in Place :
             (Channel(d) = Channel(e) /\ stored[e][q] = Unknown) => d = e /\ SectorOf(p) = SectorOf(q)
============================================================================
