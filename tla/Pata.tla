---------------------------------- MODULE Pata ----------------------------------
(***************************************************************************)
(* The PATA driver (kernel/disk/pata/disk.c): the search for drives, and   *)
(* the reading and writing of one sector through the registers of a        *)
(* channel, which its two drives share.                                    *)
(*                                                                         *)
(* A drive runs beside the processor: a command makes it busy, and later   *)
(* it has data to give or to take, is done, or reports an error or a       *)
(* fault. The driver only ever polls its status. The registers hold        *)
(* numbers below Byte (256), HDDEVSEL a head below Nibble (16).            *)
(***************************************************************************)
EXTENDS Integers, Sequences

CONSTANTS
  Byte, Nibble,   \* values of a byte and of half of one
  Spt,            \* sectors of a track (63) and
  Heads,          \* heads of a cylinder (16), by which the driver counts
  Channels,       \* channels of the controller: 0 .. Channels - 1
  Setups,         \* what may be attached: [channel, drive -> kind]
  Lbas,           \* the sectors that callers ask for
  MaxCalls        \* bound: calls of disk_read and disk_write

\* A drive is <<channel, 0 for the master or 1 for the slave>>. Its kind: "none"
\* (its status reads 0), "float" (no drive on the channel: all bits are set),
\* "atapi" or "ata", with mode 0 for CHS, 1 for LBA28, 2 for LBA48.
Places == (0 .. Channels - 1) \X {0, 1}
U32    == Byte * Byte * Byte * Byte
Kinds  == [k : {"none", "float", "atapi", "ata"}, mode : 0 .. 2, sectors : 0 .. U32 - 1]

ASSUME PataAssumption ==
  /\ {Byte, Nibble, Spt, Heads, Channels} \subseteq Nat \ {0}
  /\ Spt < Byte /\ Heads <= Nibble /\ Nibble <= Byte
  /\ Lbas \subseteq 0 .. U32 - 1
  \* A CHS drive has no more sectors than its registers can name.
  /\ \A s \in Setups : /\ s \in [Places -> Kinds]
                       /\ \A d \in Places : s[d].mode = 0 =>
                            s[d].sectors <= Byte * Byte * (Heads * Spt)

VARIABLES
  setup,      \* the kinds
  reg,        \* per channel: the selected drive, whether by LBA, the head, and
              \* the last two values written to LBA0, LBA1 and LBA2
  drive,      \* per drive: its state, command and sector
  written,    \* per drive: the sectors whose content is not the first one
  pc, at,     \* where the driver is, and the drive of the search
  devices,    \* the drives registered, with what IDENTIFY said of them
  call,       \* the call at work: [op, dev, lba], and for a read what it got
  err,        \* what it returns
  asked,      \* history: per drive, the sectors callers wrote
  calls

hardware == <<setup, reg, drive, written>>
search   == <<at, devices>>
caller   == <<call, err, asked, calls>>
pataVars == <<hardware, search, pc, caller>>

Kind(d) == setup[d]
IsAta(d) == Kind(d).k = "ata"
IsDrive(d) == Kind(d).k \in {"ata", "atapi"}
Selected(c) == <<c, reg[c].sel>>

\* The status register of the selected drive, as the set of its bits.
Status(c) ==
  LET d == Selected(c)
  IN  CASE Kind(d).k = "float" -> {"BSY", "DF", "DRQ", "ERR"}
        [] Kind(d).k = "none"  -> {}
        [] OTHER -> {"DRDY"} \cup (CASE drive[d].st = "idle" -> {}
                                     [] drive[d].st = "busy" -> {"BSY"}
                                     [] drive[d].st = "data" -> {"DRQ"}
                                     [] drive[d].st = "err"  -> {"ERR"}
                                     [] drive[d].st = "df"   -> {"DF"})

--------------------------------------------------------------------------------
(* The registers. A register keeps the value before the last, which an     *)
(* extended command takes for its high byte: SECCOUNT1 and LBA3 to LBA5    *)
(* are the registers of SECCOUNT0 and LBA0 to LBA2, written first.         *)

Push(r, v) == <<r[2], v>>

\* ide_write of HDDEVSEL: A0 or E0, the slave bit and the head.
Select(c, lba, slave, head) == [reg[c] EXCEPT !.sel = slave, !.lba = lba, !.head = head]
\* ide_write of LBA(3 * half) to LBA(3 * half + 2).
WriteLba(r, io, half) ==
  [r EXCEPT !.r = [n \in 0 .. 2 |-> Push(@[n], io[3 * half + n])]]

LowFirst(r, mode, io) ==   \* mutant: the low bytes are written first
  IF mode = 2 THEN WriteLba(WriteLba(r, io, 0), io, 1) ELSE WriteLba(r, io, 0)
Parameters(r, mode, io) ==
  WriteLba(IF mode = 2 THEN WriteLba(r, io, 1) ELSE r, io, 0)

\* What the drive takes the registers for.
Sector(r, ext) ==
  LET Low(n)  == r.r[n][2]
      High(n) == r.r[n][1]
      low     == Low(0) + Byte * (Low(1) + Byte * Low(2))
      cyl     == Low(1) + Byte * Low(2)
  IN  IF ext THEN low + Byte * Byte * Byte *
                          (High(0) + Byte * (High(1) + Byte * High(2)))
      ELSE IF r.lba THEN low + Byte * Byte * Byte * r.head
      ELSE (cyl * Heads + r.head) * Spt + Low(0) - 1

--------------------------------------------------------------------------------
(* The drives.                                                             *)

Commanded(d, cmd, sector) == [drive EXCEPT ![d] = [st |-> "busy", cmd |-> cmd,
                                                   sector |-> sector]]
Becomes(d, st) == drive' = [drive EXCEPT ![d].st = st]
\* The words of the IDENTIFY data, all of them.
ide_read_buffer(d) == Becomes(d, "idle")

\* A busy drive goes on. A command for a sector it does not have is an error.
Answer(d) ==
  /\ IsDrive(d) /\ drive[d].st = "busy"
  /\ LET cmd == drive[d].cmd
         has == drive[d].sector < Kind(d).sectors
     IN  \/ cmd = "identify" /\ Becomes(d, IF IsAta(d) THEN "data" ELSE "err")
            /\ UNCHANGED written
         \/ cmd \in {"read", "write"} /\ has /\ Becomes(d, "data") /\ UNCHANGED written
         \/ cmd \in {"read", "write"} /\ ~has /\ Becomes(d, "err") /\ UNCHANGED written
         \/ cmd \in {"read", "write"} /\ Becomes(d, "df") /\ UNCHANGED written
         \/ cmd = "store" /\ Becomes(d, "idle")
            /\ written' = [written EXCEPT ![d] = @ \cup {drive[d].sector}]
         \/ cmd = "store" /\ Becomes(d, "df") /\ UNCHANGED written
         \/ cmd = "flush" /\ Becomes(d, "idle") /\ UNCHANGED written
  /\ UNCHANGED <<setup, reg, search, pc, caller>>

--------------------------------------------------------------------------------
(* ide_initialize: one drive after the other, at is the one at work.       *)

NextPlace(p) == IF p[2] = 0 THEN <<p[1], 1>> ELSE <<p[1] + 1, 0>>
Goto(l) == pc' = l
\* "continue" of the loop.
Skip == /\ at' = NextPlace(at)
        /\ Goto(IF NextPlace(at)[1] = Channels THEN "idle" ELSE "select")

SelectDrive == /\ pc = "select" /\ Goto("identify")
               /\ reg' = [reg EXCEPT ![at[1]] = Select(at[1], FALSE, at[2], 0)]
               /\ UNCHANGED <<setup, drive, written, search, caller>>

\* Nobody listens where there is no drive.
Identify == /\ pc = "identify" /\ Goto("present")
            /\ drive' = IF IsDrive(at) THEN Commanded(at, "identify", 0) ELSE drive
            /\ UNCHANGED <<setup, reg, written, search, caller>>

Present == /\ pc = "present"
           /\ IF Status(at[1]) = {} THEN Skip ELSE Goto("probe") /\ UNCHANGED at
           /\ UNCHANGED <<hardware, devices, caller>>

\* Anything but an ATA drive answers with an error; it is left alone.
Refused == /\ pc = "probe" /\ "ERR" \in Status(at[1])
           /\ Skip
           /\ UNCHANGED <<hardware, devices, caller>>

RegisterAny ==   \* mutant: the error is looked at after the data
  /\ pc = "probe" /\ Status(at[1]) \cap {"DRQ", "ERR"} # {}
  /\ "BSY" \notin Status(at[1]) \/ Kind(at).k = "float"
  /\ devices' = Append(devices, [place |-> at, mode |-> 0, sectors |-> 1])
  /\ drive' = [drive EXCEPT ![at].st = "idle"]
  /\ Skip
  /\ UNCHANGED <<setup, reg, written, caller>>
\* The parameters are read and the device is registered.
Register ==
  /\ pc = "probe" /\ "ERR" \notin Status(at[1])
  /\ "BSY" \notin Status(at[1]) /\ "DRQ" \in Status(at[1])
  /\ devices' = Append(devices, [place |-> at, mode |-> Kind(at).mode,
                                 sectors |-> Kind(at).sectors])
  /\ ide_read_buffer(at)
  /\ Skip
  /\ UNCHANGED <<setup, reg, written, caller>>

--------------------------------------------------------------------------------
(* ide_ata_access, behind disk_read and disk_write: one sector a call.     *)

NoCall == [op |-> "none"]

\* ide_read_sectors and ide_write_sectors: the sum is a u32.
BeyondEnd(dev, lba) == (lba + 1) % U32 > dev.sectors

\* (I) LBA48 for a drive that has it and for an LBA that needs it.
LbaMode(dev, lba) ==
  IF dev.mode = 2 \/ lba >= Byte * Byte * Byte * Nibble - 1 THEN 2 ELSE dev.mode

Digit(n, k) == (n \div <<1, Byte, Byte * Byte, Byte * Byte * Byte>>[k + 1]) % Byte

ChsFromZero(lba) ==   \* mutant: sectors counted from 0
  LET sect == lba % Spt
      cyl  == (lba - sect) \div (Heads * Spt)
  IN  [io |-> [k \in 0 .. 5 |-> CASE k = 0 -> sect
                                  [] k \in {1, 2} -> Digit(cyl, k - 1)
                                  [] OTHER -> 0],
       head |-> ((lba - sect) % (Heads * Spt)) \div Spt]
Chs(lba) ==
  LET sect == (lba % Spt) + 1
      cyl  == ((lba + 1 - sect) \div (Heads * Spt)) % (Byte * Byte)
  IN  [io |-> [k \in 0 .. 5 |-> CASE k = 0 -> sect
                                  [] k \in {1, 2} -> Digit(cyl, k - 1)
                                  [] OTHER -> 0],
       head |-> ((lba + 1 - sect) % (Heads * Spt)) \div Spt]

\* lba_io and head.
Address(mode, lba) ==
  CASE mode = 2 -> [io |-> [k \in 0 .. 5 |-> IF k < 4 THEN Digit(lba, k) ELSE 0],
                    head |-> 0]
    [] mode = 1 -> [io |-> [k \in 0 .. 5 |-> IF k < 3 THEN Digit(lba, k) ELSE 0],
                    head |-> (lba \div (Byte * Byte * Byte)) % Nibble]
    [] mode = 0 -> Chs(lba)

Called(op, dev, lba) ==
  /\ pc = "idle" /\ calls < MaxCalls /\ calls' = calls + 1
  /\ call' = [op |-> op, dev |-> dev, lba |-> lba, got |-> <<>>]
  /\ asked' = IF op = "read" THEN asked
              ELSE [asked EXCEPT ![dev.place] = @ \cup {lba}]
  /\ \/ BeyondEnd(dev, lba) /\ err' = 2 /\ Goto("return")
     \/ ~BeyondEnd(dev, lba) /\ err' = 0 /\ Goto("ready")
  /\ UNCHANGED <<hardware, search>>

disk_read  == \E k \in 1 .. Len(devices), lba \in Lbas : Called("read", devices[k], lba)
disk_write == \E k \in 1 .. Len(devices), lba \in Lbas : Called("write", devices[k], lba)

\* The busy bit is that of the drive selected last; then the other one may be
\* selected, the parameters written and the command given. A drive that does not
\* have the extended commands has no sector for one.
Command ==
  LET c    == call.dev.place[1]
      mode == LbaMode(call.dev, call.lba)
      addr == Address(mode, call.lba)
      r    == Parameters(Select(c, mode # 0, call.dev.place[2], addr.head),
                         mode, addr.io)
  IN  /\ pc = "ready" /\ "BSY" \notin Status(c)
      /\ reg' = [reg EXCEPT ![c] = r]
      /\ drive' = Commanded(<<c, r.sel>>, call.op,
                            IF mode = 2 /\ Kind(<<c, r.sel>>).mode # 2 THEN U32
                            ELSE Sector(r, mode = 2))
      /\ Goto(IF call.op = "read" THEN "poll" ELSE "send")
      /\ UNCHANGED <<setup, written, search, caller>>

\* ide_polling: once the drive is not busy, what its status means; 0 if it is
\* not to be looked at.
Polled(c, advanced) ==
  CASE advanced /\ "ERR" \in Status(c)   -> 2
    [] advanced /\ "ERR" \notin Status(c) /\ "DF" \in Status(c) -> 1
    [] advanced /\ Status(c) \cap {"ERR", "DF", "DRQ"} = {} -> 3
    [] OTHER -> 0
NotBusy(c) == "BSY" \notin Status(c)

Channel == call.dev.place[1]
Target  == Selected(Channel)

ReadAnyway ==   \* mutant: the status is not looked at
  /\ pc = "poll" /\ NotBusy(Channel)
  /\ err' = 0
  /\ call' = [call EXCEPT !.got = <<Target, drive[Target].sector,
                                    drive[Target].sector \in written[Target]>>]
  /\ Becomes(Target, "idle")
  /\ Goto("return")
  /\ UNCHANGED <<setup, reg, written, search, asked, calls>>
ReadWhenReady ==   \* mutant: the data is waited for, whatever the error
  /\ pc = "poll" /\ "DRQ" \in Status(Channel)
  /\ err' = 0
  /\ call' = [call EXCEPT !.got = <<Target, drive[Target].sector,
                                    drive[Target].sector \in written[Target]>>]
  /\ Becomes(Target, "idle")
  /\ Goto("return")
  /\ UNCHANGED <<setup, reg, written, search, asked, calls>>
\* PIO read: the words of the sector, or the error.
ReadData ==
  /\ pc = "poll" /\ NotBusy(Channel)
  /\ err' = Polled(Channel, TRUE)
  /\ \/ /\ err' = 0
        /\ call' = [call EXCEPT !.got = <<Target, drive[Target].sector,
                                          drive[Target].sector \in written[Target]>>]
        /\ Becomes(Target, "idle")
     \/ err' # 0 /\ UNCHANGED <<call, drive>>
  /\ Goto("return")
  /\ UNCHANGED <<setup, reg, written, search, asked, calls>>

\* PIO write: the drive is not asked whether it takes the words (ide_polling
\* with 0); one that does not want them lets them pass.
SendData ==
  /\ pc = "send" /\ NotBusy(Channel) /\ Polled(Channel, FALSE) = 0
  /\ drive' = IF drive[Target].st = "data"
              THEN Commanded(Target, "store", drive[Target].sector) ELSE drive
  /\ Goto("flush")
  /\ UNCHANGED <<setup, reg, written, search, caller>>

\* The command goes out without a wait: a drive that still stores the sector does
\* not take it.
Flush ==
  /\ pc = "flush"
  /\ drive' = IF NotBusy(Channel) THEN Commanded(Target, "flush", 0) ELSE drive
  /\ Goto("flushed")
  /\ UNCHANGED <<setup, reg, written, search, caller>>

Flushed ==
  /\ pc = "flushed" /\ NotBusy(Channel)
  /\ Goto("return")
  /\ UNCHANGED <<hardware, search, call, err, asked, calls>>

\* ide_print_error gives every error a number of its own, none of them 0.
Return == /\ pc = "return" /\ Goto("idle")
          /\ call' = NoCall /\ err' = 0
          /\ UNCHANGED <<hardware, search, asked, calls>>

--------------------------------------------------------------------------------
PataInit ==
  /\ setup \in Setups
  /\ reg = [c \in 0 .. Channels - 1 |-> [sel |-> 0, lba |-> FALSE, head |-> 0,
                                         r |-> [n \in 0 .. 2 |-> <<0, 0>>]]]
  /\ drive = [d \in Places |-> [st |-> "idle", cmd |-> "none", sector |-> 0]]
  /\ written = [d \in Places |-> {}]
  /\ pc = "select" /\ at = <<0, 0>> /\ devices = <<>>
  /\ call = NoCall /\ err = 0 /\ asked = [d \in Places |-> {}] /\ calls = 0

ide_initialize == SelectDrive \/ Identify \/ Present \/ Refused \/ Register
ide_ata_access == Command \/ ReadData \/ SendData \/ Flush \/ Flushed
Driver == ide_initialize \/ ide_ata_access \/ Return

PataNext == \/ Driver
            \/ disk_read \/ disk_write
            \/ \E d \in Places : Answer(d)

\* The processor runs the driver on, and a drive does not stay busy for ever:
\* the loops of the driver have no other end.
PataSpec == /\ PataInit /\ [][PataNext]_pataVars
            /\ WF_pataVars(Driver)
            /\ \A d \in Places : WF_pataVars(Answer(d))

--------------------------------------------------------------------------------
(* Properties.                                                             *)

(* What disk_read returns without an error is the sector it was asked for, *)
(* of the drive it was asked of, as it was last stored, whatever the       *)
(* addressing (disk.c:441): CHS, LBA28 or LBA48.                           *)
ReadsAddressed ==
  pc = "return" /\ call.op = "read" /\ err = 0 =>
    call.got = <<call.dev.place, call.lba, call.lba \in written[call.dev.place]>>

(* No sector of any drive changes but those that disk_write was given for  *)
(* that drive, whichever drive was selected before.                        *)
WritesAddressed == \A d \in Places : written[d] \subseteq asked[d]

(* The search registers every ATA disk and nothing else, with its own size *)
(* and addressing, and comes to its end.                                   *)
FoundDrives == {devices[k] : k \in 1 .. Len(devices)}
FindsTheDisks ==
  at[1] = Channels =>
    /\ FoundDrives = {[place |-> d, mode |-> Kind(d).mode, sectors |-> Kind(d).sectors] :
                        d \in {p \in Places : IsAta(p)}}
    /\ \A i, j \in 1 .. Len(devices) : i # j => devices[i].place # devices[j].place

(* The driver waits without a time-out, in the search and in every call;   *)
(* drives that answer, be it with errors, let it come back.                *)
DriverReturns == []<>(pc = "idle")
================================================================================
