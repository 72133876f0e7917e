------------------------------- MODULE AtaPio --------------------------------
(***************************************************************************)
(* Writing to an ATA disk (ata.c): the driver and the device, which works  *)
(* on its own between the driver's port accesses.                          *)
(*                                                                         *)
(* A write may start and end inside a sector, so the driver reads the      *)
(* first and the last one, puts the new bytes in, and writes whole         *)
(* sectors, by one command for the first, one for those between and one    *)
(* for the last.  A try that the device refuses is made again.             *)
(*                                                                         *)
(* The device is modelled from the registers the driver uses: it is busy   *)
(* from the last word of a sector to the end of its writing, and takes no  *)
(* command and no data meanwhile; words it does not want are dropped; an   *)
(* error ends its command.                                                 *)
(***************************************************************************)
EXTENDS Integers, Sequences, FiniteSetsExt

CONSTANTS
  SectorSize,   \* 512
  DiskSectors,  \* sectors of the disk
  Requests,     \* arguments of ata_write_sectors_to_disk
  Buffers       \* contents of the caller's memory

Offsets == 0..(SectorSize - 1)
Sectors == 0..(DiskSectors - 1)

ASSUME DiskAssumption ==
  /\ SectorSize \in Nat \ {0} /\ DiskSectors \in Nat \ {0}
  /\ Requests \subseteq [lba : Nat, offset : Nat, length : Nat, buf : Buffers]

\* A byte is the one at a place of a buffer, or one the disk had at first
Byte   == [of : Buffers \cup {"disk"}, at : Nat]
Sector == [Offsets -> Byte]

VARIABLES
  disk,     \* the sectors
  device,   \* busy, failed (ERR), the next sector and how many are wanted
  given,    \* the sector being written
  pc,       \* where ata_write_sectors_to_disk is
  request,  \* its arguments
  attempt,  \* its counter
  first,    \* firstSectorOrgContent
  last,     \* lastSectorOrgContent
  command,  \* which of the commands is next or under way
  sent,     \* sectors sent for it
  result,   \* what the call returned
  before,   \* history: the disk when the call was made
  missed    \* history: in this try the device dropped a command or a sector

host    == <<pc, request, attempt, first, last, command, sent, result>>
history == <<before, missed>>
vars    == <<disk, device, given, host, history>>

Idle == [busy |-> FALSE, failed |-> FALSE, at |-> 0, wants |-> 0]

-----------------------------------------------------------------------------
(* The sectors of a request and what they are to hold *)

FirstSector == request.lba + request.offset \div SectorSize
Offset      == request.offset % SectorSize

\* A mutant: as if each request began with a sector
NumSectorsFromStart == (request.length + SectorSize - 1) \div SectorSize

NumSectors ==
  request.length \div SectorSize
    + ((request.length % SectorSize) + Offset) \div SectorSize + 1

LastSector == FirstSector + NumSectors - 1

FromBuffer(k) == [of |-> request.buf, at |-> k]

\* bufOffset after the first sector
InFirst == Min({SectorSize - Offset, request.length})

\* A mutant: the sectors between are counted as bytes
AfterMiddleBytes == InFirst + (NumSectors - 2)

AfterMiddle == InFirst + (NumSectors - 2) * SectorSize

FirstMerged ==
  [b \in Offsets |-> IF b \in Offset..(Offset + InFirst - 1)
                     THEN FromBuffer(b - Offset) ELSE first[b]]

LastMerged ==
  [b \in Offsets |-> IF InFirst < request.length /\ AfterMiddle + b < request.length
                     THEN FromBuffer(AfterMiddle + b) ELSE last[b]]

Between(s) ==
  [b \in Offsets |-> FromBuffer(InFirst + (s - FirstSector - 1) * SectorSize + b)]

ToSend(s) == IF s = FirstSector THEN FirstMerged
             ELSE IF s = LastSector THEN LastMerged ELSE Between(s)

Commands ==
  LET start == [at |-> FirstSector, count |-> 1]
      rest  == [at |-> FirstSector + 1, count |-> NumSectors - 2]
      final == [at |-> LastSector, count |-> 1]
  IN  IF NumSectors = 1 THEN <<start>>
      ELSE IF NumSectors = 2 THEN <<start, final>> ELSE <<start, rest, final>>

-----------------------------------------------------------------------------
(* The driver *)

StartWrite(r) ==
  /\ pc = "idle"
  /\ request' = r
  /\ attempt' = 1
  /\ pc' = "readFirst"
  /\ result' = "none"
  /\ before' = disk
  /\ missed' = FALSE
  /\ UNCHANGED <<disk, device, given, first, last, command, sent>>

\* A mutant: the counter stands still
TryForever ==
  /\ pc' = "readFirst"
  /\ missed' = FALSE
  /\ UNCHANGED <<attempt, result>>

\* A mutant: one try more
TryOnceMore ==
  \/ /\ attempt <= 3
     /\ attempt' = attempt + 1
     /\ pc' = "readFirst"
     /\ missed' = FALSE
     /\ UNCHANGED result
  \/ /\ attempt = 4
     /\ pc' = "idle"
     /\ result' = "error"
     /\ UNCHANGED <<attempt, missed>>

\* Three tries
TryAgain ==
  \/ /\ attempt < 3
     /\ attempt' = attempt + 1
     /\ pc' = "readFirst"
     /\ missed' = FALSE
     /\ UNCHANGED result
  \/ /\ attempt = 3
     /\ pc' = "idle"
     /\ result' = "error"
     /\ UNCHANGED <<attempt, missed>>

\* A sector is read, unless it is not there or the device fails
ReadFirst ==
  /\ pc = "readFirst"
  /\ \/ /\ FirstSector \in Sectors
        /\ first' = disk[FirstSector]
        /\ pc' = "readLast"
        /\ UNCHANGED <<attempt, result, missed>>
     \/ TryAgain /\ UNCHANGED first
  /\ UNCHANGED <<disk, device, given, request, last, command, sent, before>>

ReadLast ==
  /\ pc = "readLast"
  /\ \/ /\ LastSector \in Sectors
        /\ last' = disk[LastSector]
        /\ pc' = "command"
        /\ command' = 1
        /\ UNCHANGED <<attempt, result, missed>>
     \/ TryAgain /\ UNCHANGED <<last, command>>
  /\ UNCHANGED <<disk, device, given, request, first, sent, before>>

\* The driver does not look whether the device is busy
SendCommand ==
  /\ pc = "command"
  /\ pc' = "data"
  /\ sent' = 0
  /\ \/ /\ device.busy
        /\ missed' = TRUE
        /\ UNCHANGED device
     \/ /\ ~device.busy
        /\ \E failed \in BOOLEAN :
             device' = [busy   |-> FALSE, failed |-> failed,
                        at     |-> Commands[command].at,
                        wants  |-> IF failed THEN 0 ELSE Commands[command].count]
        /\ UNCHANGED missed
  /\ UNCHANGED <<disk, given, request, attempt, first, last, command, result, before>>

\* Only before the first sector of a command is ERR looked at
Refused ==
  /\ pc = "data" /\ ~device.busy
  /\ sent = 0 /\ device.failed
  /\ TryAgain
  /\ UNCHANGED <<disk, device, given, request, first, last, command, sent, before>>

SendSector ==
  /\ pc = "data" /\ ~device.busy
  /\ ~(sent = 0 /\ device.failed)
  /\ sent' = sent + 1
  /\ \/ /\ device.wants > 0
        /\ given' = ToSend(Commands[command].at + sent)
        /\ device' = [device EXCEPT !.busy = TRUE]
        /\ UNCHANGED missed
     \/ /\ device.wants = 0
        /\ missed' = TRUE
        /\ UNCHANGED <<given, device>>
  /\ IF sent' < Commands[command].count
     THEN UNCHANGED <<pc, command>>
     ELSE IF command < Len(Commands)
     THEN pc' = "command" /\ command' = command + 1
     ELSE pc' = "wait" /\ UNCHANGED command
  /\ UNCHANGED <<disk, request, attempt, first, last, result, before>>

Return ==
  /\ pc = "wait" /\ ~device.busy
  /\ pc' = "idle"
  /\ result' = "ok"
  /\ UNCHANGED <<disk, device, given, request, attempt, first, last, command,
                 sent, history>>

-----------------------------------------------------------------------------
(* The device writes the sector it was given, or fails *)
DeviceDone ==
  /\ device.busy
  /\ \/ /\ disk' = [disk EXCEPT ![device.at] = given]
        /\ device' = [device EXCEPT !.busy = FALSE, !.at = @ + 1, !.wants = @ - 1]
        /\ UNCHANGED missed
     \/ /\ device' = [device EXCEPT !.busy = FALSE, !.failed = TRUE, !.wants = 0]
        /\ missed' = TRUE
        /\ UNCHANGED disk
  /\ UNCHANGED <<given, host, before>>

FirstContents ==
  [s \in Sectors |-> [b \in Offsets |-> [of |-> "disk", at |-> s * SectorSize + b]]]

NoRequest(buf) == [lba |-> 0, offset |-> 0, length |-> 0, buf |-> buf]

Init ==
  /\ disk = FirstContents
  /\ device = Idle
  /\ given = disk[0]
  /\ pc = "idle"
  /\ request \in {NoRequest(buf) : buf \in Buffers}
  /\ attempt = 1
  /\ first = disk[0] /\ last = disk[0]
  /\ command = 1 /\ sent = 0
  /\ result = "none"
  /\ before = disk
  /\ missed = FALSE

Driver ==
  ReadFirst \/ ReadLast \/ SendCommand \/ Refused \/ SendSector \/ Return

Next == (\E r \in Requests : StartWrite(r)) \/ Driver \/ DeviceDone

Spec == Init /\ [][Next]_vars

\* The driver waits for nothing but the device, which ends what it began
FairSpec == Spec /\ WF_vars(Driver) /\ WF_vars(DeviceDone)

-----------------------------------------------------------------------------
(* Every variable has its type. *)
TypeOK ==
  /\ disk \in [Sectors -> Sector] /\ before \in [Sectors -> Sector]
  /\ device \in [busy : BOOLEAN, failed : BOOLEAN, at : Nat, wants : Nat]
  /\ given \in Sector /\ first \in Sector /\ last \in Sector
  /\ pc \in {"idle", "readFirst", "readLast", "command", "data", "wait"}
  /\ request \in [lba : Nat, offset : Nat, length : Nat, buf : Buffers]
  /\ attempt \in 1..3
  /\ command \in 1..3 /\ sent \in Nat
  /\ result \in {"none", "ok", "error"}
  /\ missed \in BOOLEAN

\* What the caller asks of a sector
Start == request.lba * SectorSize + request.offset

Asked(s) ==
  [b \in Offsets |->
     LET k == s * SectorSize + b - Start
     IN  IF k \in 0..(request.length - 1) THEN FromBuffer(k) ELSE before[s][b]]

(***************************************************************************)
(* At every moment of a call, and after one that failed, each sector is as *)
(* it was before or as the caller asked, in all its bytes: the sectors     *)
(* that are only read and written back (ata.c:66-91) keep what is not the  *)
(* caller's, whatever the device refused, dropped or was retried.          *)
(***************************************************************************)
SectorsWhole == \A s \in Sectors : disk[s] \in {before[s], Asked(s)}

(***************************************************************************)
(* A call that returned 0 wrote every byte, also after failed tries, if    *)
(* the device dropped nothing of the last one.                             *)
(***************************************************************************)
AllWritten == \A s \in Sectors : disk[s] = Asked(s)

OkUnlessMissed == result = "ok" /\ ~missed => AllWritten

(***************************************************************************)
(* "Write the sectors to the disk" (ata.c:169): a call that returned 0     *)
(* wrote every byte.                                                       *)
(***************************************************************************)
OkMeansWritten == result = "ok" => AllWritten

(* A call returns, however often the device fails. *)
CallReturns == pc # "idle" ~> pc = "idle"
=============================================================================
