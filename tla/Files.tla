--------------------------------- MODULE Files ---------------------------------
(***************************************************************************)
(* The RAM disk: where metal_main and kmain find it (boot/metal_main.c,    *)
(* test_harness.c), the file table of stubs/syscall_shim.c over it, and    *)
(* the two callbacks of the harness through which FFmpeg reads it.  Every  *)
(* name opens the RAM disk; a descriptor is the number of its entry.       *)
(***************************************************************************)
EXTENDS Integers

CONSTANTS Entries,  \* NFD
          Sizes,    \* sizes that a loader may report, 0 for none
          Embedded, \* test_mp4_len
          Counts,   \* how much a read asks for
          Offsets   \* where a seek goes

ASSUME DiskAssumption ==
  /\ Entries \in Nat \ {0} /\ Embedded \in Nat \ {0}
  /\ Sizes \subseteq Nat /\ Counts \subseteq Nat \ {0} /\ Offsets \subseteq Int

VARIABLES disk, \* rd_base, by the source it comes from, and rd_size
          ft,   \* the file table: the position of an entry, or Closed
          got   \* what each reader has got: where its last open or seek has put it,
                \* how much it has read since, and whether the last read gave nothing

fileVars == <<disk, ft, got>>

Closed == -1
NoDisk == [base |-> "none", size |-> 0]
From(p) == [from |-> p, bytes |-> 0, ended |-> FALSE]

\* The module of PVH's start info, fw_cfg, or the copy in the image; a source of
\* size 0 is no source.
Disk(module, fwcfg) ==
  IF module > 0 THEN [base |-> "module", size |-> module]
  ELSE IF fwcfg > 0 THEN [base |-> "fw_cfg", size |-> fwcfg]
  ELSE [base |-> "embedded", size |-> Embedded]

FilesInit == /\ disk = NoDisk
             /\ ft = [fd \in 1..Entries |-> Closed]
             /\ got = [fd \in 1..Entries |-> From(0)]

\* The start of metal_main and of kmain.
Boot(module, fwcfg) ==
  /\ disk = NoDisk
  /\ disk' = Disk(module, fwcfg)
  /\ UNCHANGED <<ft, got>>

Unused == {fd \in 1..Entries : ft[fd] = Closed}

\* The first unused entry, at position 0; open fails when there is none.
OpenFile ==
  /\ disk # NoDisk
  /\ \E fd \in Unused : /\ \A g \in Unused : fd <= g
                        /\ ft' = [ft EXCEPT ![fd] = 0]
                        /\ got' = [got EXCEPT ![fd] = From(0)]
  /\ UNCHANGED disk

Least(a, b) == IF a < b THEN a ELSE b

\* What a read of count bytes gives: what is left, at most.
Given(fd, count) ==
  Least(count, IF disk.size > ft[fd] THEN disk.size - ft[fd] ELSE 0)

Take(fd, n) ==
  got' = [got EXCEPT ![fd] = [from |-> @.from, bytes |-> @.bytes + n, ended |-> n = 0]]

\* Mutant: the position moves by what was asked for.
Read_Asked(fd, count) ==
  /\ ft[fd] # Closed
  /\ ft' = [ft EXCEPT ![fd] = @ + count]
  /\ Take(fd, Given(fd, count))
  /\ UNCHANGED disk

\* read, and rd_read of the harness.
Read(fd, count) ==
  /\ ft[fd] # Closed
  /\ ft' = [ft EXCEPT ![fd] = @ + Given(fd, count)]
  /\ Take(fd, Given(fd, count))
  /\ UNCHANGED disk

\* lseek64, and rd_seek without AVSEEK_SIZE: any whence but 0 and 1 counts from
\* the end, and the position stays on the disk.
Seek(fd, off, whence) ==
  /\ ft[fd] # Closed
  /\ LET to == off + (IF whence = 0 THEN 0 ELSE IF whence = 1 THEN ft[fd] ELSE disk.size)
         np == IF to < 0 THEN 0 ELSE Least(to, disk.size)
     IN ft' = [ft EXCEPT ![fd] = np] /\ got' = [got EXCEPT ![fd] = From(np)]
  /\ UNCHANGED disk

Close(fd) ==
  /\ ft[fd] # Closed
  /\ ft' = [ft EXCEPT ![fd] = Closed]
  /\ got' = [got EXCEPT ![fd] = From(0)]
  /\ UNCHANGED disk

FilesNext ==
  \/ \E m, f \in Sizes : Boot(m, f)
  \/ OpenFile
  \/ \E fd \in 1..Entries :
       \/ \E n \in Counts : Read(fd, n)
       \/ \E off \in Offsets, whence \in 0..2 : Seek(fd, off, whence)
       \/ Close(fd)

FilesSpec == FilesInit /\ [][FilesNext]_fileVars

-----------------------------------------------------------------------------
\* A reader gets the disk from where it has begun, each byte once and in order,
\* whatever goes on through other descriptors, and a read gives nothing only when
\* the reader has got it all.
ReadsAll ==
  \A fd \in {f \in 1..Entries : ft[f] # Closed} :
    /\ ft[fd] = got[fd].from + got[fd].bytes /\ ft[fd] <= disk.size
    /\ got[fd].ended => got[fd].from + got[fd].bytes = disk.size
================================================================================
