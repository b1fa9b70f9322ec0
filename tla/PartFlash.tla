----------------------------- MODULE PartFlash -----------------------------
(***************************************************************************)
(* The partition manager, second part: flashing Linux (the l4t.NN files)   *)
(* and Android (kernel, recovery and device tree) into partitions that     *)
(* exist (gui_tools_partition_manager.c).                                  *)
(*                                                                         *)
(* Abstractions.  Blocks stand for 2 MiB: a chunk of the flasher is two of *)
(* them, the tail of the last file that is shorter than a block is not     *)
(* seen.  A block is <<"l4t", n, k>> when it is from offset k of file n.    *)
(* The partitions of Android are flashed in one write each.                *)
(***************************************************************************)
EXTENDS Integers, Sequences, FiniteSetsExt

CONSTANTS
    L4tImages,      \* sequences of file sizes, in blocks
    FlashTargets,   \* what the GPT (or the MBR) lists: [name, start, size]
    AndroidImages,  \* which images are there: functions from names to sizes, 0 for none
    FlashDevice,    \* blocks of the device
    MinL4t,         \* 0x800000 sectors, in blocks
    FlashWrap       \* where the u32 bytesWritten wraps: 4 GiB, in blocks

L4tChunk == 2
Kernel == "boot"
Recovery == "recovery"
Dtb == "dtb"
AndroidNames == {Kernel, Recovery, Dtb}

ASSUME FlashSizes ==
    /\ \A f \in L4tImages : f \in Seq(Nat \ {0})   \* an empty file would be read from
    /\ FlashDevice \in Nat /\ MinL4t \in Nat \ {0} /\ FlashWrap \in Nat \ {0}
    /\ \A t \in FlashTargets :
         /\ Len(t) \in Nat
         /\ \A i \in 1 .. Len(t) :
              t[i].start \in Nat /\ t[i].size \in Nat /\ t[i].start + t[i].size <= FlashDevice
    /\ \A a \in AndroidImages : a \in [AndroidNames -> Nat]

VARIABLES
    l4t_files,    \* the l4t.NN files on the SD card
    and_files,    \* boot.img, recovery.img and the device tree
    targets,      \* the partitions
    device,       \* what the device holds
    flasher       \* [st, image (left to flash), part, read (of it), lba]: the Linux flasher

flashVars == <<l4t_files, and_files, targets, device, flasher>>

Old == <<"old", 0, 0>>
NoFlash == [st |-> "idle", image |-> 0, part |-> 0, read |-> 0, lba |-> 0, retryCount |-> 0]

FlashInit ==
    /\ l4t_files \in L4tImages /\ and_files \in AndroidImages /\ targets \in FlashTargets
    /\ device = [b \in 0 .. FlashDevice - 1 |-> Old]
    /\ flasher = NoFlash

\* The first partition with the name; an empty one when there is none.
FlashTarget(name) ==
    LET named == {i \in 1 .. Len(targets) : targets[i].name = name}
    IN  IF named = {} THEN [name |-> name, start |-> 0, size |-> 0] ELSE targets[Min(named)]

Write(start, data) ==
    device' = [b \in DOMAIN device |->
                 IF b \in start .. start + Len(data) - 1 THEN data[b - start + 1] ELSE device[b]]

----------------------------------------------------------------------------
(* Linux.                                                                  *)

\* Every file but the last is a multiple of 4 MiB.
Aligned_Any(files) == TRUE
Aligned(files) == \A n \in 1 .. Len(files) - 1 : files[n] % L4tChunk = 0

ImageTooBig(image, size) == image > size

\* Blocks of the first n files.
L4tBefore(files) ==
    LET sum[n \in 0 .. Len(files)] == IF n = 0 THEN 0 ELSE sum[n - 1] + files[n]
    IN  sum

ImageSize(files) == L4tBefore(files)[Len(files)]

\* _action_check_flash_linux; the user continues.
_action_check_flash_linux ==
    LET t == FlashTarget("l4t")
    IN  /\ flasher.st = "idle" /\ l4t_files # <<>>
        /\ t.start # 0 /\ t.size >= MinL4t
        /\ Aligned(l4t_files) /\ ~ImageTooBig(ImageSize(l4t_files), t.size)
        /\ flasher' = [NoFlash EXCEPT !.st = "open", !.image = ImageSize(l4t_files)]
        /\ UNCHANGED <<l4t_files, and_files, targets, device>>

FlashL4t(f) == flasher' = f /\ UNCHANGED <<l4t_files, and_files, targets>>
FlashFails == FlashL4t([flasher EXCEPT !.st = "error"]) /\ UNCHANGED device

\* The file the flasher reads from next: _action_flash_linux_data opens it when
\* the one before is used up.
OpenL4tPart ==
    /\ flasher.st = "open" /\ UNCHANGED device
    /\ \/ /\ flasher.part < Len(l4t_files)
          /\ FlashL4t([flasher EXCEPT !.st = "copy", !.part = flasher.part + 1, !.read = 0])
       \/ FlashFails

\* f_read_fast: past the end of the file the buffer keeps what it had.
Block(n, k) == IF k < l4t_files[n] THEN <<"l4t", n, k>> ELSE <<"l4t", 0, 0>>

\* MIN(total_size_sct, 8192).
num == Min({flasher.image, L4tChunk})

Chunks(f) == [i \in 1 .. num |-> Block(f.part, f.read + i - 1)]

\* fileSize has 64 bits and bytesWritten, which counts along with what is read, has
\* 32: a file of 4 GiB or more is never used up, and is read on past its end.
AfterWrite(f) ==
    LET read == f.read + num
        bytesWritten == read % FlashWrap
        left == f.image - num
    IN  [f EXCEPT !.read = read, !.lba = f.lba + num, !.image = left,
                  !.st = IF left = 0 THEN "done"
                         ELSE IF bytesWritten >= l4t_files[f.part] THEN "open" ELSE "copy"]

\* What a write that failed leaves: anything.
Spoilt == [i \in 1 .. num |-> <<"l4t", 0, 0>>]

WriteChunk ==
    LET lba == FlashTarget("l4t").start + flasher.lba
    IN  \/ Write(lba, Chunks(flasher)) /\ FlashL4t(AfterWrite(flasher))
        \/ Write(lba, Spoilt) /\ FlashL4t([flasher EXCEPT !.st = "failed"])

\* One chunk; the read or the write may fail.
FlashChunk ==
    /\ flasher.st = "copy"
    /\ WriteChunk \/ FlashFails

\* Before the write is tried again; retryCount is set to 0 for every chunk and
\* never counted up.
RetryWait ==
    /\ flasher.st = "failed"
    /\ IF flasher.retryCount >= 3
         THEN FlashFails
         ELSE FlashL4t([flasher EXCEPT !.st = "retry"]) /\ UNCHANGED device

WriteRetried == flasher.st = "retry" /\ WriteChunk

\* _action_delete_linux_installer_files, or OK.
FlashClosed ==
    /\ flasher.st \in {"done", "error"}
    /\ flasher' = NoFlash
    /\ l4t_files' \in IF flasher.st = "done" THEN {l4t_files, <<>>} ELSE {l4t_files}
    /\ UNCHANGED <<and_files, targets, device>>

----------------------------------------------------------------------------
(* Android.                                                                *)

AndroidFits_Any(size, t) == TRUE
AndroidFits(size, t) == size <= t.size

\* An image is passed over when its file or its partition is missing, or when
\* it is too big.
Flashable(name) ==
    LET t == FlashTarget(name)
    IN  and_files[name] > 0 /\ t.start # 0 /\ AndroidFits(and_files[name], t)

Covers(name, b) ==
    LET t == FlashTarget(name) IN b \in t.start .. t.start + and_files[name] - 1

\* Kernel, recovery and device tree.  The results of the writes (ok: those that
\* succeed) are not looked at, and the files are deleted.
_action_flash_android_data(ok) ==
    /\ flasher.st = "idle"
    /\ device' = [b \in DOMAIN device |->
                    IF \E n \in AndroidNames : Flashable(n) /\ Covers(n, b)
                      THEN LET n == CHOOSE n \in AndroidNames : Flashable(n) /\ Covers(n, b)
                           IN  IF n \in ok THEN <<n, 1, b - FlashTarget(n).start>> ELSE <<n, 0, 0>>
                      ELSE device[b]]
    /\ and_files' = [n \in AndroidNames |-> IF Flashable(n) THEN 0 ELSE and_files[n]]
    /\ UNCHANGED <<l4t_files, targets, flasher>>

FlashStep == OpenL4tPart \/ FlashChunk \/ RetryWait \/ WriteRetried

FlashNext ==
    \/ _action_check_flash_linux
    \/ FlashStep
    \/ FlashClosed
    \/ \E ok \in SUBSET AndroidNames : _action_flash_android_data(ok)

FlashSpec == FlashInit /\ [][FlashNext]_flashVars
FlashFairSpec == FlashSpec /\ WF_flashVars(FlashStep)

----------------------------------------------------------------------------
(* Properties.                                                             *)

\* No file before this one is too long for bytesWritten.
Reached(n) == \A m \in 1 .. n - 1 : l4t_files[m] < FlashWrap

\* Flashing that ends with the offer to delete the files has put them into the
\* partition one after the other, whatever failed and was retried on the way: all
\* of them up to the first that has 4 GiB or more.  What follows such a file is
\* never opened, and the buffer's old contents are flashed for it.
FlashedIsImage ==
    flasher.st = "done" =>
        /\ ImageSize(l4t_files) <= FlashTarget("l4t").size
        /\ \A n \in 1 .. Len(l4t_files) : Reached(n) => \A k \in 0 .. l4t_files[n] - 1 :
             device[FlashTarget("l4t").start + L4tBefore(l4t_files)[n - 1] + k] = <<"l4t", n, k>>

In(t, b) == b \in t.start .. t.start + t.size - 1

\* Nothing is written outside the partition it is meant for: Linux goes to l4t
\* and an image of Android to the partition of its name.
FlashStaysInside ==
    \A b \in DOMAIN device :
        device[b] # Old => In(FlashTarget(device[b][1]), b)

\* Flashing writes the image, all of it that it reaches, and nowhere else.
FlashSound == FlashedIsImage /\ FlashStaysInside

\* "If failed, retry 3 more times." (line 894): flashing comes to an end.
FlashEnds == flasher.st = "open" ~> flasher.st \in {"done", "error"}

=============================================================================
