------------------------------- MODULE ZipBoot -------------------------------
(* crt0.c: from reset to main().  The bootloader copies the program out of the flash
   with the DMA, or without, and clears what must begin as zero.  A reset of the
   processor may come at any time and leaves the DMA and the memory as they are. *)
EXTENDS Integers
CONSTANTS BMem,     \* the words there are
          BLayouts, \* what the linker script says: see BLayout below
          BMaxResets \* bound: resets while it boots
VARIABLE zb

(* Words have addresses; the word of the flash at address a holds a.  kram = 0 and
   rom = 0 stand for memory that the linker script does not have.  kend is what
   ends the kernel part in its memory, iend and bend the image and the cleared part
   in the RAM.                                                               *)
BLayout == [rom : Nat, kram : Nat, kstart : Nat, kend : Nat, ram : Nat, istart : Nat, iend : Nat, bend : Nat]
Junk == -1
HasKernel(l) == l.kram # 0 /\ l.kstart # l.kend
InKernel(l, a) == HasKernel(l) /\ a \in l.kram .. l.kend - 1
InRam(l, a) == a \in l.ram .. l.bend - 1 \/ InKernel(l, a)

(* What crt0.c relies on and the linker scripts give: the parts of the program follow
   one another in the flash, and the memories they are copied to are neither there
   nor the same; without a memory for it there is no kernel part.            *)
LayoutOK(l) ==
    /\ l \in BLayout /\ l.ram <= l.iend /\ l.iend <= l.bend
    /\ l.kram = 0 => l.kend = l.kstart
    /\ HasKernel(l) => l.kram <= l.kend /\ (l.kend <= l.ram \/ l.bend <= l.kram)
    /\ l.rom # 0 =>
          /\ l.istart = IF HasKernel(l) THEN l.kstart + (l.kend - l.kram) ELSE l.kstart
          /\ \A a \in l.kstart .. l.istart + (l.iend - l.ram) - 1 : a \in BMem /\ ~InRam(l, a)
ASSUME BootAssumption == BMem \subseteq Nat /\ \A l \in BLayouts : LayoutOK(l)

-----------------------------------------------------------------------------
(* The DMA: while it is busy its registers cannot be written; it sets the interrupt
   after the last word.                                                      *)
Configured(b, rd, wr, len) == IF b.dma.busy THEN b
                              ELSE [b EXCEPT !.dma.rd = rd, !.dma.wr = wr, !.dma.len = len]
Copy(b, const) == IF b.dma.busy THEN [b EXCEPT !.pic = FALSE]
                  ELSE [b EXCEPT !.dma.busy = TRUE, !.dma.const = const, !.pic = FALSE]
DmaWord ==
    /\ zb.dma.busy /\ zb.dma.len > 0
    /\ zb' = [zb EXCEPT !.mem[zb.dma.wr] = IF zb.dma.const THEN 0 ELSE zb.mem[zb.dma.rd],
                        !.dma.rd = IF zb.dma.const THEN @ ELSE @ + 1,
                        !.dma.wr = @ + 1, !.dma.len = @ - 1,
                        !.dma.busy = zb.dma.len > 1, !.pic = @ \/ zb.dma.len = 1]

-----------------------------------------------------------------------------
(* _start, _bootloader() with USE_DMA.                                       *)
DmaClearBug(b) == b                     \* the DMA may still be at work
DmaClear(b) == [b EXCEPT !.dma.busy = FALSE]

StartBoot ==
    /\ zb.at = "start" /\ zb.use_dma
    /\ LET l == zb.l  b == DmaClear(zb)
       IN  zb' = IF l.rom = 0
                 THEN IF l.bend # l.iend
                      THEN [Copy(Configured(b, 0, l.iend, l.bend - l.iend), TRUE) EXCEPT !.at = "bss"]
                      ELSE [b EXCEPT !.at = "main"]
                 ELSE IF HasKernel(l)
                      THEN [Copy(Configured(b, l.kstart, l.kram, l.kend - l.kram), FALSE) EXCEPT !.at = "kram"]
                      ELSE IF l.kram # 0 THEN [Configured(b, l.kstart, l.kram, b.dma.len) EXCEPT !.at = "ram"]
                      ELSE [Configured(b, l.istart, l.ram, l.iend - l.ram) EXCEPT !.at = "ram"]
Waited(b) == b.pic
KramDone == /\ zb.at = "kram" /\ Waited(zb)
            /\ zb' = [zb EXCEPT !.at = "ram"]
(* The rest goes on in the flash where the kernel part has ended.            *)
Ram ==
    /\ zb.at = "ram"
    /\ LET l == zb.l
           b == IF l.kram # 0 THEN Configured(zb, zb.dma.rd, l.ram, l.iend - l.ram) ELSE zb
       IN  zb' = IF b.dma.len > 0 THEN [Copy(b, FALSE) EXCEPT !.at = "wram"] ELSE [b EXCEPT !.at = "tobss"]
RamDone == /\ zb.at = "wram" /\ Waited(zb)
           /\ zb' = [zb EXCEPT !.at = "tobss"]
(* And the cleared part where the image has ended.                           *)
Bss ==
    /\ zb.at = "tobss"
    /\ LET l == zb.l
       IN  zb' = IF l.bend # l.iend
                 THEN [Copy(Configured(zb, 0, zb.dma.wr, l.bend - l.iend), TRUE) EXCEPT !.at = "bss"]
                 ELSE [zb EXCEPT !.at = "main"]
BssDone == /\ zb.at = "bss" /\ Waited(zb)
           /\ zb' = [zb EXCEPT !.at = "main"]

(* Without the DMA, in one go: the kernel part, the image behind it, the zeros. *)
KernelLen(l) == IF l.kend # l.kstart THEN l.kend - l.kram ELSE 0
KernelMoved(l, mem) ==
    [a \in BMem |-> IF l.kram # 0 /\ a \in l.kram .. l.kram + KernelLen(l) - 1
                    THEN mem[l.kstart + a - l.kram] ELSE mem[a]]
ImageMoved(l, mem) ==
    [a \in BMem |-> IF a \in l.ram .. l.iend - 1
                    THEN mem[l.kstart + (IF l.kram # 0 THEN KernelLen(l) ELSE 0) + a - l.ram] ELSE mem[a]]
BssZero(l, mem) == [a \in BMem |-> IF a \in l.iend .. l.bend - 1 THEN 0 ELSE mem[a]]
Software ==
    /\ zb.at = "start" /\ ~zb.use_dma
    /\ zb' = [zb EXCEPT !.at = "main",
                        !.mem = BssZero(zb.l, IF zb.l.rom = 0 THEN @ ELSE ImageMoved(zb.l, KernelMoved(zb.l, @)))]

BReset == /\ zb.at \notin {"start", "off"} /\ zb.resets < BMaxResets
          /\ zb' = [zb EXCEPT !.at = "start", !.resets = @ + 1]
(* main() uses the memory as it likes.                                       *)
Main == /\ zb.at = "main"
        /\ zb' = [zb EXCEPT !.at = "ran", !.mem = [a \in BMem |-> IF zb.l.rom # 0 /\ InRam(zb.l, a) THEN Junk ELSE @[a]]]

(* Without a ROM the program has been loaded where it runs.                  *)
Image(l, a) == IF InKernel(l, a) THEN l.kstart + a - l.kram ELSE l.istart + a - l.ram
PowerUp ==
    /\ zb.at = "off"
    /\ \E l \in BLayouts, d \in BOOLEAN :
         zb' = [zb EXCEPT !.at = "start", !.l = l, !.use_dma = d,
                          !.mem = [a \in BMem |-> IF ~InRam(l, a) THEN a
                                                  ELSE IF l.rom = 0 /\ a \notin l.iend .. l.bend - 1 THEN Image(l, a) ELSE Junk]]
BootInit == zb = [at |-> "off", l |-> <<>>, use_dma |-> FALSE, mem |-> <<>>, resets |-> 0, pic |-> FALSE,
                  dma |-> [busy |-> FALSE, const |-> FALSE, rd |-> 0, wr |-> 0, len |-> 0]]
BootStep == StartBoot \/ KramDone \/ Ram \/ RamDone \/ Bss \/ BssDone \/ Software
BootNext == PowerUp \/ BootStep \/ DmaWord \/ BReset \/ Main
BootSpec == BootInit /\ [][BootNext]_zb

-----------------------------------------------------------------------------
(* main() is never entered before the whole program is where it runs and what must
   be zero is zero, also when a reset has come while the DMA was copying.    *)
BootedRight ==
    zb.at = "main" => \A a \in BMem : InRam(zb.l, a) =>
        zb.mem[a] = IF a \in zb.l.iend .. zb.l.bend - 1 THEN 0 ELSE Image(zb.l, a)

(* And it is entered: no wait for the interrupt of the DMA lasts for ever.   *)
BootEnds == (zb.at = "start") ~> (zb.at = "main")
=============================================================================
