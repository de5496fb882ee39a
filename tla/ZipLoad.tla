------------------------------- MODULE ZipLoad -------------------------------
(* How a program gets into the machine and is started: sw/host/zipelf.cpp (which
   reads the file), then either sw/host/zipload.cpp, over the debug bus to the
   board, or main_tb.cpp and automaster_tb.cpp, into the simulation.

   The record `zl` is the loader, `zm` the machine: its memory by octet, and of the
   CPU whether it is halted, its registers, and if its cache may hold what the
   memory held before.  A program is the list of its headers; the octet i of
   header h of it is <<h, i>>.                                               *)
EXTENDS Integers, Sequences, FiniteSets

CONSTANTS
    ZPROGRAMS,                      \* the files: each the sequence of its headers
    ZW,                             \* octets of a word: 4
    BKRAM, FLASH, SDRAM,            \* [base, len] of the memories
    RESET_ADDRESS,                  \* where the loader may begin in the flash
    ZREGS                           \* the registers, "sPC" among them: 32

ZMemories == {BKRAM, FLASH, SDRAM}
ZApart(r, t) == r.base + r.len <= t.base \/ t.base + t.len <= r.base

ASSUME ZipLoadAssumption ==
    /\ ZW \in Nat \ {0} /\ "sPC" \in ZREGS
    /\ \A r \in ZMemories : r.base \in Nat /\ r.len \in Nat
    /\ ZApart(BKRAM, FLASH) /\ ZApart(BKRAM, SDRAM) /\ ZApart(FLASH, SDRAM)
    /\ RESET_ADDRESS \in Nat /\ FLASH.base <= RESET_ADDRESS
    /\ \A p \in ZPROGRAMS :
          /\ p \in Seq([paddr : Nat, filesz : Nat, memsz : Nat]) /\ p # <<>>
          /\ \A h \in 1 .. Len(p) : p[h].filesz <= p[h].memsz /\ p[h].paddr % ZW = 0

VARIABLES zl, zm
zl_vars == <<zl, zm>>

Within(s, r) == s.start >= r.base /\ s.start + s.len <= r.base + r.len
Octets == UNION {r.base .. r.base + r.len - 1 : r \in ZMemories}
Blank == <<0, 0>>
Old == <<0, 1>>                         \* what the memory held before
ZPast == <<0, 2>>                       \* read from beyond the section

-----------------------------------------------------------------------------
(* elfread(): the pointers r and the structs that they point to.  A header that
   has nothing in the file leaves its pointer where the next one will point too;
   the end is marked at the pointer whose number is that of the structs made.   *)
NonEmpty(p, i) == Cardinality({h \in 1 .. i : p[h].filesz # 0})
ElfPointers(p) == [i \in 1 .. Len(p) + 1 |-> NonEmpty(p, i - 1) + 1]
ElfStructs(p) ==
    [k \in 1 .. NonEmpty(p, Len(p)) + 1 |->
        IF k > NonEmpty(p, Len(p)) THEN [h |-> 0, start |-> 0, len |-> 0]
        ELSE LET h == CHOOSE h \in 1 .. Len(p) : p[h].filesz # 0 /\ NonEmpty(p, h) = k
             IN  [h |-> h, start |-> p[h].paddr, len |-> p[h].filesz]]
ElfSections(p) ==
    LET r  == ElfPointers(p)
        k0 == r[NonEmpty(p, Len(p)) + 1]
        st == [ElfStructs(p) EXCEPT ![k0] = [@ EXCEPT !.start = 0, !.len = 0]]
    IN  [i \in 1 .. Len(r) |-> st[r[i]]]
(* for(i=0; secpp[i]->m_len; i++)                                            *)
Sections(p) ==
    LET s == ElfSections(p)
        n == CHOOSE n \in 1 .. Len(s) : s[n].len = 0 /\ \A m \in 1 .. n - 1 : s[m].len # 0
    IN  SubSeq(s, 1, n - 1)

(* A section as it goes to a memory of words: its length rounded up.          *)
RoundUp(n) == ((n + ZW - 1) \div ZW) * ZW
Octet(s, i) == IF i < s.len THEN <<s.h, i>> ELSE ZPast
Stored(mem, s, n) == [a \in Octets |-> IF a \in s.start .. s.start + n - 1
                                       THEN Octet(s, a - s.start) ELSE mem[a]]

-----------------------------------------------------------------------------
(* zipload.cpp.  A bus error in any access leaves by the catch.               *)
ZExit(s) == [zl EXCEPT !.at = "exit", !.status = s]
BusError == /\ zl.at \in {"version", "halt", "write", "recheck", "regs", "start"}
            /\ zl' = ZExit("failed")
            /\ UNCHANGED zm

Version == /\ zl.at = "version"
           /\ zl' = [zl EXCEPT !.at = "halt"]
           /\ UNCHANGED zm

HaltCPU == /\ zl.at = "halt"
           /\ zm' = [zm EXCEPT !.halted = TRUE, !.regs["sPC"] = RESET_ADDRESS]
           /\ zl' = [zl EXCEPT !.at = "elf", !.held = TRUE]

ValidSection(s) == \/ Within(s, BKRAM) \/ Within(s, SDRAM)
                   \/ s.start >= RESET_ADDRESS /\ s.start + s.len <= FLASH.base + FLASH.len
ReadElf ==
    /\ zl.at = "elf"
    /\ LET ss == Sections(zl.prog)
       IN  zl' = IF \A i \in 1 .. Len(ss) : ValidSection(ss[i])
                 THEN [zl EXCEPT !.at = "write", !.todo = ss,
                                 !.fbuf = [a \in Octets |-> Blank],
                                 !.startaddr = RESET_ADDRESS, !.codelen = 0]
                 ELSE ZExit("failed")
    /\ UNCHANGED zm

(* A section for RAM goes out now, in words (an error may come after some of
   them); one for the flash is put together with the others first.           *)
WriteSection ==
    /\ zl.at = "write" /\ zl.todo # <<>>
    /\ LET s == Head(zl.todo)
           first == IF s.start < zl.startaddr THEN s.start ELSE zl.startaddr
           length == IF s.start < zl.startaddr THEN zl.codelen + zl.startaddr - s.start ELSE zl.codelen
       IN  IF Within(s, SDRAM) \/ Within(s, BKRAM)
           THEN \E n \in 0 .. RoundUp(s.len) :
                    /\ n % ZW = 0
                    /\ zm' = [zm EXCEPT !.mem = Stored(@, s, n), !.cached = TRUE]
                    /\ zl' = IF n = RoundUp(s.len) THEN [zl EXCEPT !.todo = Tail(@)]
                             ELSE ZExit("failed")
           ELSE /\ zl' = [zl EXCEPT
                            !.todo = Tail(@), !.startaddr = first,
                            !.codelen = IF s.start + s.len > first + length
                                        THEN s.start + s.len - first ELSE length,
                            !.fbuf = Stored(@, s, s.len)]
                /\ UNCHANGED zm
CheckBus ==
    /\ zl.at \in {"write", "recheck"} /\ (zl.at = "write" => zl.todo = <<>>)
    /\ zl' = [zl EXCEPT !.at = IF zl.at = "write" THEN "flash" ELSE "regs"]
    /\ UNCHANGED zm

(* FLASHDRVR::write, verifying: all is written, or some of it and it fails.   *)
WriteFlash ==
    /\ zl.at = "flash"
    /\ \/ /\ zl.codelen = 0
          /\ zl' = [zl EXCEPT !.at = "recheck"] /\ UNCHANGED zm
       \/ \E n \in 0 .. zl.codelen :
            /\ zl.codelen > 0
            /\ zm' = [zm EXCEPT !.cached = TRUE,
                       !.mem = [a \in Octets |-> IF a \in zl.startaddr .. zl.startaddr + n - 1
                                                 THEN zl.fbuf[a] ELSE @[a]]]
            /\ zl' = IF n = zl.codelen THEN [zl EXCEPT !.at = "recheck"] ELSE ZExit("failed")

(* Registers, cache, PC; then it runs, if that was asked for.                *)
SetRegistersBug ==                      \* the cache is left as it was
    /\ zl.at = "regs"
    /\ zm' = [zm EXCEPT !.regs = [r \in ZREGS |-> IF r = "sPC" THEN zl.entry ELSE 0]]
    /\ zl' = [zl EXCEPT !.at = "start"]
SetRegisters ==
    /\ zl.at = "regs"
    /\ zm' = [zm EXCEPT !.regs = [r \in ZREGS |-> IF r = "sPC" THEN zl.entry ELSE 0],
                        !.cached = FALSE]
    /\ zl' = [zl EXCEPT !.at = "start"]
StartCPU ==
    /\ zl.at = "start"
    /\ zm' = [zm EXCEPT !.halted = ~zl.go]
    /\ zl' = ZExit("loaded")

-----------------------------------------------------------------------------
(* The simulation: MAINTB::load(), whose memories take the octets of the section
   where they say: the flash as they come; the SDRAM, whose load() counts words
   where its caller counts octets, ZW times further; and the block RAM likewise,
   from the word on that the section begins in.  A section over the end of a
   memory goes on at the next one, if there is one.                          *)
SimPlace(r, off, i) == r.base + i + (IF r = FLASH THEN off ELSE ZW * off)
Region(a) == {r \in ZMemories : a \in r.base .. r.base + r.len - 1}
SimStored(mem, s) ==
    [a \in Octets |->
        LET hit == {i \in 0 .. s.len - 1 :
                      \E r \in Region(s.start) :
                         /\ s.start + i < r.base + r.len
                         /\ a = SimPlace(r, s.start - r.base, i) /\ r \in Region(a)}
        IN  IF hit = {} THEN mem[a] ELSE <<s.h, CHOOSE i \in hit : TRUE>>]

SimLoadElf ==
    /\ zl.at = "sim"
    /\ LET ss == Sections(zl.prog)
       IN  IF zl.n > Len(ss) THEN zl' = [zl EXCEPT !.at = "simstart"] /\ UNCHANGED zm
           ELSE /\ zm' = [zm EXCEPT !.mem = SimStored(@, ss[zl.n])]
                /\ zl' = [zl EXCEPT !.n = @ + 1]
(* automaster_tb.cpp: hold the CPU, set its PC, let it go.                   *)
SimStart ==
    /\ zl.at = "simstart"
    /\ zm' = [zm EXCEPT !.halted = FALSE, !.regs["sPC"] = zl.entry]
    /\ zl' = ZExit("loaded")

-----------------------------------------------------------------------------
(* Someone loads a program; whoever does may be killed at any time.          *)
ZBegin ==
    /\ zl.at = "none"
    /\ \E p \in ZPROGRAMS, go \in BOOLEAN, sim \in BOOLEAN :
         /\ zl' = [at |-> IF sim THEN "sim" ELSE "version", status |-> "", prog |-> p, go |-> go,
                   held |-> sim, n |-> 1, todo |-> <<>>, fbuf |-> <<>>, entry |-> p[1].paddr,
                   startaddr |-> 0, codelen |-> 0]
         /\ zm' = IF sim THEN [zm EXCEPT !.halted = TRUE, !.cached = FALSE,
                                         !.regs = [r \in ZREGS |-> 0]]
                  ELSE zm
ZKill == /\ zl.at \notin {"none", "exit"}
         /\ zl' = ZExit("failed") /\ UNCHANGED zm
ZipLoadInit ==
    /\ zl = [at |-> "none"]
    /\ zm = [mem |-> [a \in Octets |-> Old], halted |-> FALSE, cached |-> TRUE,
             regs |-> [r \in ZREGS |-> 1]]
ZipLoadNext == \/ ZBegin \/ Version \/ HaltCPU \/ ReadElf \/ WriteSection \/ CheckBus
               \/ WriteFlash \/ SetRegisters \/ StartCPU \/ BusError
               \/ SimLoadElf \/ SimStart \/ ZKill
ZipLoadSpec == ZipLoadInit /\ [][ZipLoadNext]_zl_vars

-----------------------------------------------------------------------------
Wanted(p) == {h \in 1 .. Len(p) : p[h].filesz > 0}
Complete == \A h \in Wanted(zl.prog) : \A i \in 0 .. zl.prog[h].filesz - 1 :
                zm.mem[zl.prog[h].paddr + i] = <<h, i>>

(* A program that was loaded without complaint is all there: every octet that the
   file has for the memory is where its header wants it.                     *)
LoadedIsComplete == zl.at = "exit" /\ zl.status = "loaded" => Complete

(* Once the loader has halted the CPU, it runs again only with all of the program
   in memory, a clean cache and clean registers: neither a bus error nor a loader
   that is killed leaves it running half a program.                          *)
RunsOnlyComplete ==
    zl.at # "none" /\ zl.held /\ ~zm.halted =>
        /\ Complete /\ ~zm.cached
        /\ \A r \in ZREGS : zm.regs[r] = IF r = "sPC" THEN zl.entry ELSE 0

(* zipload never leaves a processor running a program that is not all there, and
   when it says so the program is all there, wherever it failed or was killed. *)
LoaderRight == LoadedIsComplete /\ RunsOnlyComplete
=============================================================================
