------------------------------- MODULE MCHost -------------------------------
(***************************************************************************)
(* The programs of sw/host, each with what is at the other end: the loader *)
(* with the processor and the memories, the proxy netuart with its clients *)
(* and the serial line, the debugger with the processor, the scope reader  *)
(* with its scope, the coding of the debug link, and the flash driver with *)
(* the simulated flash.  They share no state here, so a behaviour is of    *)
(* one of them, part, and the others stay as they begin.                   *)
(***************************************************************************)
EXTENDS ZipLoad, NetUart, ZipDbg, ScopeCls, TtyCodec, FlashDrvr

VARIABLE part
host_vars == <<part, zl_vars, nu_vars, zd_vars, scope_vars, tc, flash_vars>>

(* Programs, by their ELF segments: one in block RAM, one in flash and block RAM,
   one of neighbours out of order, and one with a segment that is not stored.  *)
Segment(a, n) == [paddr |-> a, filesz |-> n, memsz |-> n]
Programs == {<<Segment(0, 3)>>,
             <<Segment(12, 2), Segment(0, 1)>>,
             <<Segment(10, 1), Segment(16, 2), Segment(14, 2)>>,
             <<Segment(16, 4), Segment(10, 3), [Segment(2, 0) EXCEPT !.memsz = 2]>>}
BlockRam == [base |-> 0, len |-> 4]
Flash    == [base |-> 8, len |-> 8]
SdRam    == [base |-> 16, len |-> 6]

(* What the clients type, a NUL among it once, and what the board sends: from
   NTop on for the command channel.                                          *)
ClientTexts == {[c \in NChans |-> IF c = "cmd" THEN <<1, 2>> ELSE <<3>>],
                [c \in NChans |-> <<0>>]}
BoardText == <<5, 2>>

(* The registers on the debugger's screen that stand for all: the first, the last
   of the supervisor's and a peripheral.                                     *)
Registers == <<0, 15, 44>>

(* What the scopes watch, and two memories of a compressed one.              *)
Streams == {[i \in 1 .. 26 |-> i % 16], [i \in 1 .. 26 |-> ((i * i) \div 7) % 8]}
RunOf(n) == SHIGHBIT + n
Buffers == {<<1, RunOf(3), 2, 3, RunOf(0), 4, RunOf(2), 5>>,
            <<RunOf(2), 1, 2, RunOf(1), 3, 4, 5, RunOf(4)>>}
TraceSet == <<[nbits |-> 2, shift |-> 2], [nbits |-> 1, shift |-> 0]>>

HostInit ==
    /\ part \in {"load", "netuart", "dbg", "scope", "codec", "flash"}
    /\ ZipLoadInit /\ ZipDbgInit
    /\ NetUartInit /\ (part # "netuart" => nt.text["cmd"] = <<0>>)
    /\ ScopeInit /\ (part # "scope" => /\ sb.compressed /\ sb.holdoff = 0 /\ sb.waddr = 0
                                       /\ sb.stream[1] = 1)
    /\ CodecInit /\ (part # "codec" => tc = OnLine("up", <<BoardWord(0, 0), BoardWord(0, 0)>>, FALSE, Sixchars))
    /\ FlashInit /\ (part # "flash" => fl.id = "MICRON" /\ \A a \in Cells : fl.m_mem[a] = FF)

HostNext ==
    \/ part = "load"    /\ ZipLoadNext /\ UNCHANGED <<part, nu_vars, zd_vars, scope_vars, tc, flash_vars>>
    \/ part = "netuart" /\ NetUartNext /\ UNCHANGED <<part, zl_vars, zd_vars, scope_vars, tc, flash_vars>>
    \/ part = "dbg"     /\ ZipDbgNext  /\ UNCHANGED <<part, zl_vars, nu_vars, scope_vars, tc, flash_vars>>
    \/ part = "scope"   /\ ScopeNext   /\ UNCHANGED <<part, zl_vars, nu_vars, zd_vars, tc, flash_vars>>
    \/ part = "codec"   /\ CodecNext   /\ UNCHANGED <<part, zl_vars, nu_vars, zd_vars, scope_vars, flash_vars>>
    \/ part = "flash"   /\ FlashNext   /\ UNCHANGED <<part, zl_vars, nu_vars, zd_vars, scope_vars, tc>>

(* The proxy goes on, the board takes what comes, and a client that wants to call,
   to write or to read does so; the debugger goes on; the flash driver goes on,
   and a cycle of the flash ends.                                            *)
HostFairness ==
    /\ WF_nu_vars(part = "netuart" /\ ProxyStep) /\ WF_nu_vars(part = "netuart" /\ NBoardTakes)
    /\ \A c \in NChans : /\ WF_nu_vars(part = "netuart" /\ NCalls(c))
                         /\ WF_nu_vars(part = "netuart" /\ NWrites(c))
                         /\ WF_nu_vars(part = "netuart" /\ NReads(c))
    /\ WF_zd_vars(part = "dbg" /\ ToolStep)
    /\ WF_flash_vars(part = "flash" /\ TimerExpires)
    /\ WF_flash_vars(part = "flash" /\ DriverStep)

HostSpec == HostInit /\ [][HostNext]_host_vars /\ HostFairness

(* No tool is stuck: what the clients of netuart that stay have to say reaches the
   board, unless a NUL on the console has tripped the assertion of print_out();
   the debugger comes back to its user although the processor does not halt; and
   write() of the flash driver returns, although flwait() has no limit.      *)
ToolsComeBack == /\ part = "netuart" => EachClientHeard
                 /\ DebuggerComesBack
                 /\ WriteReturns
=============================================================================
