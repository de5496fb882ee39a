---------------------------- MODULE WbuExecLive ----------------------------
(* Progress of the debug bus's engine.  The clock never stops, also when a step
   leaves every register as it is: clk makes such steps visible.  Nothing is
   assumed of the bus or the host, which may both fall silent.               *)
EXTENDS WbuExec

VARIABLE clk

lvars == <<vars, clk>>

LiveInit  == Init /\ clk = 0
LiveTick  == Next /\ clk' = 1 - clk
ClockSpec == LiveInit /\ [][LiveTick]_lvars /\ WF_lvars(LiveTick)

(* The bus is never held for ever: every cycle ends or is answered again, if
   need be by the watchdog, whose reset closes it.                           *)
BusReleased == o_wb_cyc = 1 ~> \/ o_wb_cyc = 0
                               \/ o_stb = 1 /\ o_codword \in {"ack", "read"}

(* The engine takes every command word the FIFO offers it, unless a reset
   throws the word away: it is never busy for ever.                          *)
CommandsTaken == o_empty_n = 1 ~> (o_empty_n = 0 \/ fifo_rd)
=============================================================================
