----------------------------- MODULE WbXbarLive -----------------------------
(* Progress through the crossbar.  The clock never stops, also when a step
   leaves every register as it is: clk makes such steps visible.            *)
EXTENDS WbXbar

VARIABLE clk

lvars == <<vars, clk>>

LiveInit == Init /\ clk = 0
LiveTick == Next /\ clk' = 1 - clk

(* The clock runs; masters and slaves do as they like.                      *)
ClockSpec == LiveInit /\ [][LiveTick]_lvars /\ WF_lvars(LiveTick)

(* Every request is answered, by an acknowledgement or by a bus error, unless
   its master gives up.                                                     *)
Answered(n) == out[n] # <<>> ~> o_mack[n] = 1 \/ o_merr[n] = 1 \/ i_mcyc[n] = 0

(* With the timeouts of wbxbar.v set, every master gets an answer even when
   slaves never answer and other masters never let go.                      *)
TimeoutAnswers == \A n \in Masters : Answered(n)
=============================================================================
