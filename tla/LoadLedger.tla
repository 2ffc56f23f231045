------------------------------ MODULE LoadLedger ------------------------------
(****************************************************************************)
(* What the platform promises about one load on a device: it is launched at *)
(* most once, and it is reported as settled only when nothing of it is left.*)
(* A report may be withdrawn; a load never comes back.                      *)
(****************************************************************************)
VARIABLES
  phase,   \* "new", "live", "over": does anything of the load exist?
  settled  \* is the load reported as ended?

Init == phase = "new" /\ settled = FALSE

Launch   == phase = "new" /\ phase' = "live" /\ UNCHANGED settled
End      == phase = "live" /\ phase' = "over" /\ UNCHANGED settled
Settle   == phase = "over" /\ settled' = TRUE /\ UNCHANGED phase
Withdraw == settled' = FALSE /\ UNCHANGED phase

Next == Launch \/ End \/ Settle \/ Withdraw

Spec == Init /\ [][Next]_<<phase, settled>>

\* A settled load is over: what release_scene and finish rely on when they look
\* at the row of the load only (catalog.py, core.py).
SettledIsOver == settled => phase = "over"
=============================================================================
