----------------------------- MODULE MCAudioTimed -----------------------------
(***************************************************************************)
(* AudioTimed scaled down: two-byte frames and frequencies whose packets   *)
(* are one or two frames, at full speed (1 and 2 kHz) and at high speed (4 *)
(* and 8 kHz).  A ring buffer of 5 bytes is, as 2048 is of 6, no multiple  *)
(* of the frame.                                                           *)
(***************************************************************************)
EXTENDS AudioTimed

HighFS  == {2000}
LowFS   == {1000}
FreqsFS == {1000, 2000}
HighHS  == {8000}
LowHS   == {4000}
FreqsHS == {4000, 8000}
BothStreams == {1, 2}
AllInterfaces == {0, 1, 2}
=============================================================================
