----------------------------- MODULE MCAudioTask ------------------------------
(***************************************************************************)
(* AudioTask scaled down: two-byte frames and frequencies whose packets    *)
(* are one or two frames at full speed, 1 and 2 kHz.  A ring buffer of 5   *)
(* bytes is, as 2048 is of 6, no multiple of the frame.                    *)
(***************************************************************************)
EXTENDS AudioTask

HighFS  == {2000}
LowFS   == {1000}
FreqsFS == {1000, 2000}
BothStreams == {1, 2}
AllInterfaces == {0, 1, 2}
=============================================================================
