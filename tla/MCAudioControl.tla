--------------------------- MODULE MCAudioControl ----------------------------
(***************************************************************************)
(* AudioControl with the values of usb_descr.h, but for the microphone,    *)
(* which has one channel and a lower range so that it is told from the     *)
(* speaker.                                                                *)
(***************************************************************************)
EXTENDS AudioControl

TwoFreqs  == <<<<48000, 96000>>, <<32000, 48000>>>>
TwoRanges == <<[min |-> 48000, max |-> 192000, step |-> 48000],
               [min |-> 48000, max |-> 96000, step |-> 48000]>>
StereoMono  == <<2, 1>>
ThreeBytes  == <<3, 3>>
=============================================================================
