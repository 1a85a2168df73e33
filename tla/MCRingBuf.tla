----------------------------- MODULE MCRingBuf ------------------------------
(***************************************************************************)
(* RingBuf on a three-byte buffer with two byte values: transfers longer   *)
(* than the buffer, wrap-around at every index, full and empty buffers.    *)
(***************************************************************************)
EXTENDS RingBuf

MCByte == {0, 1}
=============================================================================
