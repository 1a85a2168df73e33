------------------------------ MODULE Loopback ------------------------------
(***************************************************************************)
(* What the device promises the host: the bytes it sends to the speaker    *)
(* come back from the microphone, in order and each once.  Only when the   *)
(* device holds Capacity of them does it lose bytes, and then the newest.  *)
(*                                                                         *)
(* A byte is its position in the stream, so the bytes inside the device    *)
(* are a set, whichever buffers they are in.                               *)
(***************************************************************************)
EXTENDS Integers, FiniteSets

CONSTANT Capacity   \* bytes out_rb_data holds

VARIABLES
    sent,           \* bytes the host has sent
    path,           \* those of them that are inside the device
    heard           \* last of those the host has got back

loopVars == <<sent, path, heard>>

LoopInit == sent = 0 /\ path = {} /\ heard = 0

\* The host sends bytes.
Send ==
    /\ sent' > sent
    /\ path' = path \cup (sent + 1 .. sent')
    /\ UNCHANGED heard

\* The device loses the newest bytes and still holds all it has room for.
Lose ==
    /\ \E k \in path : path' = {p \in path : p <= k}
    /\ Cardinality(path') >= Capacity
    /\ UNCHANGED <<sent, heard>>

\* The host gets the oldest bytes.
Deliver ==
    /\ heard' \in path
    /\ path' = {p \in path : p > heard'}
    /\ UNCHANGED sent

LoopNext == Send \/ Lose \/ Deliver

LoopSpec == LoopInit /\ [][LoopNext]_loopVars
=============================================================================
