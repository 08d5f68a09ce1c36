----------------------------- MODULE LossyQueue -----------------------------
(***************************************************************************)
(* What the users of a command queue of NVRMsgProc.cxx can count on: the   *)
(* packets that leave it leave it in the order in which they were put, each*)
(* at most once, and a packet that was there when the queue was cleaned    *)
(* never leaves it.  The queue may lose packets: see CmdQueue for when it  *)
(* does.  Packets are numbered in the order of the calls of Put.           *)
(***************************************************************************)
EXTENDS Naturals

VARIABLES
    put,    \* packets put so far
    floor   \* packets up to this number do not leave the queue any more

Init == put = 0 /\ floor = 0

Put == put' = put + 1 /\ UNCHANGED floor

\* Packet k leaves the queue; those before it that were not taken are lost.
Take(k) ==
    /\ k \in (floor + 1)..put
    /\ floor' = k
    /\ UNCHANGED put

Clean == floor' = put /\ UNCHANGED put

Next == Put \/ (\E k \in (floor + 1)..put : Take(k)) \/ Clean

Spec == Init /\ [][Next]_<<put, floor>>
=============================================================================
