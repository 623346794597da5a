------------------------------ MODULE Channel ------------------------------
(***************************************************************************)
(* The channel to slack_updater as the sync loop and the requests see it:  *)
(* it has room or not, and room is made as long as it is not empty.        *)
(***************************************************************************)
EXTENDS Naturals

CONSTANT ChanCap   \* capacity, 10 in main.rs

ASSUME ChanAssumption == ChanCap \in Nat \ {0}

VARIABLE chan      \* messages waiting in the change log channel

ChannelInit == chan = 0

(* Mutated: does not wait.                                                 *)
SendNow == chan' = chan + 1

(* tx.send waits for room in the channel.                                  *)
Send == chan < ChanCap /\ chan' = chan + 1

(* slack_updater's receive                                                 *)
Taken == chan > 0 /\ chan' = chan - 1

(* The process ends.                                                       *)
Emptied == chan' = 0

ChannelNext == Send \/ Taken \/ Emptied

ChannelSpec == ChannelInit /\ [][ChannelNext]_chan /\ WF_chan(Taken)
=============================================================================
