---------------------------- MODULE MCBroadcaster ----------------------------
(* Instances of Broadcaster for TLC.                                       *)
EXTENDS Broadcaster, TLC

(* Subscribers are interchangeable: a symmetry of the safety runs.         *)
SubscriberSymmetry == Permutations(Subscribers)
=============================================================================
