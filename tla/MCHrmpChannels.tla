--------------------------- MODULE MCHrmpChannels ---------------------------
(* Instances of HrmpChannels for TLC.                                      *)
EXTENDS HrmpChannels

CONSTANT Limit   \* the same for every para, in both directions

MCLimits == [p \in Paras |-> Limit]

\* The deposits before and after a change of configuration.
MCConfigs == {[sender |-> 1, recipient |-> 1], [sender |-> 1, recipient |-> 2]}

\* One para with two ways out, one with two ways in.
MCChannels == {<<1, 2>>, <<1, 3>>, <<3, 2>>}
=============================================================================
