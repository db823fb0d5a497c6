--------------------------- MODULE MCHrmpMessages ---------------------------
(* An instance of HrmpMessages for TLC.                                    *)
EXTENDS HrmpMessages

\* Two senders and one recipient.
MCChannels == {<<1, 3>>, <<2, 3>>}
=============================================================================
