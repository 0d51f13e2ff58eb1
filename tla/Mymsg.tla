-------------------------------- MODULE Mymsg --------------------------------
(* mymsg::which_t: the two sources a message can be from.                    *)

CONSTANTS REF, OSC

ASSUME WhichAssumption == REF # OSC

Which == {REF, OSC}
=============================================================================
