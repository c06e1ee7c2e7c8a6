---------------------------- MODULE MCAppLaunch ----------------------------
(* Outputs for AppLaunch: VB-CABLE, a second endpoint of the same name on  *)
(* another driver that has no stereo, and headphones, in several orders.   *)

EXTENDS AppLaunch

mono == [channels |-> 1, f32 |-> TRUE, at48k |-> TRUE]

cable == [endpoint |-> "cable", driver |-> "vb", formats |-> {mono, Stereo48k}]
twin == [endpoint |-> "cable", driver |-> "hifi", formats |-> {mono}]
phones == [endpoint |-> "phones", driver |-> "phones", formats |-> {Stereo48k}]

MCEnumerations == { <<phones, cable>>, <<twin, cable>>, <<cable, twin>>, <<>> }
MCCableNames == { <<"cable">>, <<"cable", "vb">> }

=============================================================================
