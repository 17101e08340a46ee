---------------------------- MODULE MCNextOwner ----------------------------
(* Small instance of NextOwner: two subnets, the extreme last octets       *)
(* (whose distance is u8::MAX), neighbours, and a shared last octet.       *)
EXTENDS NextOwner

MCAddr == {0, 1, 7, 254, 255, 256 + 7, 256 + 200}

=============================================================================
