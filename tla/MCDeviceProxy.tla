---------------------------- MODULE MCDeviceProxy ----------------------------
(* A small instance of DeviceProxy for TLC: two hosts of one OpenStack and one of
   another, where host a could use either device, and c has the name of a. *)
EXTENDS DeviceProxy, TLC

CONSTANTS a, b, c, alpha, beta, north, south

MCEndpointOf == a :> north @@ b :> north @@ c :> south
MCSuggested == a :> alpha @@ b :> beta @@ c :> alpha
MCRank == a :> (alpha :> 1 @@ beta :> 3) @@ b :> (alpha :> 0 @@ beta :> 2)
          @@ c :> (alpha :> 2 @@ beta :> 0)
=============================================================================
