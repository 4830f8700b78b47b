--------------------------- MODULE MCTransmitPool ---------------------------
(* Three threads over two clients and three channels: every overlap of one- *)
(* and two-channel stations.                                                *)
EXTENDS TransmitPool

MCRequests == {{1, 2}, {2, 3}, {3}}
=============================================================================
