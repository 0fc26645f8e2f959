-------------------------- MODULE MCRoverDelivery ---------------------------
(* Rovers of two tiers: "strict" has a bucket of two bytes, an epoch of one  *)
(* tick and room for two chunks of two bytes; "gated" has no bucket, an      *)
(* epoch of two ticks and room for one chunk.                                *)
EXTENDS RoverDelivery

CONSTANTS strict, gated

MCQueueMax == [r \in Rover |-> IF r = gated THEN 2 ELSE 4]
MCPeriod == [r \in Rover |-> IF r = gated THEN 2 ELSE 1]
MCRate == [r \in Rover |-> IF r = gated THEN 0 ELSE 1]
=============================================================================
