---------------------------- MODULE MCIngestCommand ----------------------------
(* Instances of IngestCommand for TLC.                                     *)
EXTENDS IngestCommand

CONSTANTS r1, r2, r3

(* Two payloads of different length; r3 is one the handler cannot decode.  *)
MCSize == [r \in Requests |-> IF r = r2 THEN 2 ELSE 1]
================================================================================
