------------------------- MODULE MCIngestPipeline -------------------------
(* Model-checking instance of IngestPipeline: four containers read in     *)
(* batches of two, so that batches overlap, one is partial and the last  *)
(* container is read alone; one process crash.                           *)
EXTENDS IngestPipeline

MCMaxLedger == 4
MCMaxTxRead == 2
MCMaxCrashes == 1
MCMaxFailures == 2
=============================================================================
