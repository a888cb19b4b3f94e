------------------------ MODULE MCExtractionPipeline ------------------------
(* Batches of two out of three messages: a full batch with a remainder that *)
(* only the timer or an import cuts, and a second batch while the first is  *)
(* in flight.  Two attempts tell a retry from a retirement; one halt puts a *)
(* crash or a stop anywhere in the behaviour.                               *)
EXTENDS ExtractionPipeline
=============================================================================
