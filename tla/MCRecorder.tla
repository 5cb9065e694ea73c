----------------------------- MODULE MCRecorder -----------------------------
(* Recorder on three records, a queue of one slot and batches of two:      *)
(* enough for a full queue with two handlers waiting for the same signal,  *)
(* a batch that mixes stored and new records, and a queue that is not      *)
(* empty when the drain is aborted.                                        *)
EXTENDS Recorder

MCJobs == {"j1", "j2", "j3"}
=============================================================================
