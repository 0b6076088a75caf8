----------------------------- MODULE MCPipeline -----------------------------
(* Batches, processes and faults for the run of Pipeline. *)
EXTENDS Pipeline, TLC

CONSTANTS batch, test,      \* a batch of images, a connection test
          worker, server

MCBatches  == {batch, test}
MCAttempts == batch :> 2 @@ test :> 1
MCRequests == {<<batch, 1>>, <<batch, 2>>, <<test, 1>>}
MCEmpty    == {test}
MCFaults   == FaultKinds

(* The requests of two batches are not open at once: but for the lock-free *)
(* reading of their bodies they share the index and the queue alone.       *)
OneBatchOpen ==
    Cardinality({BatchOf(r) : r \in {q \in Requests : phase[q] \in Open}}) <= 1
=============================================================================
