----------------------------- MODULE MCDispatch -----------------------------
(* Instances of Dispatch for TLC. *)
EXTENDS Dispatch

\* One job of two batches of one frame, and of one batch.
OneJob == <<2>>
OneFrame == <<1>>

\* Two jobs that share a batch of two frames, with two batches left after it.
SharedBatch == <<1, 5>>

=============================================================================
