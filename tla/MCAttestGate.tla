----------------------------- MODULE MCAttestGate -----------------------------
(***************************************************************************)
(* AttestGate on an unbuffered transport, with one session or two, frames  *)
(* whose size is refused in any one round, and endpoints that fail the     *)
(* identity check or none; a quote of another session fails its check too. *)
(***************************************************************************)
EXTENDS AttestGate

MCBadSizes == {{}, {Attachment}, {Agent}, {Quote}}
MCDefects == {{}, {"identity"}}

==============================================================================
