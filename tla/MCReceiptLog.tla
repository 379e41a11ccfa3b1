----------------------------- MODULE MCReceiptLog -----------------------------
(***************************************************************************)
(* Four decisions: enough for a chain with a line before, at and after the *)
(* one at which something goes wrong, twice.                               *)
(***************************************************************************)
EXTENDS ReceiptLog

FourReceipts == 1..4
OneEdit == {9}

==============================================================================
