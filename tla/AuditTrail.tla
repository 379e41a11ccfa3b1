------------------------------ MODULE AuditTrail ------------------------------
(***************************************************************************)
(* What an auditor counts on: a trail of records, some of them torn, that  *)
(* only grows and holds no receipt twice.  A receipt whose recording was   *)
(* acknowledged can be read in it, unless the record before it was torn    *)
(* and took it along.  ReceiptLog is the file that implements this.        *)
(***************************************************************************)
EXTENDS Naturals, Sequences, Functions

CONSTANT Torn                   \* stands for a record that cannot be read

VARIABLES trail,                \* the records on stable storage, in order
          acknowledged          \* the receipts recorded for good

vars == <<trail, acknowledged>>

Init == trail = <<>> /\ acknowledged = {}

\* No receipt is in the trail twice.
EachOnce(records) ==
    \A i, j \in DOMAIN records : records[i] = records[j] /\ records[i] # Torn => i = j

\* Receipts that cannot be read stand behind a torn record, each behind its own.
Accounted(receipts, records) ==
    \E place \in Injection(receipts \ Range(records), 2..Len(records)) :
        \A p \in Range(place) :
            /\ records[p] = Torn /\ records[p - 1] = Torn
            /\ p - 1 \notin Range(place)

\* The trail is extended, and receipts are acknowledged.
Record ==
    /\ Len(trail) <= Len(trail')
    /\ trail = SubSeq(trail', 1, Len(trail))
    /\ EachOnce(trail')
    /\ acknowledged \subseteq acknowledged'
    /\ Accounted(acknowledged', trail')

Spec == Init /\ [][Record]_vars

==============================================================================
