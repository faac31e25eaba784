------------------------------ MODULE MCAuditTrail ------------------------------
(* Small instances of AuditTrail for TLC.                                   *)
EXTENDS AuditTrail, TLC

\* Nothing depends on an export, so the state in which one ends is checked and not left.  Faults
\* of the chain and exports do not meet: an export is followed where no fault has happened.
ExportsRun == \A x \in Exports : export[x] # Null => export[x].pc = "page" /\ faults = 0

Symmetry == Permutations(Writers)

=============================================================================
