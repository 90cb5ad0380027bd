----------------------------- MODULE MCScanFaults -----------------------------
(* Values for TLC: ScanNotes under every mishap at once.                    *)
EXTENDS MCScanLifecycle, ScanNotes
=============================================================================
