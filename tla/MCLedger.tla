------------------------------- MODULE MCLedger -------------------------------
(* Appends of up to three records by two processes; Ledger.cfg chooses     *)
(* whether the file system has flock, LedgerUnlocked.cfg takes it away.    *)
EXTENDS Ledger
=============================================================================
