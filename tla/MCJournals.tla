----------------------------- MODULE MCJournals -----------------------------
(* Small instances of Journals for TLC.                                    *)
EXTENDS Journals

=============================================================================
