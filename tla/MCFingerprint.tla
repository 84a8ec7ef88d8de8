---------------------------- MODULE MCFingerprint ----------------------------
(* Small instances of Fingerprint for TLC. *)
EXTENDS Fingerprint

\* Success, a known error, an errno that is not translated, a positive result.
SomeResults == {0, -16, -1, 5}
\* The first and the last code of each table, those around them, and the vendor base.
SomeCodes == {-1, 0, 1, 5, 6, 7, 8, 999, 1000, 1001}
=============================================================================
