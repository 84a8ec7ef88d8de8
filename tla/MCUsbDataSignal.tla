--------------------------- MODULE MCUsbDataSignal ---------------------------
(* Small instances of UsbDataSignal for TLC. *)
EXTENDS UsbDataSignal

\* No function; without and with ffs; two ffs functions; not in the table.
SomeRequests == {{}, {"RNDIS"}, {"ADB", "MTP"}, {"MIDI", "RNDIS"}}
=============================================================================
