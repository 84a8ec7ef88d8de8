------------------------------ MODULE MCUsbGadget ------------------------------
(* Small instances of UsbGadget for TLC. *)
EXTENDS UsbGadget

LiveRequests == {{}, {"ADB", "MTP"}, {"RNDIS"}, {"MIDI", "RNDIS"}}
AdbRequests == {{"ADB"}, {"MIDI", "RNDIS"}}
=============================================================================
