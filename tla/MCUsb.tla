-------------------------------- MODULE MCUsb --------------------------------
(* Small instances of Usb for TLC. *)
EXTENDS Usb, TLC

ModesAndData == {<<"MODE", "UFP">>, <<"MODE", "DFP">>, <<"DATA_ROLE", "HOST">>}
OneMode == {<<"MODE", "UFP">>}
NoRoles == {}

ThreadSymmetry == Permutations(Binders) \cup Permutations(Workers)
===============================================================================
