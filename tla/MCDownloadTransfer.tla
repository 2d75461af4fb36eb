------------------------ MODULE MCDownloadTransfer -------------------------
(* Instances of DownloadTransfer for TLC: a checkpoint of two units with a     *)
(* mirror and an announced length, a configuration with a length and no       *)
(* mirror, and a third file with a mirror and no length.                      *)
EXTENDS DownloadTransfer, TLC

ThreeSizes == <<2, 1, 2>>
Outer      == {1, 3}
Upper      == {1, 2}
=============================================================================
