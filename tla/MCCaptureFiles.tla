-------------------------- MODULE MCCaptureFiles --------------------------
(* Instances of CaptureFiles for TLC.                                      *)
EXTENDS CaptureFiles, TLC

CONSTANTS c1, c2

\* Together they exceed either cap; each alone leaves the large one enough room
\* for a scan to be skipped.
MCSize == (c1 :> 3) @@ (c2 :> 2)
MCCaps == {2, 4}
===========================================================================
