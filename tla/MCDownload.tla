----------------------------- MODULE MCDownload -----------------------------
(* Download for TLC: an image of three pieces, and another file that may be *)
(* missing, of one.                                                         *)
EXTENDS Download

CONSTANTS image, file

MCLength == [f \in Files |-> IF f = image THEN 3 ELSE 1]
=============================================================================
