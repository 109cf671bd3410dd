------------------------------ MODULE MCDownload ------------------------------
(* Small instances of Download: the chunks the device holds. *)
EXTENDS Download

\* A chunk whose indices wrap around, one in between, one of a single package.
ThreeChunks == <<6, 3, 1>>
TwoChunks == <<3, 2>>

=============================================================================
