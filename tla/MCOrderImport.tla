--------------------------- MODULE MCOrderImport ---------------------------
(* A small instance of OrderImport: three orders on pages of two.          *)
EXTENDS OrderImport

Queue == {"poll", "manual"}
=============================================================================
