--------------------------- MODULE MCReliableStream ---------------------------
(* A small instance of ReliableStream: residues wrap after a few packets. *)
EXTENDS ReliableStream
===============================================================================
