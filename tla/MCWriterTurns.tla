---------------------------- MODULE MCWriterTurns ---------------------------
(* The headers and offers of MCArchiveWriter, with every turn a step.      *)
EXTENDS MCArchiveWriter, WriterTurns
=============================================================================
