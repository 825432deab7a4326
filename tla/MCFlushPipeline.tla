-------------------------- MODULE MCFlushPipeline ---------------------------
(* Instances of FlushPipeline for TLC.                                     *)
EXTENDS FlushPipeline

CONSTANTS f1, f2, f3
=============================================================================
