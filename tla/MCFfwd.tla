------------------------------- MODULE MCFfwd -------------------------------
(* An instance of Ffwd for TLC.                                            *)
EXTENDS Ffwd

(* Left out: the last buffer, once it is written, and, from cleanup() on,  *)
(* all but what decides how the process ends.                              *)
MCView ==
  CASE ~Running          -> <<main, sig_exit>>
    [] main = "cleanup"  -> <<main, sig_exit, epollOpen, srv, targets = <<>>>>
    [] OTHER             -> <<main, sig_exit, pending, said, conns, tables, active, targets,
                              IF targets = <<>> THEN <<>> ELSE <<buffer, rest>>, srv, listening, left>>
=============================================================================
