----------------------------- MODULE MCSession -----------------------------
(* Instances of Session for TLC.                                           *)
EXTENDS Session

(* The escape character, a setting key, the quit key, and a plain byte     *)
MCKeys == [b \in Byte |-> CASE b = "s" -> "set" [] b = "q" -> "quit" [] b = "x" -> "exit"
                            [] b = "w" -> "hex" [] b = "b" -> "baud" [] b = "r" -> "file"
                            [] b = "c" -> "lecho" [] OTHER -> "other"]
MCSame == [b \in Byte |-> <<b>>]
MCDouble == [b \in Byte |-> IF b = "n" THEN <<"n", "w">> ELSE <<b>>]
MCIgnore == [b \in Byte |-> IF b = "w" THEN <<>> ELSE <<b>>]
MCNone == <<>>
MCInit == <<"n">>
MCOne == <<"s">>

(* Views that leave out what no later step reads: select()'s result and    *)
(* the prompt outside of their handlers, and the history a run has no      *)
(* property about.                                                         *)
MCLive == <<pc, state, exit_after, stdin_closed, sig_exit, noreset, lecho, nonblock, buf, size, rd,
            IF pc \in {"prompt", "hex"} THEN <<ask, line>> ELSE <<>>,
            IF pc \in {"check", "enter", "select", "ended"} THEN {} ELSE ready,
            ler, failed, envvars>>
MCQueueView == <<MCLive, due, sent>>
MCKeysView == <<MCLive, due, sent, raw, did>>
=============================================================================
