----------------------------- MODULE MCQqSession -----------------------------
(* Two faults: enough for a reconnect that is itself cut off, a session that  *)
(* is refused, and a refresh login that fails while run() logs in.            *)
EXTENDS QqSession
==============================================================================
