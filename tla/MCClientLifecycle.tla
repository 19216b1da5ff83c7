------------------------- MODULE MCClientLifecycle -------------------------
(* One application thread that manages the life of the client and its      *)
(* handlers, one that makes a request, and callbacks that send and ask too.  *)
EXTENDS ClientLifecycle
CONSTANTS t1, t2, i1, i2, k, direct, r
MCMay ==
  ({t1} \X {"init", "shutdown", "register", "unregister"})
  \cup ({t2} \X {"request"})
  \cup ({i1} \X {"send", "request"})
=============================================================================
