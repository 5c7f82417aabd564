---------------------------- MODULE MCThreadPool ----------------------------
(***************************************************************************)
(* ThreadPoolExit with queues of two tasks.  Three tasks and batches of    *)
(* two overfill a queue, so that producers divert and are cut short; two   *)
(* workers steal from each other; two of the tasks can be queued when      *)
(* exit() is called and the third be pushed while it runs.                 *)
(***************************************************************************)
EXTENDS ThreadPoolExit
=============================================================================
