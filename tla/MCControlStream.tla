--------------------------- MODULE MCControlStream ---------------------------
(* One flow of two queues, polled by the task of the group and by the page. *)
EXTENDS ControlStream
CONSTANTS f1, q1, q2, w1
OneFlow == <<f1>>
TwoQueues == <<q1, q2>>
=============================================================================
