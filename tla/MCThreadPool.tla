---------------------------- MODULE MCThreadPool ----------------------------
(* Model values for ThreadPool: one send-side request, whose tasks take    *)
(* any completion, and one receive-side request, whose tasks are matched.  *)
EXTENDS ThreadPool

CONSTANTS snd, rcv

BothSides == {snd, rcv}
SendSide == {snd}
RecvSide == {rcv}
NoSide == {}
=============================================================================
