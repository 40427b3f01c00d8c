--------------------------- MODULE RequestPromise ---------------------------
(***************************************************************************)
(* What os_transport promises the caller of one asynchronous request,      *)
(* without saying how: include/os_transport.h (the comment on              *)
(* wait_and_free_sync_timeout) and README 7.6.                             *)
(*                                                                         *)
(*   open     the tasks that may still execute                             *)
(*   good     the tasks whose function returned success                    *)
(*   outcome  what the call that ends the request will return              *)
(*   held     whether the sync, the task group and the chunks are still    *)
(*            allocated                                                    *)
(*                                                                         *)
(* The promise: OK is reported only when every task succeeded, and the     *)
(* resources stay allocated until the outcome is fixed and no task can     *)
(* execute any more.                                                       *)
(***************************************************************************)
CONSTANT Tasks

VARIABLES open, good, outcome, held

vars == <<open, good, outcome, held>>

Outcomes == {"OK", "ERROR", "TIMEOUT", "CANCELED"}

Init ==
    /\ open = Tasks
    /\ good = {}
    /\ outcome = "PENDING"
    /\ held = TRUE

(* A task ends: with success or without. *)
Finish(t) ==
    /\ t \in open
    /\ held
    /\ open' = open \ {t}
    /\ good' \in {good, good \cup {t}}
    /\ UNCHANGED <<outcome, held>>

(* The tasks that have not begun are dropped together; the ones that have  *)
(* begun (at most one, a request lives on one worker) stay open.           *)
Drop ==
    /\ open # {}
    /\ held
    /\ open' \in {{}} \cup {{t} : t \in open}
    /\ UNCHANGED <<good, outcome, held>>

Decide(o) ==
    /\ outcome = "PENDING"
    /\ held
    /\ o = "OK" => good = Tasks
    /\ outcome' = o
    /\ UNCHANGED <<open, good, held>>

Release ==
    /\ held
    /\ outcome # "PENDING"
    /\ open = {}
    /\ held' = FALSE
    /\ UNCHANGED <<open, good, outcome>>

Next ==
    \/ \E t \in Tasks : Finish(t)
    \/ Drop
    \/ \E o \in Outcomes : Decide(o)
    \/ Release

Spec == Init /\ [][Next]_vars
=============================================================================
