------------------------------ MODULE Generator ------------------------------
(***************************************************************************)
(* What a caller of Run may expect of a generator, be it one of those of   *)
(* load/load.go or their sum, LoadGenerator itself: it keeps going until   *)
(* its context is done, something it depends on fails or it has nothing    *)
(* left to do, it never turns a failure into success, and it does come to  *)
(* an end after any of them.                                               *)
(***************************************************************************)
VARIABLES
  ctxDone,  \* the context Run was given is done
  fault,    \* a request or a limiter failed the generator
  idle,     \* it has nothing left to do
  status    \* "running", or what Run returned

vars == <<ctxDone, fault, idle, status>>

Init == ctxDone = FALSE /\ fault = FALSE /\ idle \in BOOLEAN /\ status = "running"

ContextDone == ~ctxDone /\ ctxDone' = TRUE /\ UNCHANGED <<fault, idle, status>>

\* It works, and may come to grief or to the end of its work.
Work ==
  /\ status = "running"
  /\ fault' = TRUE \/ UNCHANGED fault
  /\ idle' = TRUE \/ UNCHANGED idle
  /\ UNCHANGED <<ctxDone, status>>

ReturnNil ==
  /\ status = "running"
  /\ ~fault
  /\ ctxDone \/ idle
  /\ status' = "nil"
  /\ UNCHANGED <<ctxDone, fault, idle>>

ReturnError ==
  /\ status = "running"
  /\ ctxDone \/ fault
  /\ status' = "error"
  /\ UNCHANGED <<ctxDone, fault, idle>>

\* Something fails it and it returns the error at once.
Fail ==
  /\ status = "running"
  /\ fault' = TRUE
  /\ status' = "error"
  /\ UNCHANGED <<ctxDone, idle>>

Next == ContextDone \/ Work \/ ReturnNil \/ ReturnError \/ Fail

SafeSpec == Init /\ [][Next]_vars

\* Once it may return, it does.
Returns == WF_vars(ReturnNil \/ ReturnError)
Spec == SafeSpec /\ Returns
=============================================================================
