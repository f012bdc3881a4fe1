----------------------------- MODULE Initializer -----------------------------
(***************************************************************************)
(* What load/load.go may expect of SubLoadGenerator.Initialize: it sends   *)
(* requests to Consul only until it returns, it reports an error only when *)
(* its context is done, and it does return once that is so.  When Consul   *)
(* carries a request out is not its affair.                                *)
(***************************************************************************)
VARIABLES
  ctxDone,  \* the context Initialize was given is done
  sent,     \* the requests it has sent to Consul
  status    \* "running", or what Initialize returned

vars == <<ctxDone, sent, status>>

Init == ctxDone = FALSE /\ sent = {} /\ status = "running"

ContextDone == ~ctxDone /\ ctxDone' = TRUE /\ UNCHANGED <<sent, status>>

Send ==
  /\ status = "running"
  /\ sent \subseteq sent'
  /\ UNCHANGED <<ctxDone, status>>

ReturnNil ==
  /\ status = "running"
  /\ status' = "nil"
  /\ UNCHANGED <<ctxDone, sent>>

ReturnError ==
  /\ status = "running"
  /\ ctxDone
  /\ status' = "error"
  /\ UNCHANGED <<ctxDone, sent>>

Next == ContextDone \/ Send \/ ReturnNil \/ ReturnError

SafeSpec == Init /\ [][Next]_vars

\* As long as its context is live it may take its time.
Returns == WF_vars(ctxDone /\ (ReturnNil \/ ReturnError))
Spec == SafeSpec /\ Returns
=============================================================================
