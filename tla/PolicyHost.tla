----------------------------- MODULE PolicyHost -----------------------------
(***************************************************************************)
(* HostClient of nre-policy-guest (host.rs): how a policy guest calls its  *)
(* host.  A client has a budget of calls and a response buffer, of which   *)
(* it first offers only a part; a read whose answer does not fit is asked  *)
(* once more with the size the host named.  Imports that change something  *)
(* at the host are never asked twice.                                      *)
(*                                                                         *)
(* A client is a record [calls, maxCalls, initial, capacity].  What the    *)
(* host has for a call is a record [status, length]: a status "ok" comes   *)
(* with an answer of that length, and when the answer is longer than the   *)
(* buffer offered the host says "exhausted" and names the length.          *)
(***************************************************************************)
EXTENDS Integers

\* permits_response_growth_retry
Retries(import) ==
    import \in {"read_field", "read_normalized_http", "read_trusted_source",
                "dataset_query", "dataset_resolve", "read_body_window", "state_get"}

\* HostClient::new, and the budget it refuses
Client(maxCalls, initial, capacity) ==
    [calls |-> 0, maxCalls |-> maxCalls, initial |-> initial, capacity |-> capacity]
Usable(h) == h.maxCalls > 0 /\ h.initial > 0 /\ h.initial <= h.capacity

\* What one call returns, and how often the host carried it out
Returned(h, status, ran) == [h |-> h, status |-> status, ran |-> ran]

\* call_once with a buffer of the given size
CallOnce(h, answer, size) ==
    IF h.calls >= h.maxCalls THEN Returned(h, "call_budget", 0)
    ELSE LET after == [h EXCEPT !.calls = @ + 1]
         IN  IF answer.status = "ok" /\ answer.length > size
             THEN Returned(after, "grow", 0)
             ELSE Returned(after, answer.status, IF answer.status = "ok" THEN 1 ELSE 0)

\* host_status_error and the growth retry: invoke
Invoke(h, import, answer) ==
    LET first == CallOnce(h, answer, h.initial)
    IN  IF first.status # "grow" THEN first
        ELSE IF ~Retries(import) THEN [first EXCEPT !.status = "exhausted"]
        ELSE IF answer.length > h.capacity THEN [first EXCEPT !.status = "response_budget"]
        ELSE CallOnce(first.h, answer, answer.length)
=============================================================================
