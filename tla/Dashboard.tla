------------------------------- MODULE Dashboard -------------------------------
(* A page of the web dashboard in one browser tab: it polls the API             *)
(* (lib/usePolling.ts, ADR-011) while the system behind the API changes, polls  *)
(* overlap and are answered out of order, requests fail and the tab is hidden.  *)
(* The chaos page also edits and applies the bank's configuration, and the      *)
(* webhooks page registers endpoints. Leaving a page discards its state and     *)
(* cancels its polling, so a behaviour is one visit to one page.                *)
(*                                                                             *)
(* What the API returns for a resource is a version of it; a configuration is   *)
(* its own version.                                                             *)
EXTENDS Integers, FiniteSets

CONSTANTS
  Slots,      \* requests of refresh() in flight at a time
  MaxWrites,  \* changes behind the API
  MaxFaults,  \* requests that fail
  MaxHides,   \* times the tab is hidden
  None, Failed

Versions == 0 .. MaxWrites

\* What each page's refresh() fetches, two resources in parallel on two of them.
Reads ==
  [payments |-> {"payments"}, payment |-> {"payment", "events"},
   webhooks |-> {"deliveries", "endpoints"}, chaos |-> {"config"}]

Resources == UNION {Reads[p] : p \in DOMAIN Reads}

VARIABLES
  data,       \* behind the API: the version of each resource
  page,       \* the page that is open
  visible,    \* document.visibilityState
  reqs,       \* refresh() calls in flight: what was read so far, or Failed
  shown,      \* the page's state: the version of each resource, or None
  error, loading,
  mode,       \* chaos: the settings in the form
  typed,      \* chaos: what the operator last put there once it was seeded (history)
  initialized,
  put,        \* chaos: the PUT in flight, and what came of it
  reg,        \* webhooks: the registration in flight, and what came of it
  secret, formError,
  writes, faults, hides

chaos == <<mode, typed, initialized, put>>
hooks == <<reg, secret, formError>>
vars == <<data, page, visible, reqs, shown, error, loading, chaos, hooks, writes, faults, hides>>

Asked == [r \in Reads[page] |-> None]

Init ==
  /\ data = [r \in Resources |-> 0]
  /\ page \in DOMAIN Reads
  /\ visible = TRUE
  /\ reqs = [s \in Slots |-> None]
  /\ shown = [r \in Reads[page] |-> None]
  /\ error = FALSE
  /\ loading = TRUE
  /\ mode = 0 /\ typed = None /\ initialized = FALSE /\ put = None
  /\ reg = None /\ secret = FALSE /\ formError = FALSE
  /\ writes = 0 /\ faults = 0 /\ hides = 0

--------------------------------------------------------------------------------
(* Behind the API, and the tab.                                                 *)

\* Workers, reapers, dispatchers, other operators: a transition changes the row, its
\* trail and the list at once.
ServerWrites ==
  /\ writes < MaxWrites
  /\ writes' = writes + 1
  /\ \E S \in {{"payments", "payment", "events"}, {"deliveries"}, {"endpoints"}, {"config"}} :
       /\ S \cap Reads[page] # {}
       /\ data' = [r \in Resources |-> IF r \in S THEN writes + 1 ELSE data[r]]
  /\ UNCHANGED <<page, visible, reqs, shown, error, loading, chaos, hooks, faults, hides>>

Hide ==
  /\ visible /\ hides < MaxHides
  /\ visible' = FALSE
  /\ hides' = hides + 1
  /\ UNCHANGED <<data, page, reqs, shown, error, loading, chaos, hooks, writes, faults>>

--------------------------------------------------------------------------------
(* Polling.                                                                     *)

Free == {s \in Slots : reqs[s] = None}

\* refresh() is called: on mounting, by the timer, and by the Refresh button. The
\* calls do not wait for each other.
Poll ==
  /\ visible
  /\ \E s \in Free : reqs' = [reqs EXCEPT ![s] = Asked]
  /\ UNCHANGED <<data, page, visible, shown, error, loading, chaos, hooks, writes, faults, hides>>

\* onSubmitted: the payment drawer refreshes the list, also in a hidden tab.
Submitted ==
  /\ page = "payments"
  /\ \E s \in Free : reqs' = [reqs EXCEPT ![s] = Asked]
  /\ UNCHANGED <<data, page, visible, shown, error, loading, chaos, hooks, writes, faults, hides>>

\* visibilitychange: the tab is back and refreshes at once.
Show ==
  /\ ~visible
  /\ visible' = TRUE
  /\ \E s \in Free : reqs' = [reqs EXCEPT ![s] = Asked]
  /\ UNCHANGED <<data, page, shown, error, loading, chaos, hooks, writes, faults, hides>>

InFlight(s) == reqs[s] \notin {None, Failed}

\* The API answers one GET with what is there now.
Serve(s) ==
  /\ InFlight(s)
  /\ \E r \in Reads[page] :
       /\ reqs[s][r] = None
       /\ reqs' = [reqs EXCEPT ![s][r] = data[r]]
  /\ UNCHANGED <<data, page, visible, shown, error, loading, chaos, hooks, writes, faults, hides>>

\* get() throws: no connection, or an answer that is not ok.
Fail(s) ==
  /\ InFlight(s) /\ faults < MaxFaults
  /\ faults' = faults + 1
  /\ reqs' = [reqs EXCEPT ![s] = Failed]
  /\ UNCHANGED <<data, page, visible, shown, error, loading, chaos, hooks, writes, hides>>

Answered(s) == InFlight(s) /\ \A r \in Reads[page] : reqs[s][r] # None

KeepsError == UNCHANGED error

\* setError(null)
NoError == error' = FALSE

\* What the refresh() of every page does with its answers.
Take(s) ==
  /\ Answered(s)
  /\ shown' = reqs[s]
  /\ NoError
  /\ reqs' = [reqs EXCEPT ![s] = None]

ShowPayments(s) ==
  /\ page = "payments" /\ Take(s)
  /\ loading' = FALSE
  /\ UNCHANGED <<data, page, visible, chaos, hooks, writes, faults, hides>>

ShowPayment(s) ==
  /\ page = "payment" /\ Take(s)
  /\ loading' = FALSE
  /\ UNCHANGED <<data, page, visible, chaos, hooks, writes, faults, hides>>

ShowWebhooks(s) ==
  /\ page = "webhooks" /\ Take(s)
  /\ UNCHANGED <<data, page, visible, loading, chaos, hooks, writes, faults, hides>>

Reseeded(c) == c

\* The first answer seeds the form.
Seeded(c) == IF initialized THEN mode ELSE c

ShowConfig(s) ==
  /\ page = "chaos" /\ Take(s)
  /\ mode' = Seeded(reqs[s]["config"])
  /\ initialized' = TRUE
  /\ UNCHANGED <<data, page, visible, loading, typed, put, hooks, writes, faults, hides>>

\* refresh() catches an error.
Catch(s) ==
  /\ reqs[s] = Failed
  /\ error' = TRUE
  /\ loading' = IF page \in {"payments", "payment"} THEN FALSE ELSE loading
  /\ reqs' = [reqs EXCEPT ![s] = None]
  /\ UNCHANGED <<data, page, visible, shown, chaos, hooks, writes, faults, hides>>

--------------------------------------------------------------------------------
(* The chaos page's form.                                                       *)

dirty == shown["config"] # None /\ shown["config"] # mode

EditMode(v) ==
  /\ page = "chaos" /\ v # mode
  /\ mode' = v
  /\ typed' = IF initialized THEN v ELSE typed
  /\ UNCHANGED <<data, page, visible, reqs, shown, error, loading, initialized, put, hooks,
                 writes, faults, hides>>

\* The button is disabled while a PUT is in flight, or if nothing was changed.
CanApply == page = "chaos" /\ put = None /\ dirty

Apply ==
  /\ CanApply
  /\ error' = FALSE
  /\ put' = [value |-> mode, at |-> "sent"]
  /\ UNCHANGED <<data, page, visible, reqs, shown, loading, mode, typed, initialized, hooks,
                 writes, faults, hides>>

ApplyHandled ==
  /\ put # None /\ put.at = "sent" /\ writes < MaxWrites
  /\ writes' = writes + 1
  /\ data' = [data EXCEPT !["config"] = put.value]
  /\ put' = [put EXCEPT !.at = "stored"]
  /\ UNCHANGED <<page, visible, reqs, shown, error, loading, mode, typed, initialized, hooks,
                 faults, hides>>

\* The page takes the row the PUT returned, or shows why it failed: the request or
\* the answer was lost, or the API refused it.
Applied ==
  /\ put # None /\ put.at = "stored"
  /\ shown' = [shown EXCEPT !["config"] = put.value]
  /\ put' = None
  /\ UNCHANGED <<data, page, visible, reqs, error, loading, mode, typed, initialized, hooks,
                 writes, faults, hides>>

ApplyFails ==
  /\ put # None /\ faults < MaxFaults
  /\ faults' = faults + 1
  /\ error' = TRUE
  /\ put' = None
  /\ UNCHANGED <<data, page, visible, reqs, shown, loading, mode, typed, initialized, hooks,
                 writes, hides>>

--------------------------------------------------------------------------------
(* The webhooks page's form.                                                    *)

CanRegister == page = "webhooks" /\ reg = None

register ==
  /\ CanRegister
  /\ reg' = "sent"
  /\ secret' = FALSE /\ formError' = FALSE
  /\ UNCHANGED <<data, page, visible, reqs, shown, error, loading, chaos, writes, faults, hides>>

\* create_endpoint inserts a row and returns it, the only answer with the secret.
RegisterHandled ==
  /\ reg = "sent" /\ writes < MaxWrites
  /\ writes' = writes + 1
  /\ data' = [data EXCEPT !["endpoints"] = writes + 1]
  /\ reg' = "stored"
  /\ UNCHANGED <<page, visible, reqs, shown, error, loading, chaos, secret, formError, faults, hides>>

\* The page shows the secret and calls refresh(), also in a hidden tab.
Registered ==
  /\ reg = "stored"
  /\ reg' = None
  /\ secret' = TRUE
  /\ \E s \in Free : reqs' = [reqs EXCEPT ![s] = Asked]
  /\ UNCHANGED <<data, page, visible, shown, error, loading, chaos, formError, writes, faults, hides>>

RegisterFails ==
  /\ reg # None /\ faults < MaxFaults
  /\ faults' = faults + 1
  /\ reg' = None
  /\ formError' = TRUE
  /\ UNCHANGED <<data, page, visible, reqs, shown, error, loading, chaos, secret, writes, hides>>

--------------------------------------------------------------------------------
Finish(s) ==
  ShowPayments(s) \/ ShowPayment(s) \/ ShowWebhooks(s) \/ ShowConfig(s) \/ Catch(s)

Next ==
  \/ ServerWrites \/ Hide \/ Show \/ Poll \/ Submitted
  \/ \E s \in Slots : Serve(s) \/ Fail(s) \/ Finish(s)
  \/ \E v \in Versions : EditMode(v)
  \/ Apply \/ ApplyHandled \/ Applied \/ ApplyFails
  \/ register \/ RegisterHandled \/ Registered \/ RegisterFails

Spec == Init /\ [][Next]_vars

\* The interval timer fires, every GET ends and its continuation runs. Nothing is
\* assumed of the tab, of the operator or of the system behind the API.
FairSpec ==
  /\ Spec
  /\ WF_vars(Poll)
  /\ \A s \in Slots : WF_vars(Serve(s)) /\ WF_vars(Finish(s))

--------------------------------------------------------------------------------
(* What the operator sees.                                                      *)

\* The list is replaced by "Loading" only as long as it is empty; an error is a
\* banner above it.
ListView == IF loading /\ shown["payments"] = None THEN "loading" ELSE "table"

\* The detail page hides an error once it has a payment to show.
DetailView ==
  [loading |-> loading /\ shown["payment"] = None, banner |-> error /\ shown["payment"] = None]

Label == IF dirty THEN "unsaved changes" ELSE "in sync with bank"

\* The page shows what is behind the API, and nothing else.
Current ==
  /\ \A r \in Reads[page] : shown[r] = data[r]
  /\ page # "payment" => ~error
  /\ page = "payments" => ListView = "table"
  /\ page = "payment" => ~DetailView.loading /\ ~DetailView.banner
  /\ page = "chaos" => (Label = "in sync with bank") = (mode = data["config"])

\* ADR-011: the dashboard reflects the server's state without a manual refresh. Once
\* the system is at rest and requests get through, the page comes to show it and
\* never falls back to an older answer, unless the tab stays hidden (usePolling,
\* refresh).
CatchesUp == []<>visible => <>[]Current

\* "don't clobber in-progress edits on later polls" (app/chaos/page.tsx:55): once the
\* form was seeded it holds what the operator put there, whichever of several polls
\* is answered when.
EditsKept == typed # None => mode = typed

================================================================================
