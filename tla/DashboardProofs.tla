---------------------------- MODULE DashboardProofs ----------------------------
(* The chaos page keeps the operator's edits, for any number of polls in flight, *)
(* changes behind the API, failures and hidings.                                 *)
EXTENDS Dashboard, TLAPS

\* What was typed before the form was seeded is no edit: the first answer may
\* replace it. From then on nothing but the operator touches the form.
FormInv ==
  /\ ~initialized => typed = None
  /\ EditsKept

LEMMA FormInit == Init => FormInv
BY DEF Init, FormInv, EditsKept

\* The steps that leave the form alone: all but two.
LEMMA FormAlone ==
  ASSUME FormInv, UNCHANGED <<mode, typed, initialized>>
  PROVE  FormInv'
BY DEF FormInv, EditsKept

LEMMA FormStep == FormInv /\ [Next]_vars => FormInv'
<1> SUFFICES ASSUME FormInv, [Next]_vars PROVE FormInv'
  OBVIOUS
<1>1. ASSUME NEW s \in Slots, ShowConfig(s) PROVE FormInv'
  <2>1. initialized' /\ typed' = typed /\ (initialized => mode' = mode)
    BY <1>1 DEF ShowConfig, Seeded
  <2> QED BY <2>1 DEF FormInv, EditsKept
<1>2. ASSUME NEW v \in Versions, EditMode(v) PROVE FormInv'
  <2>1. mode' = v /\ typed' = (IF initialized THEN v ELSE typed) /\ initialized' = initialized
    BY <1>2 DEF EditMode
  <2> QED BY <2>1 DEF FormInv, EditsKept
<1>3. ASSUME ServerWrites \/ Hide \/ Show \/ Poll \/ Submitted PROVE FormInv'
  BY <1>3, FormAlone DEF ServerWrites, Hide, Show, Poll, Submitted, chaos
<1>4. ASSUME NEW s \in Slots,
             Serve(s) \/ Fail(s) \/ ShowPayments(s) \/ ShowPayment(s) \/ ShowWebhooks(s) \/ Catch(s)
      PROVE  FormInv'
  BY <1>4, FormAlone DEF Serve, Fail, ShowPayments, ShowPayment, ShowWebhooks, Catch, chaos
<1>5. ASSUME Apply \/ ApplyHandled \/ Applied \/ ApplyFails PROVE FormInv'
  BY <1>5, FormAlone DEF Apply, ApplyHandled, Applied, ApplyFails
<1>6. ASSUME register \/ RegisterHandled \/ Registered \/ RegisterFails PROVE FormInv'
  BY <1>6, FormAlone DEF register, RegisterHandled, Registered, RegisterFails, chaos
<1>7. ASSUME UNCHANGED vars PROVE FormInv'
  BY <1>7, FormAlone DEF vars, chaos
<1> QED BY <1>1, <1>2, <1>3, <1>4, <1>5, <1>6, <1>7 DEF Next, Finish

\* Whatever polls are answered when, the chaos page's form holds what the operator
\* last put there after it was seeded (app/chaos/page.tsx, refresh and the inputs).
THEOREM EditsKeptHolds == Spec => []EditsKept
<1>1. FormInv => EditsKept
  BY DEF FormInv
<1> QED BY <1>1, FormInit, FormStep, PTL DEF Spec

================================================================================
