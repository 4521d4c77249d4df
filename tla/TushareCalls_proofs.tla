-------------------------- MODULE TushareCalls_proofs --------------------------
(***************************************************************************)
(* Proofs about TushareCalls, for any limit, minute and number of attempts *)
(* and calls.                                                              *)
(***************************************************************************)
EXTENDS TushareCalls, FiniteSetTheorems, TLAPS

\* A call in progress has begun its first attempt; only a limiter makes it sleep.
CallUnderWay ==
  /\ pc # "idle" => attempt >= 1
  /\ pc = "pacing" => Limit > 0
  /\ pc = "backoff" => attempt < MaxRetries

\* What is admitted is sent before anything else is admitted.
AdmittedIsSent ==
  /\ pc = "admitted" => Len(admitted) = Len(sent) + 1
  /\ pc # "admitted" => Len(admitted) = Len(sent)
  /\ \A i \in DOMAIN sent : sent[i] <= now

\* Calls counted before the current window were sent before it began, those
\* counted before the window preceding it a minute before that.
WindowsApart ==
  /\ windowStart <= now
  /\ pc = "admitted" => windowCount >= 1
  /\ pc = "pacing" => wake = windowStart + Minute
  /\ \A i \in DOMAIN sent :
       /\ i <= Len(admitted) - windowCount => sent[i] <= windowStart
       /\ i <= Len(admitted) - windowCount - Limit => sent[i] + Minute <= windowStart

IInv ==
  /\ TypeOK
  /\ CallUnderWay
  /\ AdmittedIsSent
  /\ Limit > 0 => WindowsApart
  /\ PacedByWindow

-----------------------------------------------------------------------------
(* Types *)

\* A sequence of times with one more at its end.
LEMMA OneMore ==
  ASSUME NEW S, NEW s \in Seq(S), NEW t \in S
  PROVE  /\ Append(s, t) \in Seq(S)
         /\ Len(Append(s, t)) = Len(s) + 1
         /\ DOMAIN Append(s, t) = DOMAIN s \cup {Len(s) + 1}
         /\ \A i \in DOMAIN s : Append(s, t)[i] = s[i]
         /\ Append(s, t)[Len(s) + 1] = t
OBVIOUS

\* Waiting for a moment never turns the clock back.
LEMMA LaterIsLater ==
  ASSUME NEW t \in Nat, now \in Nat
  PROVE  Later(t) \in Nat /\ Later(t) >= now /\ Later(t) >= t
BY DEF Later

\* The initial state satisfies the inductive invariant.
LEMMA InitIInv == Init => IInv
<1> SUFFICES ASSUME Init PROVE IInv OBVIOUS
<1> USE CallsAssumption
<1>1. TypeOK BY DEF Init, TypeOK, Points, Statuses, ProviderErrors
<1>2. CallUnderWay BY DEF Init, CallUnderWay
<1>3. AdmittedIsSent BY DEF Init, AdmittedIsSent
<1>4. WindowsApart BY DEF Init, WindowsApart
<1>5. PacedByWindow BY DEF Init, PacedByWindow
<1> QED BY <1>1, <1>2, <1>3, <1>4, <1>5 DEF IInv

\* Every step keeps the types, and a call in progress has an attempt.
LEMMA StepTypeOK ==
  ASSUME TypeOK, CallUnderWay, [Next]_vars
  PROVE  TypeOK' /\ CallUnderWay'
<1> USE CallsAssumption DEF TypeOK, CallUnderWay, Points, Statuses, ProviderErrors
<1>1. ASSUME UNCHANGED vars PROVE TypeOK' /\ CallUnderWay'
  BY <1>1 DEF vars, windowVars, callVars
<1>2. ASSUME Admit PROVE TypeOK' /\ CallUnderWay'
  BY <1>2, OneMore DEF Admit, callVars
<1>3. ASSUME Pace PROVE TypeOK' /\ CallUnderWay'
  BY <1>3, OneMore DEF Pace, Report, windowVars
<1>14. now \in Nat /\ wake \in Nat OBVIOUS
<1>4. ASSUME Paced PROVE TypeOK' /\ CallUnderWay'
  <2>1. Later(wake) \in Nat BY <1>14, LaterIsLater
  <2>2. now' \in Nat /\ windowStart' \in Nat /\ windowCount' \in 0..Limit BY <1>4, <2>1 DEF Paced
  <2>3. admitted' \in Seq(Nat) BY <1>4, <2>2, OneMore DEF Paced
  <2> QED BY <1>4, <2>2, <2>3 DEF Paced, callVars
<1>5. ASSUME Call PROVE TypeOK' /\ CallUnderWay'
  BY <1>5 DEF Call, windowVars
<1>6. ASSUME Send PROVE TypeOK' /\ CallUnderWay'
  BY <1>6, OneMore DEF Send, windowVars, callVars
<1>7. ASSUME Answer PROVE TypeOK' /\ CallUnderWay'
  BY <1>7 DEF Answer, windowVars, callVars
<1>8. ASSUME NEW e \in ProviderErrors, ProviderRaises(e) PROVE TypeOK' /\ CallUnderWay'
  BY <1>8 DEF ProviderRaises, windowVars
<1>9. ASSUME Return PROVE TypeOK' /\ CallUnderWay'
  <2>1. log \in Seq(Statuses) /\ "succeeded_after_retry" \in Statuses OBVIOUS
  <2>2. Append(log, "succeeded_after_retry") \in Seq(Statuses) BY <2>1, OneMore
  <2>3. log' = log \/ log' = Append(log, "succeeded_after_retry") BY <1>9 DEF Return, Report
  <2>4. log' \in Seq(Statuses) BY <2>1, <2>2, <2>3
  <2> QED BY <1>9, <2>4 DEF Return, windowVars
<1>10. ASSUME Fail PROVE TypeOK' /\ CallUnderWay'
  BY <1>10, OneMore DEF Fail, Report, windowVars
<1>11. ASSUME Retry PROVE TypeOK' /\ CallUnderWay'
  BY <1>11, OneMore, BackoffAssumption DEF Retry, MayRetry, Report, windowVars
<1>12. ASSUME NextAttempt PROVE TypeOK' /\ CallUnderWay'
  <2>1. Later(wake) \in Nat BY <1>14, LaterIsLater
  <2>2. attempt' \in 0..MaxRetries /\ attempt' >= 1 BY <1>12 DEF NextAttempt
  <2> QED BY <1>12, <2>1, <2>2 DEF NextAttempt, windowVars
<1>13. ASSUME HandlerRaisesInside PROVE TypeOK' /\ CallUnderWay'
  BY <1>13 DEF HandlerRaisesInside, windowVars
<1>15. ASSUME HandlerRaisesOutside PROVE TypeOK' /\ CallUnderWay'
  BY <1>15 DEF HandlerRaisesOutside, windowVars
<1>16. ASSUME Tick PROVE TypeOK' /\ CallUnderWay'
  BY <1>14, <1>16 DEF Tick, windowVars, callVars
<1> QED
  BY <1>1, <1>2, <1>3, <1>4, <1>5, <1>6, <1>7, <1>8, <1>9, <1>10, <1>11, <1>12, <1>13, <1>15, <1>16
  DEF Next, Step

-----------------------------------------------------------------------------
(* The windows *)

\* A step that neither admits nor sends.
Quiet ==
  /\ UNCHANGED <<windowVars, sent>>
  /\ pc' = "admitted" <=> pc = "admitted"
  /\ pc' = "pacing" => IF pc = "pacing" THEN wake' = wake ELSE wake' = windowStart + Minute

\* Time does not run backwards, and a step admits, sends or is quiet.
LEMMA StepKinds ==
  ASSUME TypeOK, CallUnderWay, [Next]_vars
  PROVE  /\ now' >= now
         /\ Admit \/ Paced \/ Send \/ Quiet
<1>1. now \in Nat /\ wake \in Nat BY DEF TypeOK
<1>2. ASSUME now' = now \/ now' = now + 1 \/ now' = Later(wake) PROVE now' >= now
  BY <1>1, <1>2, LaterIsLater
<1> USE DEF Quiet, windowVars, callVars
<1>3. CASE UNCHANGED vars BY <1>1, <1>3 DEF vars
<1>4. CASE Admit BY <1>1, <1>4 DEF Admit
<1>5. CASE Pace BY <1>1, <1>5 DEF Pace
<1>6. CASE Paced BY <1>2, <1>6 DEF Paced
<1>7. CASE Send BY <1>1, <1>7 DEF Send
<1>8. CASE Call BY <1>1, <1>8 DEF Call
<1>9. CASE Answer BY <1>1, <1>9 DEF Answer
<1>10. ASSUME NEW e \in ProviderErrors, ProviderRaises(e) PROVE now' >= now /\ Quiet
  BY <1>1, <1>10 DEF ProviderRaises
<1>11. CASE Return BY <1>1, <1>11 DEF Return
<1>12. CASE Fail BY <1>1, <1>12 DEF Fail
<1>13. CASE Retry BY <1>1, <1>13 DEF Retry
<1>14. CASE NextAttempt BY <1>2, <1>14 DEF NextAttempt
<1>15. CASE HandlerRaisesInside BY <1>1, <1>15 DEF HandlerRaisesInside
<1>16. CASE HandlerRaisesOutside BY <1>1, <1>16 DEF HandlerRaisesOutside
<1>17. CASE Tick BY <1>1, <1>17 DEF Tick
<1> QED
  BY <1>3, <1>4, <1>5, <1>6, <1>7, <1>8, <1>9, <1>10, <1>11, <1>12, <1>13, <1>14, <1>15, <1>16, <1>17
  DEF Next, Step

\* What Admit and Paced have in common: one more admission, in the current window
\* or in a new one that begins a minute or more after the one before.
Admission ==
  /\ pc \in {"pace", "pacing"} /\ pc' = "admitted"
  /\ UNCHANGED sent
  /\ \E t : admitted' = Append(admitted, t)
  /\ Limit > 0 =>
       \/ /\ UNCHANGED windowStart
          /\ windowCount < Limit /\ windowCount' = windowCount + 1
       \/ /\ windowStart' = now' /\ now' >= windowStart + Minute
          /\ windowCount' = 1

\* Admit is an admission.
LEMMA AdmitIsAdmission ==
  ASSUME TypeOK, Admit
  PROVE  Admission
<1>1. now \in Nat /\ windowStart \in Nat /\ windowCount \in 0..Limit BY DEF TypeOK
<1> QED BY <1>1, CallsAssumption DEF Admit, Admission, WindowOver

\* Paced is an admission.
LEMMA PacedIsAdmission ==
  ASSUME TypeOK, Limit > 0 => WindowsApart, Paced
  PROVE  Admission
<1>1. now \in Nat /\ wake \in Nat BY DEF TypeOK
<1>2. now' >= wake BY <1>1, LaterIsLater DEF Paced
<1>3. Limit > 0 => wake = windowStart + Minute BY DEF Paced, WindowsApart
<1>4. Limit > 0 => windowStart' = now' /\ now' >= windowStart + Minute /\ windowCount' = 1
  BY <1>2, <1>3 DEF Paced
<1>5. \E t : admitted' = Append(admitted, t) BY DEF Paced
<1>6. pc = "pacing" /\ pc' = "admitted" /\ UNCHANGED sent BY DEF Paced
<1> QED BY <1>4, <1>5, <1>6 DEF Admission

\* An admission keeps the invariant's parts about windows.
LEMMA AdmissionKeeps ==
  ASSUME IInv, TypeOK', Admission, now' >= now
  PROVE  AdmittedIsSent' /\ (Limit > 0 => WindowsApart') /\ PacedByWindow'
<1> USE CallsAssumption
<1>1. /\ now \in Nat /\ now' \in Nat /\ windowStart \in Nat
      /\ admitted \in Seq(Nat) /\ sent \in Seq(Nat) /\ windowCount \in 0..Limit
  BY DEF IInv, TypeOK
<1>2. Len(admitted) = Len(sent) /\ Len(admitted') = Len(sent') + 1 /\ sent' = sent
  <2>1. pc # "admitted" BY DEF Admission
  <2>2. PICK t : admitted' = Append(admitted, t) BY DEF Admission
  <2>3. Len(admitted') = Len(admitted) + 1 BY <1>1, <2>2
  <2> QED BY <2>1, <2>3 DEF Admission, IInv, AdmittedIsSent
<1>3. \A i \in DOMAIN sent : sent[i] \in Nat /\ sent[i] <= now BY <1>1 DEF IInv, AdmittedIsSent
<1>4. AdmittedIsSent'
  BY <1>1, <1>2, <1>3 DEF Admission, AdmittedIsSent
<1>5. PacedByWindow' BY <1>2 DEF IInv, PacedByWindow
<1>6. ASSUME Limit > 0 PROVE WindowsApart'
  <2>1. WindowsApart BY <1>6 DEF IInv
  <2>2. pc' # "pacing" BY DEF Admission
  <2>3. CASE UNCHANGED windowStart /\ windowCount < Limit /\ windowCount' = windowCount + 1
    <3>1. Len(admitted') - windowCount' = Len(admitted) - windowCount BY <1>1, <1>2, <2>3
    <3> QED BY <1>1, <1>2, <2>1, <2>2, <2>3, <3>1 DEF WindowsApart
  <2>4. CASE windowStart' = now' /\ now' >= windowStart + Minute /\ windowCount' = 1
    <3>1. ASSUME NEW i \in DOMAIN sent PROVE sent[i] <= windowStart'
      <4>1. sent[i] \in Nat /\ sent[i] <= now BY <1>3
      <4>2. now <= windowStart' BY <1>1, <2>4
      <4> QED BY <1>1, <2>4, <4>1, <4>2
    <3>2. ASSUME NEW i \in DOMAIN sent, i <= Len(admitted') - 1 - Limit
          PROVE  sent[i] + Minute <= windowStart'
      <4>1. i <= Len(admitted) - windowCount BY <1>1, <1>2, <3>2
      <4>2. sent[i] <= windowStart BY <2>1, <4>1 DEF WindowsApart
      <4>3. sent[i] \in Nat BY <1>3
      <4> QED BY <1>1, <2>4, <4>2, <4>3
    <3>3. DOMAIN sent' = DOMAIN sent /\ \A i \in DOMAIN sent : sent'[i] = sent[i] BY <1>2
    <3>4. windowStart' <= now' BY <1>1, <2>4
    <3> QED BY <2>2, <2>4, <3>1, <3>2, <3>3, <3>4 DEF WindowsApart
  <2> QED BY <1>6, <2>3, <2>4 DEF Admission
<1> QED BY <1>4, <1>5, <1>6

\* Sending keeps them too: what is sent now was counted in the current window, and
\* what was sent twice the limit before it a minute before that window.
LEMMA SendKeeps ==
  ASSUME IInv, TypeOK', Send
  PROVE  AdmittedIsSent' /\ (Limit > 0 => WindowsApart') /\ PacedByWindow'
<1> USE CallsAssumption
<1>1. /\ now \in Nat /\ windowStart \in Nat
      /\ admitted \in Seq(Nat) /\ sent \in Seq(Nat) /\ windowCount \in 0..Limit
  BY DEF IInv, TypeOK
<1>2. /\ Len(admitted) = Len(sent) + 1
      /\ UNCHANGED <<now, windowStart, windowCount, admitted>> /\ pc' = "sent"
  BY DEF IInv, AdmittedIsSent, Send, windowVars
<1>3. /\ Len(sent') = Len(sent) + 1 /\ DOMAIN sent' = DOMAIN sent \cup {Len(sent) + 1}
      /\ \A i \in DOMAIN sent : sent'[i] = sent[i]
      /\ sent'[Len(sent) + 1] = now
  BY <1>1, OneMore DEF Send
<1>4. \A i \in DOMAIN sent : sent[i] \in Nat /\ sent[i] <= now BY <1>1 DEF IInv, AdmittedIsSent
<1>5. AdmittedIsSent'
  BY <1>1, <1>2, <1>3, <1>4 DEF AdmittedIsSent
<1>6. ASSUME Limit > 0 PROVE WindowsApart' /\ PacedByWindow'
  <2>1. WindowsApart /\ windowCount >= 1 BY <1>6 DEF IInv, WindowsApart, Send
  <2>2. WindowsApart'
    <3>1. ASSUME NEW i \in DOMAIN sent', i <= Len(admitted) - windowCount
          PROVE  i \in DOMAIN sent /\ sent'[i] = sent[i]
      BY <1>1, <1>2, <1>3, <2>1, <3>1
    <3>2. ASSUME NEW i \in DOMAIN sent', i <= Len(admitted') - windowCount'
          PROVE  sent'[i] <= windowStart'
      BY <1>2, <2>1, <3>1, <3>2 DEF WindowsApart
    <3>3. ASSUME NEW i \in DOMAIN sent', i <= Len(admitted') - windowCount' - Limit
          PROVE  sent'[i] + Minute <= windowStart'
      <4>1. i \in Nat BY <1>1, <1>3
      <4>2. i <= Len(admitted) - windowCount BY <1>1, <1>2, <3>3, <4>1
      <4> QED BY <1>2, <2>1, <3>1, <3>3, <4>2 DEF WindowsApart
    <3> QED BY <1>2, <2>1, <3>2, <3>3 DEF WindowsApart
  <2>3. ASSUME NEW i \in 1..(Len(sent') - 2 * Limit)
        PROVE  sent'[i + 2 * Limit] - sent'[i] >= Minute
    <3>0. /\ i \in Nat /\ i >= 1 /\ Len(sent) \in Nat /\ DOMAIN sent = 1..Len(sent)
          /\ i + 2 * Limit <= Len(sent) + 1 /\ Limit >= 1
      BY <1>1, <1>3, <1>6, <2>3
    <3>1. i \in DOMAIN sent /\ sent'[i] = sent[i] BY <1>3, <3>0
    <3>2. CASE i + 2 * Limit = Len(sent) + 1
      <4>1. i <= Len(admitted) - windowCount - Limit BY <1>1, <1>2, <3>0, <3>2
      <4>2. sent[i] + Minute <= windowStart BY <2>1, <3>1, <4>1 DEF WindowsApart
      <4>3. windowStart <= now BY <2>1 DEF WindowsApart
      <4>4. sent[i] \in Nat BY <1>4, <3>1
      <4>5. sent'[i + 2 * Limit] = now BY <1>3, <3>2
      <4> QED BY <1>1, <3>1, <4>2, <4>3, <4>4, <4>5
    <3>3. CASE i + 2 * Limit # Len(sent) + 1
      <4>1. i \in 1..(Len(sent) - 2 * Limit) BY <3>0, <3>3
      <4>2. i + 2 * Limit \in DOMAIN sent BY <3>0, <4>1
      <4>3. sent[i + 2 * Limit] - sent[i] >= Minute BY <1>6, <4>1 DEF IInv, PacedByWindow
      <4> QED BY <1>3, <3>1, <4>2, <4>3
    <3> QED BY <3>2, <3>3
  <2> QED BY <2>2, <2>3 DEF PacedByWindow
<1>7. CASE Limit = 0 BY <1>5, <1>7 DEF PacedByWindow
<1> QED BY <1>5, <1>6, <1>7

\* A quiet step keeps them.
LEMMA QuietKeeps ==
  ASSUME IInv, TypeOK', Quiet, now' >= now
  PROVE  AdmittedIsSent' /\ (Limit > 0 => WindowsApart') /\ PacedByWindow'
<1> USE CallsAssumption
<1>1. /\ now \in Nat /\ now' \in Nat /\ windowStart \in Nat
      /\ admitted \in Seq(Nat) /\ sent \in Seq(Nat) /\ windowCount \in 0..Limit
  BY DEF IInv, TypeOK
<1>2. UNCHANGED <<windowStart, windowCount, admitted, sent>> BY DEF Quiet, windowVars
<1>3. \A i \in DOMAIN sent : sent[i] \in Nat BY <1>1
<1>4. AdmittedIsSent' BY <1>1, <1>2, <1>3 DEF IInv, AdmittedIsSent, Quiet
<1>5. PacedByWindow' BY <1>2 DEF IInv, PacedByWindow
<1>6. ASSUME Limit > 0 PROVE WindowsApart'
  BY <1>1, <1>2, <1>6 DEF IInv, WindowsApart, Quiet
<1> QED BY <1>4, <1>5, <1>6

\* The invariant is inductive.
LEMMA StepIInv == IInv /\ [Next]_vars => IInv'
<1> SUFFICES ASSUME IInv, [Next]_vars PROVE IInv' OBVIOUS
<1>1. TypeOK /\ CallUnderWay /\ (Limit > 0 => WindowsApart) BY DEF IInv
<1>2. TypeOK' /\ CallUnderWay' BY <1>1, StepTypeOK
<1>3. now' >= now /\ (Admit \/ Paced \/ Send \/ Quiet) BY <1>1, StepKinds
<1>4. AdmittedIsSent' /\ (Limit > 0 => WindowsApart') /\ PacedByWindow'
  <2>1. CASE Admit \/ Paced
    BY <1>1, <1>2, <1>3, <2>1, AdmitIsAdmission, PacedIsAdmission, AdmissionKeeps
  <2>2. CASE Send BY <1>2, <2>2, SendKeeps
  <2>3. CASE Quiet BY <1>2, <1>3, <2>3, QuietKeeps
  <2> QED BY <1>3, <2>1, <2>2, <2>3
<1>5. Limit' = Limit OBVIOUS
<1> QED BY <1>2, <1>4, <1>5 DEF IInv

-----------------------------------------------------------------------------
(* Theorems *)

\* The inductive invariant holds of every behaviour.
THEOREM Invariance == Spec => []IInv
<1>1. Init => IInv BY InitIInv
<1>2. IInv /\ [Next]_vars => IInv' BY StepIInv
<1> QED BY <1>1, <1>2, PTL DEF Spec

\* Every variable keeps its type: the window never counts more than Limit calls and
\* attempts never exceed max_retries.
THEOREM TypeCorrect == Spec => []TypeOK
<1>1. IInv => TypeOK BY DEF IInv
<1> QED BY <1>1, Invariance, PTL

\* Whatever the limit, however late an admitted call is sent and however often
\* calls are retried, a minute sees at most twice the limit.
THEOREM MinuteBounded == Spec => []PacedByWindow
<1>1. IInv => PacedByWindow BY DEF IInv
<1> QED BY <1>1, Invariance, PTL

-----------------------------------------------------------------------------
(* The inductive invariant of retries: times, answers and events *)

Waiting == {"pace", "pacing", "admitted"}

\* The attempts of the call in progress that were sent.
Attempts == Len(sent) - first

\* An attempt is sent once, and not before the backoff of the one before it ended.
InTime ==
  /\ first <= Len(sent)
  /\ Attempts <= attempt
  /\ pc \in Waiting => Attempts <= attempt - 1
  /\ Attempts >= 1 /\ pc \in Waiting => now >= sent[Len(sent)] + Backoff(Attempts)
  /\ Attempts >= 1 /\ pc = "backoff" => wake >= sent[Len(sent)] + Backoff(Attempts)

\* What may still be sent was not refused permission, and was not answered either,
\* unless a handler raised after the answer.
OpenQuestion ==
  /\ pc \in Waiting \cup {"sent", "answered", "backoff"} => "permission" \notin seen
  /\ pc = "caught" /\ "permission" \in seen => error = "permission"
  /\ "answer" \in seen /\ pc \in Waiting \cup {"sent", "caught", "backoff"} => handlerFaults > 0

\* While a call lasts, every attempt but the first was announced, and no failure is.
Announced ==
  /\ pc \in Waiting \cup {"sent", "answered", "caught"} => Cardinality(Events("retrying")) = attempt - 1
  /\ pc = "backoff" => Cardinality(Events("retrying")) = attempt
  /\ pc # "idle" => Events("failed") = {}
  /\ EventsTellOutcome

Retries == InTime /\ BackoffRespected /\ OpenQuestion /\ Announced

\* The initial state satisfies it.
LEMMA InitRetries == Init => Retries
<1> SUFFICES ASSUME Init PROVE Retries OBVIOUS
<1> USE CallsAssumption DEF Init, Attempts
<1>1. InTime BY DEF InTime, Waiting
<1>2. BackoffRespected BY DEF BackoffRespected
<1>3. OpenQuestion BY DEF OpenQuestion, Waiting
<1>4. Announced BY DEF Announced, EventsTellOutcome, Waiting
<1> QED BY <1>1, <1>2, <1>3, <1>4 DEF Retries

\* What the times of a call are compared with: an attempt was sent, and its backoff is no
\* longer than that of a later attempt.
LEMMA LastAttempt ==
  ASSUME IInv, InTime, Attempts >= 1
  PROVE  /\ Attempts \in 1..MaxRetries /\ Len(sent) \in DOMAIN sent
         /\ sent[Len(sent)] \in Nat /\ sent[Len(sent)] <= now
         /\ Backoff(Attempts) \in Nat
         /\ attempt \in 1..MaxRetries /\ Backoff(attempt) \in Nat
         /\ Backoff(Attempts) <= Backoff(attempt)
<1> USE CallsAssumption
<1>1. first \in Nat /\ sent \in Seq(Nat) /\ attempt \in 0..MaxRetries /\ now \in Nat BY DEF IInv, TypeOK
<1>2. Len(sent) \in DOMAIN sent BY <1>1 DEF Attempts
<1>3. sent[Len(sent)] \in Nat BY <1>1, <1>2
<1>4. sent[Len(sent)] <= now BY <1>2 DEF IInv, AdmittedIsSent
<1>5. Attempts \in 1..MaxRetries /\ attempt \in 1..MaxRetries /\ Attempts \in 1..attempt
  BY <1>1 DEF InTime, Attempts
<1>6. Backoff(Attempts) \in Nat /\ Backoff(attempt) \in Nat /\ Backoff(Attempts) <= Backoff(attempt)
  BY <1>5, BackoffAssumption
<1> QED BY <1>2, <1>3, <1>4, <1>5, <1>6

\* A step that neither begins a call nor sends keeps the times, if a waiting call keeps
\* waiting or waited for the backoff.
LEMMA SameAttempts ==
  ASSUME IInv, IInv', InTime, BackoffRespected, UNCHANGED <<sent, first>>,
         attempt' = attempt \/ attempt' = attempt + 1, now' >= now,
         pc' \in Waiting => \/ pc \in Waiting
                            \/ pc = "backoff" /\ attempt' = attempt + 1 /\ now' >= wake,
         pc' = "backoff" => \/ pc = "backoff" /\ wake' = wake
                            \/ wake' = now + Backoff(attempt)
  PROVE  InTime' /\ BackoffRespected'
<1> USE CallsAssumption
<1>1. /\ first \in Nat /\ sent \in Seq(Nat) /\ attempt \in 0..MaxRetries /\ attempt' \in 0..MaxRetries
      /\ now \in Nat /\ now' \in Nat /\ wake \in Nat
  BY DEF IInv, TypeOK
<1>2. Attempts' = Attempts /\ Attempts \in Int BY <1>1 DEF Attempts
<1>3. first' <= Len(sent') /\ Attempts' <= attempt' BY <1>1, <1>2 DEF InTime
<1>4. ASSUME pc' \in Waiting PROVE Attempts' <= attempt' - 1
  <2>1. CASE pc \in Waiting
    <3>1. Attempts <= attempt - 1 BY <2>1 DEF InTime
    <3>2. CASE attempt' = attempt BY <1>2, <3>1, <3>2
    <3>3. CASE attempt' = attempt + 1
      <4>1. attempt' - 1 = attempt BY <1>1, <3>3
      <4>2. Attempts <= attempt BY DEF InTime
      <4> QED BY <1>2, <4>1, <4>2
    <3> QED BY <3>2, <3>3
  <2>2. CASE attempt' = attempt + 1
    <3>1. attempt' - 1 = attempt BY <1>1, <2>2
    <3>2. Attempts <= attempt BY DEF InTime
    <3> QED BY <1>2, <3>1, <3>2
  <2> QED BY <1>4, <2>1, <2>2
<1>5. ASSUME Attempts >= 1, pc' \in Waiting PROVE now' >= sent'[Len(sent')] + Backoff(Attempts')
  <2>1. sent[Len(sent)] \in Nat /\ Backoff(Attempts) \in Nat BY <1>5, LastAttempt
  <2>2. CASE pc \in Waiting BY <1>1, <1>2, <1>5, <2>1, <2>2 DEF InTime
  <2>3. CASE pc = "backoff" /\ attempt' = attempt + 1 /\ now' >= wake
    BY <1>1, <1>2, <1>5, <2>1, <2>3 DEF InTime
  <2> QED BY <1>5, <2>2, <2>3
<1>6. ASSUME Attempts >= 1, pc' = "backoff" PROVE wake' >= sent'[Len(sent')] + Backoff(Attempts')
  <2>1. /\ sent[Len(sent)] \in Nat /\ sent[Len(sent)] <= now
        /\ Backoff(Attempts) \in Nat /\ Backoff(attempt) \in Nat /\ Backoff(Attempts) <= Backoff(attempt)
    BY <1>6, LastAttempt
  <2>2. CASE pc = "backoff" /\ wake' = wake BY <1>2, <1>6, <2>2 DEF InTime
  <2>3. CASE wake' = now + Backoff(attempt) BY <1>1, <1>2, <2>1, <2>3
  <2> QED BY <1>6, <2>2, <2>3
<1>7. InTime' BY <1>2, <1>3, <1>4, <1>5, <1>6 DEF InTime
<1>8. BackoffRespected' BY DEF BackoffRespected
<1> QED BY <1>7, <1>8

\* Sending keeps the times: the attempt waited for the backoff of the one before it.
LEMMA SendInTime ==
  ASSUME IInv, IInv', InTime, BackoffRespected, Send
  PROVE  InTime' /\ BackoffRespected'
<1> USE CallsAssumption
<1>1. /\ first \in Nat /\ sent \in Seq(Nat) /\ attempt \in 0..MaxRetries
      /\ now \in Nat /\ Len(sent) \in Nat
  BY DEF IInv, TypeOK
<1>2. /\ Len(sent') = Len(sent) + 1
      /\ \A i \in DOMAIN sent : sent'[i] = sent[i]
      /\ sent'[Len(sent) + 1] = now
  BY <1>1, OneMore DEF Send
<1>3. pc = "admitted" /\ pc' = "sent" /\ UNCHANGED <<first, attempt, now>> BY DEF Send, callVars
<1>4. Attempts' = Attempts + 1 /\ Attempts \in Nat /\ Attempts <= attempt - 1
  BY <1>1, <1>2, <1>3 DEF Attempts, InTime, Waiting
<1>5. InTime' BY <1>1, <1>2, <1>3, <1>4 DEF InTime, Waiting
<1>6. Len(sent') - first' <= MaxRetries BY <1>1, <1>4, <1>3 DEF Attempts
<1>7. ASSUME NEW i \in (first + 1)..Len(sent)
      PROVE  sent'[i + 1] - sent'[i] >= RetrySleep * 2 ^ (i - first - 1)
  <2>1. i \in DOMAIN sent /\ sent'[i] = sent[i] BY <1>1, <1>2
  <2>2. CASE i = Len(sent)
    <3>1. Attempts >= 1 /\ Attempts = i - first BY <1>1, <2>2 DEF Attempts
    <3>2. now >= sent[Len(sent)] + Backoff(Attempts) BY <1>3, <3>1 DEF InTime, Waiting
    <3>3. sent[Len(sent)] \in Nat /\ Backoff(Attempts) \in Nat BY <3>1, LastAttempt
    <3>4. Backoff(Attempts) = RetrySleep * 2 ^ (i - first - 1) BY <3>1 DEF Backoff
    <3>5. now - sent[Len(sent)] >= Backoff(Attempts) BY <1>1, <3>2, <3>3
    <3> QED BY <1>2, <2>1, <2>2, <3>4, <3>5
  <2>3. CASE i # Len(sent)
    <3>1. i \in (first + 1)..(Len(sent) - 1) /\ i + 1 \in DOMAIN sent BY <1>1, <2>1, <2>3
    <3>2. sent[i + 1] - sent[i] >= RetrySleep * 2 ^ (i - first - 1) BY <3>1 DEF BackoffRespected
    <3> QED BY <1>2, <2>1, <3>1, <3>2
  <2> QED BY <2>2, <2>3
<1>8. Len(sent') - 1 = Len(sent) /\ first' = first BY <1>1, <1>2, <1>3
<1>9. BackoffRespected' BY <1>6, <1>7, <1>8 DEF BackoffRespected
<1> QED BY <1>5, <1>9

\* Every step keeps the times of the attempts.
LEMMA StepInTime ==
  ASSUME IInv, IInv', InTime, BackoffRespected, [Next]_vars
  PROVE  InTime' /\ BackoffRespected'
<1> USE CallsAssumption
<1>1. now' >= now BY StepKinds DEF IInv
<1>2. now \in Nat /\ wake \in Nat /\ attempt \in 0..MaxRetries /\ pc \in Points BY DEF IInv, TypeOK
<1>4. CASE Send BY <1>4, SendInTime
<1>5. CASE Call
  <2>1. first \in Nat /\ Len(sent) \in Nat BY DEF IInv, TypeOK
  <2>2. first' = Len(sent) /\ sent' = sent /\ attempt' = 1 /\ pc' = "pace" BY <1>5 DEF Call
  <2>3. Attempts' = 0 BY <2>1, <2>2 DEF Attempts
  <2>4. InTime' BY <2>1, <2>2, <2>3 DEF InTime
  <2>5. BackoffRespected' BY <2>1, <2>2 DEF BackoffRespected
  <2> QED BY <2>4, <2>5
<1>6. CASE Retry BY <1>1, <1>6, SameAttempts DEF Retry, Waiting, windowVars
<1>7. CASE NextAttempt
  <2>1. now' >= wake BY <1>2, <1>7, LaterIsLater DEF NextAttempt
  <2> QED BY <1>1, <1>7, <2>1, SameAttempts DEF NextAttempt, Waiting
<1>8. CASE UNCHANGED vars BY <1>1, <1>8, SameAttempts DEF vars, callVars
<1>9. CASE Admit BY <1>1, <1>9, SameAttempts DEF Admit, callVars, Waiting
<1>10. CASE Pace BY <1>1, <1>10, SameAttempts DEF Pace, Waiting
<1>11. CASE Paced BY <1>1, <1>11, SameAttempts DEF Paced, callVars, Waiting
<1>12. CASE Answer BY <1>1, <1>12, SameAttempts DEF Answer, callVars, Waiting
<1>13. ASSUME NEW e \in ProviderErrors, ProviderRaises(e) PROVE InTime' /\ BackoffRespected'
  BY <1>1, <1>13, SameAttempts DEF ProviderRaises, Waiting
<1>14. CASE Return BY <1>1, <1>14, SameAttempts DEF Return, Waiting
<1>15. CASE Fail BY <1>1, <1>15, SameAttempts DEF Fail, Waiting
<1>16. CASE HandlerRaisesInside BY <1>1, <1>16, SameAttempts DEF HandlerRaisesInside, Waiting
<1>17. CASE HandlerRaisesOutside BY <1>1, <1>17, SameAttempts DEF HandlerRaisesOutside, Waiting
<1>18. CASE Tick BY <1>1, <1>18, SameAttempts DEF Tick, callVars, Waiting
<1> QED
  BY <1>4, <1>5, <1>6, <1>7, <1>8, <1>9, <1>10, <1>11, <1>12, <1>13, <1>14, <1>15, <1>16, <1>17, <1>18
  DEF Next, Step

\* Every step keeps the question open: a refusal ends the call.
LEMMA StepOpenQuestion ==
  ASSUME TypeOK, OpenQuestion, [Next]_vars
  PROVE  OpenQuestion'
<1> USE DEF OpenQuestion, Waiting
<1>1. handlerFaults \in Nat /\ "permission" \notin {} /\ "answer" \notin {} BY DEF TypeOK
<1>2. CASE UNCHANGED vars BY <1>2 DEF vars, callVars
<1>3. CASE Admit BY <1>3 DEF Admit, callVars
<1>4. CASE Pace BY <1>4 DEF Pace
<1>5. CASE Paced BY <1>5 DEF Paced, callVars
<1>6. CASE Call BY <1>6 DEF Call
<1>7. CASE Send BY <1>7 DEF Send, callVars
<1>8. CASE Answer BY <1>8 DEF Answer, callVars
<1>9. ASSUME NEW e \in ProviderErrors, ProviderRaises(e) PROVE OpenQuestion'
  BY <1>9 DEF ProviderRaises, ProviderErrors
<1>10. CASE Return BY <1>10 DEF Return
<1>11. CASE Fail BY <1>11 DEF Fail
<1>12. CASE Retry BY <1>12 DEF Retry, MayRetry, Retryable
<1>13. CASE NextAttempt BY <1>13 DEF NextAttempt
<1>14. CASE HandlerRaisesInside BY <1>1, <1>14 DEF HandlerRaisesInside
<1>15. CASE HandlerRaisesOutside BY <1>15 DEF HandlerRaisesOutside
<1>16. CASE Tick BY <1>16 DEF Tick, callVars
<1> QED
  BY <1>2, <1>3, <1>4, <1>5, <1>6, <1>7, <1>8, <1>9, <1>10, <1>11, <1>12, <1>13, <1>14, <1>15, <1>16
  DEF Next, Step

\* A report adds its event, the last of the log, to those of its status.
LEMMA ReportAdds ==
  ASSUME TypeOK, NEW status \in Statuses, Report(status)
  PROVE  /\ \A s : Events(s)' = IF s = status THEN Events(s) \cup {Len(log')} ELSE Events(s)
         /\ \A s : IsFiniteSet(Events(s)) /\ Cardinality(Events(s)) \in Nat
         /\ Cardinality(Events(status)') = Cardinality(Events(status)) + 1
         /\ log'[Len(log')] = status
<1>1. log \in Seq(Statuses) BY DEF TypeOK
<1>2. /\ Len(log') = Len(log) + 1 /\ DOMAIN log' = DOMAIN log \cup {Len(log) + 1}
      /\ \A i \in DOMAIN log : log'[i] = log[i]
      /\ log'[Len(log) + 1] = status
  BY <1>1, OneMore DEF Report
<1>3. \A s : Events(s)' = IF s = status THEN Events(s) \cup {Len(log')} ELSE Events(s)
  BY <1>2 DEF Events
<1>4. ASSUME NEW s PROVE IsFiniteSet(Events(s)) /\ Cardinality(Events(s)) \in Nat
  <2>1. Events(s) \subseteq 1..Len(log) /\ Len(log) \in Nat BY <1>1 DEF Events
  <2>2. IsFiniteSet(1..Len(log)) BY <2>1, FS_Interval
  <2>3. IsFiniteSet(Events(s)) BY <2>1, <2>2, FS_Subset
  <2> QED BY <2>3, FS_CardinalityType
<1>5. Cardinality(Events(status)') = Cardinality(Events(status)) + 1
  <2>1. Len(log') \notin Events(status) BY <1>1, <1>2 DEF Events
  <2>2. Events(status)' = Events(status) \cup {Len(log')} BY <1>3
  <2>3. IsFiniteSet(Events(status)) BY <1>4
  <2>4. Cardinality(Events(status) \cup {Len(log')}) = Cardinality(Events(status)) + 1
    BY <2>1, <2>3, FS_AddElement
  <2> QED BY <2>2, <2>4
<1> QED BY <1>2, <1>3, <1>4, <1>5

\* A step that leaves the log alone leaves its events alone.
LEMMA SameEvents ==
  ASSUME UNCHANGED log
  PROVE  /\ Events("retrying")' = Events("retrying") /\ Events("failed")' = Events("failed")
         /\ Len(log') = Len(log) /\ log'[Len(log')] = log[Len(log)]
BY DEF Events

\* Every step keeps the events of the call in progress.
LEMMA StepAnnounced ==
  ASSUME TypeOK, TypeOK', CallUnderWay, Announced, [Next]_vars
  PROVE  Announced'
<1> USE DEF Announced, Waiting
<1>1. attempt \in Nat /\ log \in Seq(Statuses) BY CallsAssumption DEF TypeOK
<1>2. {"rate_limited_sleep", "succeeded_after_retry", "retrying", "failed"} \subseteq Statuses
  BY DEF Statuses
<1> USE DEF EventsTellOutcome
<1>3. CASE UNCHANGED vars BY <1>3, SameEvents DEF vars, callVars
<1>4. CASE Admit BY <1>4, SameEvents DEF Admit, callVars
<1>5. CASE Pace BY <1>2, <1>5, ReportAdds DEF Pace
<1>6. CASE Paced BY <1>6, SameEvents DEF Paced, callVars
<1>7. CASE Call
  <2>1. log' = << >> /\ attempt' = 1 /\ pc' = "pace" BY <1>7 DEF Call
  <2>2. Events("retrying")' = {} /\ Events("failed")' = {} BY <2>1 DEF Events
  <2>3. Cardinality(Events("retrying")') = 0 BY <2>2, FS_EmptySet
  <2> QED BY <2>1, <2>2, <2>3
<1>8. CASE Send BY <1>8, SameEvents DEF Send, callVars
<1>9. CASE Answer BY <1>9, SameEvents DEF Answer, callVars
<1>10. ASSUME NEW e \in ProviderErrors, ProviderRaises(e) PROVE Announced'
  BY <1>10, SameEvents DEF ProviderRaises
<1>11. CASE Return
  <2>1. pc = "answered" /\ pc' = "idle" /\ outcome' = "value" /\ attempt' = attempt BY <1>11 DEF Return
  <2>2. CASE attempt > 1
    <3>1. Report("succeeded_after_retry") BY <1>11, <2>2 DEF Return
    <3>2. /\ Events("retrying")' = Events("retrying") /\ Events("failed")' = Events("failed")
          /\ log'[Len(log')] = "succeeded_after_retry"
      BY <1>2, <3>1, ReportAdds
    <3> QED BY <2>1, <3>2
  <2>3. CASE ~(attempt > 1)
    <3>1. UNCHANGED log BY <1>11, <2>3 DEF Return
    <3> QED BY <2>1, <2>3, <3>1, SameEvents
  <2> QED BY <2>2, <2>3
<1>12. CASE Fail
  <2>1. /\ pc = "caught" /\ pc' = "idle" /\ outcome' = error /\ attempt' = attempt
        /\ Report("failed")
    BY <1>12 DEF Fail
  <2>2. outcome' # "value" BY <2>1 DEF TypeOK, ProviderErrors
  <2>3. Events("retrying")' = Events("retrying") /\ Events("failed")' = Events("failed") \cup {Len(log')}
    BY <1>2, <2>1, ReportAdds
  <2>4. Events("failed")' = {Len(log')} BY <2>1, <2>3
  <2> QED BY <2>1, <2>2, <2>3, <2>4
<1>13. CASE Retry
  <2>1. pc = "caught" /\ pc' = "backoff" /\ attempt' = attempt /\ Report("retrying") BY <1>13 DEF Retry
  <2>2. /\ Cardinality(Events("retrying")') = Cardinality(Events("retrying")) + 1
        /\ Events("failed")' = Events("failed")
    BY <1>2, <2>1, ReportAdds
  <2> QED BY <1>1, <2>1, <2>2
<1>14. CASE NextAttempt BY <1>1, <1>14, SameEvents DEF NextAttempt
<1>15. CASE HandlerRaisesInside BY <1>15, SameEvents DEF HandlerRaisesInside
<1>16. CASE HandlerRaisesOutside BY <1>16, SameEvents DEF HandlerRaisesOutside
<1>17. CASE Tick BY <1>17, SameEvents DEF Tick, callVars
<1> QED
  BY <1>3, <1>4, <1>5, <1>6, <1>7, <1>8, <1>9, <1>10, <1>11, <1>12, <1>13, <1>14, <1>15, <1>16, <1>17
  DEF Next, Step

\* They are reached only with the types and windows right.
LEMMA StepRetries == IInv /\ Retries /\ [Next]_vars => Retries'
<1> SUFFICES ASSUME IInv, Retries, [Next]_vars PROVE Retries' OBVIOUS
<1>1. IInv' BY StepIInv
<1>2. TypeOK /\ TypeOK' /\ CallUnderWay BY <1>1 DEF IInv
<1>3. InTime' /\ BackoffRespected' BY <1>1, StepInTime DEF Retries
<1>4. OpenQuestion' BY <1>2, StepOpenQuestion DEF Retries
<1>5. Announced' BY <1>2, StepAnnounced DEF Retries
<1> QED BY <1>3, <1>4, <1>5 DEF Retries

\* The two invariants hold together of every behaviour.
THEOREM RetriesInvariance == Spec => [](IInv /\ Retries)
<1>1. Init => IInv /\ Retries BY InitIInv, InitRetries
<1>2. IInv /\ Retries /\ [Next]_vars => (IInv /\ Retries)'
  <2>1. IInv /\ [Next]_vars => IInv' BY StepIInv
  <2>2. IInv /\ Retries /\ [Next]_vars => Retries' BY StepRetries
  <2> QED BY <2>1, <2>2
<1> QED BY <1>1, <1>2, PTL DEF Spec

\* A call is sent at most max_retries times, each time after the backoff of the attempt
\* before; what was refused permission or answered is not asked again, unless a handler raised.
THEOREM RetriesHaveReasons == Spec => RetriesAreJustified
<1>1. IInv /\ Retries => TypeOK /\ BackoffRespected BY DEF IInv, Retries
<1>2. IInv /\ Retries /\ [Next]_vars =>
        [(sent' # sent) => /\ "permission" \notin seen
                           /\ "answer" \in seen => handlerFaults > 0]_vars
  <2> SUFFICES ASSUME Retries, sent' # sent, [Next]_vars
               PROVE  "permission" \notin seen /\ ("answer" \in seen => handlerFaults > 0)
    OBVIOUS
  <2>1. Send
    BY DEF Next, Step, vars, windowVars, callVars, Call, Tick, Admit, Pace, Paced, Answer, Return, Fail,
           Retry, NextAttempt, ProviderRaises, HandlerRaisesInside, HandlerRaisesOutside
  <2>2. pc = "admitted" BY <2>1 DEF Send
  <2> QED BY <2>2 DEF Retries, OpenQuestion, Waiting
<1>3. Spec => []TypeOK /\ []BackoffRespected BY <1>1, RetriesInvariance, PTL
<1>4. Spec => NotAskedAgain BY <1>2, RetriesInvariance, PTL DEF Spec, NotAskedAgain
<1> QED BY <1>3, <1>4, PTL DEF RetriesAreJustified

\* The events of a finished call tell how it ended and how often it was tried, whatever
\* the limiter and failing handlers did in between.
THEOREM EventsTell == Spec => []EventsTellOutcome
<1>1. Retries => EventsTellOutcome BY DEF Retries, Announced
<1> QED BY <1>1, RetriesInvariance, PTL
=============================================================================
