-------------------------------- MODULE ClientProofs -------------------------------
(*****************************************************************************)
(* Proofs about RelayClient, for any number of generations, parts, attempts, *)
(* and sessions of this device and of others: whatever requests and answers  *)
(* are lost, the device only makes the store take its own steps, and calls   *)
(* the provider for a step at most once per attempt it was handed, so that   *)
(* no call in doubt is repeated without the user's consent.                  *)
(*****************************************************************************)
EXTENDS RelayClient, StoreProofs

\* The plans are bounded, hence the steps that the device can be handed.
ShortRuns == \A r \in Runs : DOMAIN gen[r].steps \subseteq 1..MaxSteps

ClientOK == /\ DeviceIs(device)
            /\ paid \in [Runs \X (1..MaxSteps) -> Nat]
            /\ ShortRuns

-----------------------------------------------------------------------------
\* Each step of the client is a step of the store, or none.

\* A claim of this device is a claim.
LEMMA ClaimIsStep ==
    ASSUME DeviceIs(device), NEW x \in Sessions,
           \/ ClaimNothing(x, device.ids)
           \/ \E r \in device.ids : \E i \in DOMAIN gen[r].steps, earlier \in SUBSET (device.ids \ {r}) :
                 ClaimOne(x, device.ids, r, i, earlier)
    PROVE  Next
<1>1. device.ids \in SUBSET Runs
  BY DEF DeviceIs, Device
<1>2. ClaimRequest
  BY <1>1 DEF ClaimRequest
<1>3. QED
  BY <1>2 DEF Next

\* What this device delivers, and the heartbeat of its step, name a step.
LEMMA DeliveryIsStep ==
    ASSUME DeviceIs(device),
           \/ ServerAccepts
           \/ Heartbeat
    PROVE  Next
<1> DEFINE s == device.step
<1>1. /\ s \in StepInHand /\ device.via \in Sessions
  BY HereAssumption DEF DeviceIs, ServerAccepts, Heartbeat
<1>2. s.run \in Runs /\ s.attempt \in 1..MaxStepAttempts
  BY <1>1 DEF StepInHand
<1> HIDE DEF s
<1>3. \/ StepHeartbeat(s.run, s.index, device.via, s.attempt)
      \/ /\ device.answer \in Results
         /\ \E fits \in BOOLEAN :
               SubmitResult(s.run, s.index, device.via, s.attempt, device.answer, fits)
      \/ \E refused \in BOOLEAN : SubmitError(s.run, s.index, device.via, s.attempt, refused)
  BY DEF ServerAccepts, Heartbeat, s
<1>4. s.index \in DOMAIN gen[s.run].steps
  BY <1>3 DEF StepHeartbeat, SubmitResult, SubmitError, RequireStep
<1>5. StepRequest
  BY <1>1, <1>2, <1>3, <1>4 DEF StepRequest
<1>6. QED
  BY <1>5 DEF Next

\* Every request of this device or of another one, answered or not, is a
\* transaction of the store.
LEMMA ClientStep ==
    ASSUME DeviceIs(device), [ClientNext]_allVars
    PROVE  [Next]_vars
<1>0. /\ Here \subseteq Sessions /\ device \in Device
      /\ device.session # None => device.session \in Sessions
      /\ device.at = "claiming" => device.via \in Sessions
  BY HereAssumption DEF DeviceIs, Device
<1>1. CASE Pump
  <2>1. ASSUME NEW r \in Runs, NEW i \in DOMAIN gen[r].steps,
               NEW earlier \in SUBSET (device.ids \ {r}), ReceiveStep(r, i, earlier)
        PROVE  Next
    BY <1>0, <2>1, ClaimIsStep DEF ReceiveStep, ServerClaims
  <2>2. ReceiveNothing => Next
    BY <1>0, ClaimIsStep DEF ReceiveNothing
  <2>3. Delivered => Next
    BY DeliveryIsStep DEF Delivered
  <2>4. QED
    BY <1>1, <2>1, <2>2, <2>3 DEF Pump, SendClaim, ClaimRefused, CallProvider, SkipStep,
         ProviderAnswers, DeliveryRefused, vars
<1>2. CASE Network
  <2>1. ClaimLost => Next \/ UNCHANGED vars
    BY <1>0, ClaimIsStep DEF ClaimLost
  <2>2. DeliveryLost \/ Heartbeat => Next
    BY DeliveryIsStep DEF DeliveryLost
  <2>3. QED
    BY <1>2, <2>1, <2>2 DEF Network, Fenced, vars
<1>3. CASE User
  <2>1. ASSUME NEW x \in Sessions, NEW ms \in SUBSET Models, Connect(x, ms)
        PROVE  Next
    BY <2>1 DEF Connect, Next, SessionRequest
  <2>2. ASSUME NEW r \in Runs, NEW k \in Keys, NEW m \in Models, NEW p \in Plans, Start(r, k, m, p)
        PROVE  Next
    BY <1>0, <2>2 DEF Start, Next, UserRequest
  <2>3. ASSUME NEW r \in Runs, NEW consent \in BOOLEAN, ResumeHere(r, consent)
        PROVE  Next
    BY <1>0, <2>3 DEF ResumeHere, Next, UserRequest
  <2>4. ASSUME NEW r \in Runs, Poll(r)
        PROVE  Next
    BY <2>4 DEF Poll, Next, UserRequest
  <2>5. ASSUME NEW r \in Runs, CancelHere(r)
        PROVE  Next \/ UNCHANGED vars
    BY <2>5 DEF CancelHere, Next, UserRequest
  <2>6. Quit => Next \/ UNCHANGED vars
    BY <1>0 DEF Quit, Next, SessionRequest
  <2>7. QED
    BY <1>3, <2>1, <2>2, <2>3, <2>4, <2>5, <2>6 DEF User, SetToken, Disconnect, TokenRefused, vars
<1>4. CASE OtherDevices
  <2>1. PICK x \in Sessions \ Here :
          \/ \E ms \in SUBSET Models : CreateRelaySession(x, ms)
          \/ RevokeRelay(x)
          \/ \E r \in Runs :
                \/ \E consent \in BOOLEAN : ResumeGeneration(r, x, consent)
                \/ \E i \in DOMAIN gen[r].steps :
                      \/ ClaimOne(x, {r}, r, i, {})
                      \/ \E a \in 1..MaxStepAttempts :
                            \/ StepHeartbeat(r, i, x, a)
                            \/ \E answer \in Results, fits \in BOOLEAN :
                                  SubmitResult(r, i, x, a, answer, fits)
                            \/ \E refused \in BOOLEAN : SubmitError(r, i, x, a, refused)
    BY <1>4 DEF OtherDevices
  <2>2. ASSUME NEW r \in Runs, NEW i \in DOMAIN gen[r].steps, ClaimOne(x, {r}, r, i, {})
        PROVE  ClaimRequest
    <3>1. {r} \in SUBSET Runs /\ {} \in SUBSET ({r} \ {r}) /\ r \in {r}
      OBVIOUS
    <3>2. QED
      BY <2>2, <3>1 DEF ClaimRequest
  <2>3. SessionRequest \/ UserRequest \/ ClaimRequest \/ StepRequest
    BY <2>1, <2>2 DEF SessionRequest, UserRequest, StepRequest
  <2>4. QED
    BY <2>3 DEF Next
<1>5. CASE Gateway
  BY <1>5 DEF Gateway, Next, UserRequest
<1>6. CASE UNCHANGED allVars
  BY <1>6 DEF allVars, vars
<1>7. QED
  BY <1>1, <1>2, <1>3, <1>4, <1>5, <1>6 DEF ClientNext

-----------------------------------------------------------------------------
\* The device.

\* The device as it may be after a step that hands it none.
Quietly(d) == /\ DeviceIs(d)
              /\ d.at = "granted" => device.at = "granted" /\ d.step = device.step

\* The loop of the pump begins again with runs it follows.
LEMMA TurnIs ==
    ASSUME DeviceIs(device), NEW runs \in SUBSET device.runs
    PROVE  Quietly(Turn(runs))
<1> DEFINE d == Turn(runs)
<1>1. /\ d \in Device /\ d.at = "turn" /\ d.runs = runs /\ d.session = device.session
  BY DEF Turn, DeviceIs, Device
<1> HIDE DEF d
<1>2. DeviceIs(d)
  BY <1>1 DEF DeviceIs
<1>3. QED
  BY <1>1, <1>2 DEF Quietly, d

\* Fewer runs, a lost token: what is in hand stays in hand.
LEMMA LessIs ==
    ASSUME DeviceIs(device), NEW runs \in SUBSET device.runs, NEW token \in BOOLEAN
    PROVE  Quietly([device EXCEPT !.runs = runs, !.token = token])
<1> DEFINE d == [device EXCEPT !.runs = runs, !.token = token]
<1>1. /\ d \in Device /\ d.runs = runs /\ d.session = device.session
      /\ d.at = device.at /\ d.via = device.via /\ d.step = device.step
      /\ d.ids = device.ids /\ d.answer = device.answer
  BY DEF DeviceIs, Device
<1> HIDE DEF d
<1>2. DeviceIs(d)
  BY <1>1 DEF DeviceIs
<1>3. QED
  BY <1>1, <1>2 DEF Quietly, d

\* One more run, under the session of this device.
LEMMA FollowIs ==
    ASSUME DeviceIs(device), device.session # None, NEW r \in Runs
    PROVE  Quietly(Follow(r))
<1> DEFINE d == Follow(r)
<1>1. device \in Device /\ device.session \in Here
  BY DEF DeviceIs, Device
<1>2. /\ d \in Device /\ d.session = device.session /\ d.via = device.via /\ d.step = device.step
      /\ d.ids = device.ids /\ d.answer = device.answer
      /\ d.at = IF device.at = "idle" THEN "turn" ELSE device.at
  BY <1>1 DEF Follow, Device
<1> HIDE DEF d
<1>3. DeviceIs(d)
  BY <1>1, <1>2 DEF DeviceIs
<1>4. QED
  BY <1>2, <1>3 DEF Quietly, d

\* Runs are dropped, and with them the call made for one of them.
LEMMA DropIs ==
    ASSUME DeviceIs(device), NEW runs
    PROVE  Quietly(Drop(runs)) /\ Quietly([Drop(runs) EXCEPT !.token = FALSE])
<1>0. device \in Device /\ device.token \in BOOLEAN
  BY DEF DeviceIs, Device
<1>1. device.runs \ runs \in SUBSET device.runs
  OBVIOUS
<1>2. CASE Drop(runs) = Turn(device.runs \ runs)
  <2> DEFINE d == Turn(device.runs \ runs)
  <2>1. Quietly(d) /\ d.at = "turn"
    BY <1>0, <1>1, TurnIs DEF Turn, Device
  <2>2. Quietly([d EXCEPT !.token = FALSE])
    <3> HIDE DEF d
    <3>1. d \in Device /\ DeviceIs(d)
      BY <2>1 DEF Quietly, DeviceIs
    <3> DEFINE e == [d EXCEPT !.token = FALSE]
    <3>2. e \in Device /\ e.at = d.at /\ e.runs = d.runs /\ e.session = d.session
      BY <3>1 DEF Device
    <3> HIDE DEF e
    <3>3. Quietly(e)
      BY <2>1, <3>1, <3>2 DEF Quietly, DeviceIs
    <3>4. QED
      BY <3>3 DEF e
  <2>3. QED
    BY <1>2, <2>1, <2>2
<1>3. CASE Drop(runs) = [device EXCEPT !.runs = @ \ runs]
  <2>1. /\ [device EXCEPT !.runs = @ \ runs]
              = [device EXCEPT !.runs = device.runs \ runs, !.token = device.token]
        /\ [[device EXCEPT !.runs = @ \ runs] EXCEPT !.token = FALSE]
              = [device EXCEPT !.runs = device.runs \ runs, !.token = FALSE]
    BY <1>0 DEF Device
  <2>2. /\ Quietly([device EXCEPT !.runs = device.runs \ runs, !.token = device.token])
        /\ Quietly([device EXCEPT !.runs = device.runs \ runs, !.token = FALSE])
    BY <1>0, <1>1, LessIs
  <2>3. QED
    BY <1>3, <2>1, <2>2
<1>4. QED
  BY <1>2, <1>3 DEF Drop

\* The claim hands out its next attempt of a step, by the store's own transaction.
LEMMA ReceiveIs ==
    ASSUME TypeOK, DeviceIs(device), ShortRuns,
           NEW r \in Runs, NEW i \in DOMAIN gen[r].steps,
           NEW earlier \in SUBSET (device.ids \ {r}), ReceiveStep(r, i, earlier)
    PROVE  /\ DeviceIs(device') /\ paid' = paid
           /\ device'.step = [run |-> r, index |-> i, attempt |-> gen[r].steps[i].attempt + 1]
           /\ i \in DOMAIN gen'[r].steps /\ gen'[r].steps[i].attempt = gen[r].steps[i].attempt + 1
           /\ gen[r].status # "absent" /\ gen[r].steps[i].attempt \in Nat
<1> DEFINE c == RefreshRun(gen[r])
<1>1. gen[r] \in Run /\ c \in Run /\ DOMAIN c.steps = DOMAIN gen[r].steps
  BY RefreshType, SameSteps DEF TypeOK
<1>2. /\ device.at = "claiming" /\ r \in device.ids /\ device.via \in Here /\ paid' = paid
      /\ ClaimOne(device.via, device.ids, r, i, earlier)
      /\ device' = [device EXCEPT !.at = "granted", !.ids = {},
                       !.step = [run |-> r, index |-> i, attempt |-> gen'[r].steps[i].attempt]]
  BY DEF ReceiveStep, ServerClaims, DeviceIs
<1>3. /\ gen'[r] = ClaimStep(c, i, device.via) /\ c.status = "waiting_relay"
      /\ c.steps[i].attempt < MaxStepAttempts
  BY <1>2 DEF ClaimOne, ReconcileUser, Claimable
<1>4. c = gen[r]
  BY <1>1, <1>3 DEF RefreshRun, Abandon, EraseIntermediate, MarkUncertain, Run
<1> HIDE DEF c
<1>5. DOMAIN gen'[r].steps = DOMAIN c.steps /\ gen'[r].steps[i].attempt = c.steps[i].attempt + 1
  BY <1>1, <1>3, ClaimFields
<1>6. gen[r].steps[i].attempt \in 0..MaxStepAttempts
  <2>1. gen[r].steps[i] \in Step
    BY <1>1, StepsDomain
  <2>2. QED
    BY <2>1 DEF Step
<1>7. gen[r].steps[i].attempt \in Nat /\ gen[r].steps[i].attempt + 1 \in 1..MaxStepAttempts
  BY <1>3, <1>4, <1>6, AttemptsAssumption
<1>8. gen[r].status # "absent"
  BY <1>3, <1>4
<1> DEFINE s == [run |-> r, index |-> i, attempt |-> gen[r].steps[i].attempt + 1]
<1>9. s \in StepInHand
  BY <1>7 DEF StepInHand, ShortRuns
<1>10. device' = [device EXCEPT !.at = "granted", !.ids = {}, !.step = s]
  BY <1>2, <1>4, <1>5
<1> HIDE DEF s
<1>11. device \in Device /\ (device.runs # {} => device.session \in Here)
  BY DEF DeviceIs
<1>12. /\ device' \in Device /\ device'.step = s /\ device'.via = device.via
       /\ device'.runs = device.runs /\ device'.session = device.session /\ device'.at = "granted"
  BY <1>9, <1>10, <1>11 DEF Device, StepInHand
<1>13. DeviceIs(device')
  BY <1>2, <1>9, <1>11, <1>12 DEF DeviceIs
<1>14. QED
  BY <1>1, <1>2, <1>4, <1>5, <1>7, <1>8, <1>12, <1>13 DEF s

\* The client calls the provider, is handed a step, or does neither.
LEMMA ClientDevice ==
    ASSUME TypeOK, DeviceIs(device), ShortRuns, [ClientNext]_allVars
    PROVE  \/ CallProvider
           \/ \E r \in Runs : \E i \in DOMAIN gen[r].steps, earlier \in SUBSET (device.ids \ {r}) :
                 ReceiveStep(r, i, earlier)
           \/ paid' = paid /\ Quietly(device')
<1> DEFINE Goal == paid' = paid /\ Quietly(device')
<1>0. /\ device \in Device /\ device.runs \in SUBSET Runs /\ device.token \in BOOLEAN
      /\ device.session \in Here \cup {None} /\ None \notin Here
  BY NoneAssumption, HereAssumption DEF DeviceIs, Device
<1>1. ASSUME device' = device, paid' = paid
      PROVE  Goal
  BY <1>1 DEF Quietly
<1>2. ASSUME NEW runs \in SUBSET device.runs, device' = Turn(runs), paid' = paid
      PROVE  Goal
  BY <1>2, TurnIs
<1>3. CASE SendClaim
  <2>1. paid' = paid
    BY <1>3 DEF SendClaim
  <2>2. CASE device' = [device EXCEPT !.at = "idle"]
    <3>1. /\ device' \in Device /\ device'.at = "idle"
          /\ device'.runs = device.runs /\ device'.session = device.session
      BY <1>0, <2>2 DEF Device
    <3>2. QED
      BY <2>1, <3>1 DEF Quietly, DeviceIs
  <2>3. CASE /\ device.runs # {}
             /\ device' = [device EXCEPT !.at = "claiming", !.via = device.session, !.ids = device.runs]
    <3>1. device.session \in Here
      BY <2>3 DEF DeviceIs
    <3>2. /\ device' \in Device /\ device'.at = "claiming" /\ device'.via = device.session
          /\ device'.ids # {}
          /\ device'.runs = device.runs /\ device'.session = device.session
      BY <1>0, <2>3 DEF Device
    <3>3. QED
      BY <2>1, <3>1, <3>2 DEF Quietly, DeviceIs
  <2>4. CASE device' = [device EXCEPT !.at = "idle", !.runs = {}]
    <3>1. device' \in Device /\ device'.at = "idle" /\ device'.runs = {}
      BY <1>0, <2>4 DEF Device
    <3>2. QED
      BY <2>1, <3>1 DEF Quietly, DeviceIs
  <2>5. QED
    BY <1>3, <2>2, <2>3, <2>4 DEF SendClaim
<1>4. CASE ReceiveNothing
  <2>1. /\ paid' = paid
        /\ device' = Turn({r \in device.runs : Waits(gen'[r])})
    BY <1>4 DEF ReceiveNothing
  <2>2. QED
    BY <1>2, <2>1
<1>5. CASE ClaimRefused \/ ClaimLost
  <2>1. paid' = paid /\ (device' = Turn({}) \/ device' = Turn(device.runs))
    BY <1>5 DEF ClaimRefused, ClaimLost
  <2>2. QED
    BY <1>2, <2>1
<1>6. CASE SkipStep
  <2>1. paid' = paid
    BY <1>6 DEF SkipStep
  <2>2. CASE device' = [device EXCEPT !.at = "delivering", !.answer = "auth_required"]
    <3>1. device.at = "granted"
      BY <1>6 DEF SkipStep
    <3>2. /\ device' \in Device /\ device'.at = "delivering" /\ device'.via = device.via
          /\ device'.runs = device.runs /\ device'.session = device.session
          /\ device'.step = device.step /\ device'.answer = "auth_required"
      BY <1>0, <2>2 DEF Device, Failures
    <3>3. QED
      BY <2>1, <3>1, <3>2 DEF Quietly, DeviceIs, Failures
  <2>3. QED
    BY <1>2, <1>6, <2>1, <2>2 DEF SkipStep
<1>7. ASSUME NEW answer \in Results \cup Failures, ProviderAnswers(answer)
      PROVE  Goal
  <2>1. paid' = paid /\ device.at = "calling"
    BY <1>7 DEF ProviderAnswers
  <2> DEFINE next == IF Followed THEN [device EXCEPT !.at = "delivering", !.answer = answer]
                     ELSE Turn(device.runs)
  <2>2. DeviceIs(next) /\ next.at # "granted"
    <3>1. CASE Followed
      <4> DEFINE d == [device EXCEPT !.at = "delivering", !.answer = answer]
      <4>1. /\ d \in Device /\ d.at = "delivering" /\ d.via = device.via
            /\ d.runs = device.runs /\ d.session = device.session /\ d.step = device.step
            /\ d.answer = answer
        BY <1>0 DEF Device
      <4> HIDE DEF d
      <4>2. DeviceIs(d) /\ d.at # "granted"
        BY <2>1, <4>1 DEF DeviceIs
      <4>3. QED
        BY <3>1, <4>2 DEF d
    <3>2. CASE ~Followed
      <4>1. Turn(device.runs).at = "turn"
        BY <1>0 DEF Turn, Device
      <4>2. QED
        BY <3>2, <4>1, TurnIs DEF Quietly
    <3>3. QED
      BY <3>1, <3>2
  <2> DEFINE token == next.token /\ (answer # "auth_required" \/ device.renewed)
  <2>3. device' = [next EXCEPT !.token = token, !.renewed = FALSE]
    BY <1>7 DEF ProviderAnswers
  <2>4. token \in BOOLEAN
    BY <1>0, <2>2 DEF DeviceIs, Device
  <2> HIDE DEF next, token
  <2>5. next \in Device
    BY <2>2 DEF DeviceIs
  <2>6. /\ device' \in Device /\ device'.at = next.at /\ device'.via = next.via
        /\ device'.runs = next.runs /\ device'.session = next.session /\ device'.step = next.step
        /\ device'.ids = next.ids /\ device'.answer = next.answer
    BY <2>3, <2>4, <2>5 DEF Device
  <2>7. DeviceIs(device')
    BY <2>2, <2>6 DEF DeviceIs
  <2>8. QED
    BY <2>1, <2>2, <2>6, <2>7 DEF Quietly
<1>8. CASE Delivered \/ DeliveryRefused \/ DeliveryLost \/ Heartbeat \/ Fenced
  <2>1. paid' = paid
    BY <1>8 DEF Delivered, DeliveryRefused, DeliveryLost, Heartbeat, Fenced, ServerAccepts, clientVars
  <2>2. \/ device' = device \/ device' = Turn(device.runs) \/ device' = Turn({})
        \/ device' = Turn(device.runs \ {device.step.run})
    BY <1>8 DEF Delivered, DeliveryRefused, DeliveryLost, Heartbeat, Fenced, GiveUp, clientVars
  <2>3. QED
    BY <1>1, <1>2, <2>1, <2>2
<1>9. ASSUME NEW x \in Sessions, NEW ms \in SUBSET Models, Connect(x, ms)
      PROVE  Goal
  <2>1. paid' = paid /\ x \in Here /\ device' = [device EXCEPT !.session = x]
    BY <1>9 DEF Connect
  <2>2. /\ device' \in Device /\ device'.at = device.at /\ device'.via = device.via
        /\ device'.runs = device.runs /\ device'.session = x /\ device'.step = device.step
        /\ device'.ids = device.ids /\ device'.answer = device.answer
    BY <1>0, <2>1 DEF Device
  <2>3. QED
    BY <2>1, <2>2 DEF Quietly, DeviceIs
<1>10. ASSUME NEW r \in Runs, \/ \E k \in Keys, m \in Models, p \in Plans : Start(r, k, m, p)
                              \/ \E consent \in BOOLEAN : ResumeHere(r, consent)
       PROVE  Goal
  <2>1. paid' = paid /\ device.session # None /\ (device' = device \/ device' = Follow(r))
    BY <1>10 DEF Start, ResumeHere
  <2>2. QED
    BY <1>1, <2>1, FollowIs
<1>11. ASSUME NEW r \in Runs, Poll(r)
       PROVE  Goal
  <2>1. paid' = paid /\ (device' = device \/ device' = [device EXCEPT !.runs = @ \ {r}])
    BY <1>11 DEF Poll
  <2>2. [device EXCEPT !.runs = @ \ {r}]
           = [device EXCEPT !.runs = device.runs \ {r}, !.token = device.token]
    BY <1>0 DEF Device
  <2>3. device.runs \ {r} \in SUBSET device.runs
    OBVIOUS
  <2>4. QED
    BY <1>0, <1>1, <2>1, <2>2, <2>3, LessIs
<1>12. ASSUME NEW r \in Runs, CancelHere(r)
       PROVE  Goal
  <2>1. paid' = paid /\ (device' = device \/ device' = Drop({r}))
    BY <1>12 DEF CancelHere
  <2>2. QED
    BY <1>1, <2>1, DropIs
<1>13. ASSUME NEW token \in BOOLEAN, NEW another \in BOOLEAN, paid' = paid,
              \/ device' = [device EXCEPT !.token = token]
              \/ device' = [device EXCEPT !.token = token, !.renewed = another]
       PROVE  Goal
  <2>1. /\ device' \in Device /\ device'.at = device.at /\ device'.via = device.via
        /\ device'.runs = device.runs /\ device'.session = device.session
        /\ device'.step = device.step /\ device'.ids = device.ids /\ device'.answer = device.answer
    BY <1>0, <1>13 DEF Device
  <2>2. QED
    BY <1>13, <2>1 DEF Quietly, DeviceIs
<1>14. CASE SetToken \/ TokenRefused
  <2>1. CASE SetToken
    <3>1. PICK another \in BOOLEAN :
            device' = [device EXCEPT !.token = TRUE, !.renewed = another /\ device.at = "calling"]
      BY <2>1 DEF SetToken
    <3>2. (another /\ device.at = "calling") \in BOOLEAN /\ paid' = paid
      BY <2>1 DEF SetToken
    <3>3. QED
      BY <1>13, <3>1, <3>2
  <2>2. CASE TokenRefused
    BY <1>13, <2>2 DEF TokenRefused
  <2>3. QED
    BY <1>14, <2>1, <2>2
<1>15. CASE Disconnect
  BY <1>15, DropIs DEF Disconnect
<1>16. CASE Quit
  <2>1. paid' = paid /\ device' = NewDevice
    BY <1>16 DEF Quit
  <2>2. DeviceIs(NewDevice) /\ NewDevice.at = "idle"
    BY DEF NewDevice, DeviceIs, Device
  <2>3. QED
    BY <2>1, <2>2 DEF Quietly
<1>17. CASE OtherDevices \/ Gateway \/ UNCHANGED allVars
  BY <1>1, <1>17 DEF OtherDevices, Gateway, clientVars, allVars
<1> HIDE DEF Goal
<1>18. CASE Pump
  BY <1>3, <1>4, <1>5, <1>6, <1>7, <1>8, <1>18 DEF Pump, Goal
<1>19. CASE Network
  BY <1>5, <1>8, <1>19 DEF Network, Goal
<1>20. CASE User
  BY <1>9, <1>10, <1>11, <1>12, <1>14, <1>15, <1>16, <1>20 DEF User, Goal
<1>21. QED
  BY <1>17, <1>18, <1>19, <1>20 DEF ClientNext, Goal

\* A call is made with the step in hand, and counted for it.
LEMMA CallIs ==
    ASSUME DeviceIs(device), paid \in [Runs \X (1..MaxSteps) -> Nat], CallProvider
    PROVE  /\ DeviceIs(device') /\ device'.at = "calling" /\ device.at = "granted"
           /\ paid' \in [Runs \X (1..MaxSteps) -> Nat]
           /\ \A r \in Runs, i \in 1..MaxSteps :
                 paid'[<<r, i>>] = IF r = device.step.run /\ i = device.step.index
                               THEN paid[<<r, i>>] + 1 ELSE paid[<<r, i>>]
           /\ gen' = gen
<1>1. /\ device.at = "granted" /\ device' = [device EXCEPT !.at = "calling"] /\ gen' = gen
      /\ paid' = [paid EXCEPT ![<<device.step.run, device.step.index>>] = @ + 1]
  BY DEF CallProvider, vars
<1>2. device \in Device /\ device.via \in Here /\ device.step \in StepInHand
  BY <1>1 DEF DeviceIs
<1>3. /\ device' \in Device /\ device'.at = "calling" /\ device'.via = device.via
      /\ device'.runs = device.runs /\ device'.session = device.session
      /\ device'.step = device.step
  BY <1>1, <1>2 DEF Device
<1>4. DeviceIs(device')
  BY <1>2, <1>3 DEF DeviceIs
<1>5. device.step.run \in Runs /\ device.step.index \in 1..MaxSteps
  BY <1>2 DEF StepInHand
<1>6. \A r \in Runs, i \in 1..MaxSteps :
         paid'[<<r, i>>] = IF r = device.step.run /\ i = device.step.index
                       THEN paid[<<r, i>>] + 1 ELSE paid[<<r, i>>]
  BY <1>1, <1>5
<1>7. paid' \in [Runs \X (1..MaxSteps) -> Nat]
  BY <1>1, <1>5
<1>8. QED
  BY <1>1, <1>3, <1>4, <1>6, <1>7

\* Generations stay as short as the plans.
LEMMA RunsStayShort ==
    ASSUME TypeOK, AllOK, ShortRuns, [Next]_vars
    PROVE  ShortRuns'
<1> SUFFICES ASSUME NEW r \in Runs
             PROVE  DOMAIN gen'[r].steps \subseteq 1..MaxSteps
  BY DEF ShortRuns
<1>1. CASE Follows(r)
  BY <1>1 DEF Follows, MoreAttempts, ShortRuns
<1>2. ASSUME NEW k \in Keys, NEW x \in Sessions, NEW m \in Models, NEW p \in Plans,
             gen'[r] = CreateRun(k, m, x, p)
      PROVE  DOMAIN gen'[r].steps \subseteq 1..MaxSteps
  <2>1. DOMAIN gen'[r].steps = DOMAIN p
    BY <1>2, CreateRunOK
  <2>2. DOMAIN p = 1..Len(p) /\ Len(p) \in Nat /\ Len(p) <= MaxSteps /\ MaxSteps \in Nat
    BY PlansAssumption, HereAssumption, LenProperties
  <2>3. QED
    BY <2>1, <2>2
<1>3. QED
  BY <1>1, <1>2, FollowsOrCreated

\* What every state of the device, of the calls and of the store looks like, and
\* that the device works for the store by the store's own transactions only.
THEOREM ClientTyped == ClientSpec => [](TypeOK /\ AllOK /\ ClientOK)
<1>1. ClientInit => TypeOK /\ AllOK /\ ClientOK
  <2> SUFFICES ASSUME ClientInit PROVE TypeOK /\ AllOK /\ ClientOK
    OBVIOUS
  <2>1. TypeOK
    BY InitTyped DEF ClientInit
  <2>2. AllOK
    BY NoRunOK DEF ClientInit, Init, AllOK
  <2>3. DeviceIs(device)
    BY DEF ClientInit, NewDevice, DeviceIs, Device
  <2>4. paid \in [Runs \X (1..MaxSteps) -> Nat]
    BY DEF ClientInit
  <2>5. ShortRuns
    BY DEF ClientInit, Init, NoRun, ShortRuns
  <2>6. QED
    BY <2>1, <2>2, <2>3, <2>4, <2>5 DEF ClientOK
<1>2. TypeOK /\ AllOK /\ ClientOK /\ [ClientNext]_allVars => TypeOK' /\ AllOK' /\ ClientOK'
  <2> SUFFICES ASSUME TypeOK, AllOK, ClientOK, [ClientNext]_allVars
               PROVE  TypeOK' /\ AllOK' /\ ClientOK'
    OBVIOUS
  <2>1. [Next]_vars
    BY ClientStep DEF ClientOK
  <2>2. TypeOK' /\ AllOK' /\ ShortRuns'
    BY <2>1, TypeStep, AllOKStep, RunsStayShort DEF ClientOK
  <2>3. DeviceIs(device') /\ paid' \in [Runs \X (1..MaxSteps) -> Nat]
    BY ClientDevice, CallIs, ReceiveIs DEF ClientOK, Quietly
  <2>4. QED
    BY <2>2, <2>3 DEF ClientOK, DeviceIs
<1>3. QED
  BY <1>1, <1>2, PTL DEF ClientSpec

\* What each request of the device needs is there: a session for the runs it
\* follows and for a claim, the attempt of a step from the claim to the delivery
\* (pump, executeStep), and an answer or a failure when it delivers (deliver).
THEOREM ClientTypeCorrect == ClientSpec => []ClientTypeOK
<1>1. TypeOK /\ ClientOK => ClientTypeOK
  BY DEF ClientOK, ClientTypeOK
<1>2. QED
  BY <1>1, ClientTyped, PTL

\* Whatever this device and the others do, and whatever is lost on the way, the
\* store only makes its own steps: what StoreProofs proves of Spec holds here.
THEOREM DevicesUseTheStore == ClientSpec => Spec
<1>1. ClientInit => Init
  BY DEF ClientInit
<1>2. ClientOK /\ [ClientNext]_allVars => [Next]_vars
  BY ClientStep DEF ClientOK
<1>3. QED
  BY <1>1, <1>2, ClientTyped, PTL DEF ClientSpec, Spec

\* Also with devices that lose requests and answers and are told to forget their
\* runs, a generation keeps what the user was promised.
THEOREM DevicesKeepContract == ClientSpec => ImplementsContract
  BY DevicesUseTheStore, ContractIsKept

-----------------------------------------------------------------------------
\* Calls and attempts.

\* A generation that is not there yet was never paid for, a step is paid for at
\* most once per attempt, and the attempt that is in hand, not called yet, is
\* not: the generation has not been taken back before it.
PaidOnce ==
    /\ \A r \in Runs, i \in 1..MaxSteps : gen[r].status = "absent" => paid[<<r, i>>] = 0
    /\ \A r \in Runs : \A i \in DOMAIN gen[r].steps : paid[<<r, i>>] <= gen[r].steps[i].attempt
    /\ device.at = "granted" =>
          LET s == device.step IN
          /\ gen[s.run].status # "absent"
          /\ paid[<<s.run, s.index>>] < s.attempt
          /\ s.index \in DOMAIN gen[s.run].steps => s.attempt <= gen[s.run].steps[s.index].attempt

\* A call is made at most once per attempt: the attempts of the store only grow,
\* and the pump calls once for the attempt it was handed.
LEMMA PaidOnceStep ==
    ASSUME TypeOK, AllOK, ClientOK, PaidOnce, [ClientNext]_allVars
    PROVE  PaidOnce'
<1>1. [Next]_vars /\ TypeOK'
  BY ClientStep, TypeStep DEF ClientOK
<1>2. \A r \in Runs : \A i \in DOMAIN gen[r].steps : i \in 1..MaxSteps /\ gen[r].steps[i].attempt \in Nat
  <2>1. \A s \in Step : s.attempt \in Nat
    BY AttemptsAssumption DEF Step
  <2>2. QED
    BY <2>1, StepsDomain DEF TypeOK, ClientOK, ShortRuns
<1>3. \A r \in Runs : \A i \in DOMAIN gen'[r].steps : i \in 1..MaxSteps /\ gen'[r].steps[i].attempt \in Nat
  <2>1. \A s \in Step : s.attempt \in Nat
    BY AttemptsAssumption DEF Step
  <2>2. \A r \in Runs : gen'[r] \in Run
    BY <1>1 DEF TypeOK
  <2>3. \A r \in Runs : DOMAIN gen'[r].steps \subseteq 1..MaxSteps
    BY <1>1, RunsStayShort DEF ClientOK, ShortRuns
  <2>4. QED
    BY <2>1, <2>2, <2>3, StepsDomain
<1>4. \A r \in Runs, i \in 1..MaxSteps : paid[<<r, i>>] \in Nat
  BY DEF ClientOK
<1>5. \A r \in Runs : gen'[r].status = "absent" => gen[r].status = "absent"
  <2>1. \A k \in Keys, x \in Sessions, m \in Models, p \in Plans :
           CreateRun(k, m, x, p).status # "absent"
    BY CreateRunOK DEF Exists
  <2>2. QED
    BY <1>1, <2>1, FollowsOrCreated DEF Follows, MoreAttempts
\* As long as nothing more is paid, attempts cover what was.
<1>6. ASSUME paid' = paid
      PROVE  /\ \A r \in Runs, i \in 1..MaxSteps : gen'[r].status = "absent" => paid'[<<r, i>>] = 0
             /\ \A r \in Runs : \A i \in DOMAIN gen'[r].steps : paid'[<<r, i>>] <= gen'[r].steps[i].attempt
  <2>1. \A r \in Runs, i \in 1..MaxSteps : gen'[r].status = "absent" => paid'[<<r, i>>] = 0
    BY <1>5, <1>6 DEF PaidOnce
  <2>2. ASSUME NEW r \in Runs, NEW i \in DOMAIN gen'[r].steps
        PROVE  paid'[<<r, i>>] <= gen'[r].steps[i].attempt
    <3>1. CASE Follows(r)
      <4>1. i \in DOMAIN gen[r].steps /\ gen'[r].steps[i].attempt >= gen[r].steps[i].attempt
        BY <3>1 DEF Follows, MoreAttempts
      <4>2. paid[<<r, i>>] <= gen[r].steps[i].attempt
        BY <4>1 DEF PaidOnce
      <4>3. QED
        BY <1>2, <1>3, <1>4, <1>6, <4>1, <4>2
    <3>2. CASE gen[r].status = "absent"
      <4>1. paid[<<r, i>>] = 0
        BY <1>3, <3>2 DEF PaidOnce
      <4>2. QED
        BY <1>3, <1>6, <4>1
    <3>3. QED
      BY <1>1, <3>1, <3>2, FollowsOrCreated
  <2>3. QED
    BY <2>1, <2>2
<1>7. CASE CallProvider
  <2> DEFINE s == device.step
  <2>1. /\ device.at = "granted" /\ device'.at = "calling" /\ gen' = gen
        /\ \A r \in Runs, i \in 1..MaxSteps :
              paid'[<<r, i>>] = IF r = s.run /\ i = s.index THEN paid[<<r, i>>] + 1 ELSE paid[<<r, i>>]
    BY <1>7, CallIs DEF ClientOK
  <2>2. /\ s.run \in Runs /\ s.index \in 1..MaxSteps /\ s.attempt \in 1..MaxStepAttempts
    BY <2>1 DEF ClientOK, DeviceIs, StepInHand
  <2>3. /\ gen[s.run].status # "absent" /\ paid[<<s.run, s.index>>] < s.attempt
        /\ s.index \in DOMAIN gen[s.run].steps => s.attempt <= gen[s.run].steps[s.index].attempt
    BY <2>1 DEF PaidOnce
  <2> HIDE DEF s
  <2>4. \A r \in Runs, i \in 1..MaxSteps : gen'[r].status = "absent" => paid'[<<r, i>>] = 0
    BY <2>1, <2>3 DEF PaidOnce
  <2>5. ASSUME NEW r \in Runs, NEW i \in DOMAIN gen'[r].steps
        PROVE  paid'[<<r, i>>] <= gen'[r].steps[i].attempt
    <3>1. i \in DOMAIN gen[r].steps /\ i \in 1..MaxSteps /\ gen[r].steps[i].attempt \in Nat
      BY <1>2, <2>1
    <3>2. CASE r = s.run /\ i = s.index
      <4>1. s.attempt \in Nat /\ paid[<<r, i>>] \in Nat
        BY <1>4, <2>2, <3>1, AttemptsAssumption
      <4>2. QED
        BY <2>1, <2>3, <3>1, <3>2, <4>1
    <3>3. CASE ~(r = s.run /\ i = s.index)
      BY <2>1, <3>1, <3>3 DEF PaidOnce
    <3>4. QED
      BY <3>2, <3>3
  <2>6. QED
    BY <2>1, <2>4, <2>5 DEF PaidOnce
<1>8. ASSUME NEW r \in Runs, NEW i \in DOMAIN gen[r].steps,
             NEW earlier \in SUBSET (device.ids \ {r}), ReceiveStep(r, i, earlier)
      PROVE  PaidOnce'
  <2>1. /\ paid' = paid
        /\ device'.step = [run |-> r, index |-> i, attempt |-> gen[r].steps[i].attempt + 1]
        /\ gen'[r].steps[i].attempt = gen[r].steps[i].attempt + 1
        /\ gen[r].status # "absent"
    BY <1>8, ReceiveIs DEF ClientOK
  <2>2. paid[<<r, i>>] <= gen[r].steps[i].attempt
    BY DEF PaidOnce
  <2>3. /\ device'.step.run = r /\ device'.step.index = i
        /\ device'.step.attempt = gen[r].steps[i].attempt + 1
    BY <2>1
  <2>4. /\ gen'[device'.step.run].status # "absent"
        /\ paid'[<<device'.step.run, device'.step.index>>] < device'.step.attempt
        /\ device'.step.attempt <= gen'[device'.step.run].steps[device'.step.index].attempt
    BY <1>2, <1>4, <1>5, <2>1, <2>2, <2>3
  <2>5. QED
    BY <1>6, <2>1, <2>4 DEF PaidOnce
<1>9. CASE paid' = paid /\ Quietly(device')
  <2>1. ASSUME device'.at = "granted"
        PROVE  LET s == device'.step IN
               /\ gen'[s.run].status # "absent"
               /\ paid'[<<s.run, s.index>>] < s.attempt
               /\ s.index \in DOMAIN gen'[s.run].steps => s.attempt <= gen'[s.run].steps[s.index].attempt
    <3> DEFINE s == device.step
    <3>1. device.at = "granted" /\ device'.step = s
      BY <1>9, <2>1 DEF Quietly
    <3>2. s.run \in Runs /\ s.index \in 1..MaxSteps /\ s.attempt \in 1..MaxStepAttempts
      BY <3>1 DEF ClientOK, DeviceIs, StepInHand
    <3>3. /\ gen[s.run].status # "absent" /\ paid[<<s.run, s.index>>] < s.attempt
          /\ s.index \in DOMAIN gen[s.run].steps => s.attempt <= gen[s.run].steps[s.index].attempt
      BY <3>1 DEF PaidOnce
    <3> HIDE DEF s
    <3>4. Follows(s.run)
      BY <1>1, <3>2, <3>3, FollowsOrCreated
    <3>5. s.index \in DOMAIN gen'[s.run].steps =>
             /\ s.index \in DOMAIN gen[s.run].steps
             /\ gen'[s.run].steps[s.index].attempt >= gen[s.run].steps[s.index].attempt
      BY <3>4 DEF Follows, MoreAttempts
    <3>6. s.attempt \in Nat
      BY <3>2, AttemptsAssumption
    <3>7. s.index \in DOMAIN gen'[s.run].steps => s.attempt <= gen'[s.run].steps[s.index].attempt
      BY <1>2, <1>3, <3>2, <3>3, <3>5, <3>6
    <3>8. QED
      BY <1>5, <1>9, <3>1, <3>2, <3>3, <3>7
  <2>2. QED
    BY <1>6, <1>9, <2>1 DEF PaidOnce
<1>10. QED
  BY <1>7, <1>8, <1>9, ClientDevice DEF ClientOK

\* Whatever is lost, delayed, aborted or taken away, this device calls the
\* provider at most once per attempt it was handed, and so, while a step has no
\* answer, at most once more than the user consented or the provider refused
\* (README of the plugin; pump, executeStep and deliver of the client).
THEOREM EachCallIsPaidWithConsent == ClientSpec => []PaidWithConsent
<1>1. ClientInit => PaidOnce
  BY DEF ClientInit, Init, NoRun, NewDevice, PaidOnce
<1>2. /\ TypeOK /\ AllOK /\ ClientOK /\ PaidOnce /\ [ClientNext]_allVars
      => PaidOnce'
  BY PaidOnceStep
<1>3. TypeOK /\ ClientOK /\ PaidOnce /\ NoSilentRetry => PaidWithConsent
  <2> SUFFICES ASSUME TypeOK, ClientOK, PaidOnce, NoSilentRetry,
                      NEW r \in Runs, NEW i \in DOMAIN gen[r].steps
               PROVE  /\ paid[<<r, i>>] <= gen[r].steps[i].attempt
                      /\ gen[r].steps[i].status \in {"running", "uncertain", "paused"} =>
                            paid[<<r, i>>] <= 1 + grants[r]
    BY DEF PaidWithConsent
  <2>1. gen[r].steps[i] \in Step /\ grants[r] \in Nat
    BY StepsDomain DEF TypeOK
  <2>2. gen[r].steps[i].attempt \in Nat
    BY <2>1, AttemptsAssumption DEF Step
  <2>3. paid[<<r, i>>] \in Nat
    BY DEF ClientOK, ShortRuns
  <2>4. paid[<<r, i>>] <= gen[r].steps[i].attempt
    BY DEF PaidOnce
  <2>5. gen[r].steps[i].status \in {"running", "uncertain", "paused"} =>
           gen[r].steps[i].attempt <= 1 + grants[r]
    BY DEF NoSilentRetry
  <2>6. QED
    BY <2>1, <2>2, <2>3, <2>4, <2>5
<1>4. ClientSpec => []NoSilentRetry
  BY DevicesUseTheStore, NothingRetriedSilently, PTL
<1>5. QED
  BY <1>1, <1>2, <1>3, <1>4, ClientTyped, PTL DEF ClientSpec
=============================================================================
