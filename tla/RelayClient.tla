-------------------------------- MODULE RelayClient -------------------------------
(*****************************************************************************)
(* EnterpriseRelayClient of the plugin, on one device, with the durable      *)
(* store it works for.  It follows the generations that were started or      *)
(* resumed on this device: its pump claims a step, calls the provider and    *)
(* delivers the answer, one step at a time, while the user starts, resumes,  *)
(* cancels, disconnects or quits.  Any request to the gateway or its answer  *)
(* may be lost.  The other devices of the user are any relays at all.        *)
(*****************************************************************************)
EXTENDS GenerationStore

CONSTANTS
    Here,       \* the sessions this device creates, one after the other
    MaxSteps    \* bound on the steps of a plan

ASSUME HereAssumption == /\ Here \subseteq Sessions
                         /\ MaxSteps \in Nat
                         /\ \A p \in Plans : Len(p) <= MaxSteps

VARIABLES
    device,     \* the client of this device
    paid        \* history: the calls made from here for each step

clientVars == <<device, paid>>
allVars == <<vars, clientVars>>

\* How a call fails: the token is refused, the call is (access_denied,
\* rate_limited), or its outcome is not known (any other code).
Failures == {"auth_required", "refused", "unknown"}

StepInHand == [run : Runs, index : 1..MaxSteps, attempt : 1..MaxStepAttempts]

Device ==
    [token : BOOLEAN,                 \* hasToken
     renewed : BOOLEAN,               \* it is not the one the call was sent with
     session : Here \cup {None},       \* this.session
     runs : SUBSET Runs,               \* this.runs
     at : {"idle", "turn", "claiming", "granted", "calling", "delivering"},
     via : Here \cup {None},           \* the session of the claim or the step
     ids : SUBSET Runs,                \* run_ids of the claim
     step : StepInHand \cup {None},
     answer : Results \cup Failures \cup {None}]

NewDevice == [token |-> FALSE, renewed |-> FALSE, session |-> None, runs |-> {}, at |-> "idle",
              via |-> None, ids |-> {}, step |-> None, answer |-> None]

\* What each request of the client needs is there when it is made: a session of
\* this device for the runs it follows, the session and the runs of a claim, the
\* session and the attempt of a step from the claim to the delivery, and an answer
\* or a failure to deliver.
DeviceIs(d) ==
    /\ d \in Device
    /\ d.runs # {} => d.session \in Here
    /\ d.at = "claiming" => d.via \in Here /\ d.ids # {}
    /\ d.at \in {"granted", "calling", "delivering"} => d.via \in Here /\ d.step \in StepInHand
    /\ d.at = "delivering" => d.answer \in Results \cup Failures

ClientTypeOK == /\ TypeOK
                /\ DeviceIs(device)
                /\ paid \in [Runs \X (1..MaxSteps) -> Nat]

ClientInit == /\ Init
              /\ device = NewDevice
              /\ paid = [s \in Runs \X (1..MaxSteps) |-> 0]

-----------------------------------------------------------------------------
\* The pump ----------------------------------------------------------------

\* The loop begins again, with the runs that are left.
Turn(runs) == [device EXCEPT !.at = "turn", !.runs = runs, !.via = None, !.ids = {},
                             !.step = None, !.answer = None, !.renewed = FALSE]

\* kick, when a run was added.
Follow(r) == [device EXCEPT !.runs = @ \cup {r}, !.at = IF @ = "idle" THEN "turn" ELSE @]

\* Mutant of Waits: a generation in doubt is still waited for.
MutantWaits(g) == g.status \notin Terminal

\* Neither TERMINAL nor PAUSED.
Waits(g) == g.status \in {"waiting_relay", "running"}

\* The device knows when its session ends.  Without its token the pump stops,
\* and the runs are still followed.
SendClaim ==
    /\ device.at = "turn"
    /\ \/ /\ device.runs = {} \/ ~device.token
          /\ device' = [device EXCEPT !.at = "idle"]
       \/ /\ device.runs # {} /\ device.token /\ LiveSession(device.session)
          /\ device' = [device EXCEPT !.at = "claiming", !.via = device.session,
                                      !.ids = device.runs]
       \/ /\ device.runs # {} /\ device.token /\ ~LiveSession(device.session)
          /\ device' = [device EXCEPT !.at = "idle", !.runs = {}]
    /\ UNCHANGED <<vars, paid>>

ServerClaims(r, i, earlier) ==
    /\ device.at = "claiming" /\ r \in device.ids
    /\ ClaimOne(device.via, device.ids, r, i, earlier)
    /\ UNCHANGED paid

ReceiveStep(r, i, earlier) ==
    /\ ServerClaims(r, i, earlier)
    /\ device' = [device EXCEPT !.at = "granted", !.ids = {},
                     !.step = [run |-> r, index |-> i, attempt |-> gen'[r].steps[i].attempt]]

\* No step: getGeneration of every run that is followed.
ReceiveNothing ==
    /\ device.at = "claiming"
    /\ ClaimNothing(device.via, device.ids)
    /\ device' = Turn({r \in device.runs : Waits(gen'[r])})
    /\ UNCHANGED paid

\* The gateway refuses the claim, or is in maintenance; or a getGeneration fails.
ClaimRefused ==
    /\ device.at = "claiming"
    /\ device' = Turn({})
    /\ UNCHANGED <<vars, paid>>

\* The claim or its answer is lost.
ClaimLost ==
    /\ device.at = "claiming"
    /\ \/ UNCHANGED vars
       \/ ClaimNothing(device.via, device.ids)
       \/ \E r \in device.ids : \E i \in DOMAIN gen[r].steps, earlier \in SUBSET (device.ids \ {r}) :
              ClaimOne(device.via, device.ids, r, i, earlier)
    /\ device' = Turn(device.runs)
    /\ UNCHANGED paid

\* executeStep -------------------------------------------------------------

Followed == device.step.run \in device.runs

CallProvider ==
    /\ device.at = "granted" /\ Followed /\ device.token
    /\ device' = [device EXCEPT !.at = "calling"]
    /\ paid' = [paid EXCEPT ![<<device.step.run, device.step.index>>] = @ + 1]
    /\ UNCHANGED vars

\* The run was dropped meanwhile, or there is no token left to call with.
SkipStep ==
    /\ device.at = "granted"
    /\ \/ ~Followed /\ device' = Turn(device.runs)
       \/ /\ Followed /\ ~device.token
          /\ device' = [device EXCEPT !.at = "delivering", !.answer = "auth_required"]
    /\ UNCHANGED <<vars, paid>>

\* complete returns, fails, or is cut off by its timeout.  A refused token is
\* cleared, unless another one took its place since the call was sent.
ProviderAnswers(answer) ==
    /\ device.at = "calling"
    /\ LET next == IF Followed THEN [device EXCEPT !.at = "delivering", !.answer = answer]
                   ELSE Turn(device.runs)
       IN device' = [next EXCEPT !.token = @ /\ (answer # "auth_required" \/ device.renewed),
                                 !.renewed = FALSE]
    /\ UNCHANGED <<vars, paid>>

\* The heartbeat keeps the lease; it is refused when the step was taken away,
\* which aborts the call.
Heartbeat ==
    /\ device.at \in {"calling", "delivering"}
    /\ StepHeartbeat(device.step.run, device.step.index, device.via, device.step.attempt)
    /\ UNCHANGED clientVars

Fenced ==
    /\ device.at = "calling"
    /\ ~RequireStep(device.step.run, device.step.index, device.via, device.step.attempt)
    /\ device' = Turn(device.runs \ {device.step.run})
    /\ UNCHANGED <<vars, paid>>

\* deliver -----------------------------------------------------------------

\* The request reaches the gateway, which accepts it; one on its way is not
\* stopped when the run is dropped.
ServerAccepts ==
    LET s == device.step IN
    /\ device.at = "delivering"
    /\ \/ /\ device.answer \in Results
          /\ \E fits \in BOOLEAN :
                SubmitResult(s.run, s.index, device.via, s.attempt, device.answer, fits)
       \/ /\ device.answer \notin Results
          /\ SubmitError(s.run, s.index, device.via, s.attempt, device.answer # "unknown")
    /\ UNCHANGED paid

\* The run is no longer followed; after auth_required none is.
GiveUp == device' = Turn(IF device.answer = "auth_required" THEN {}
                         ELSE device.runs \ {device.step.run})

Delivered ==
    /\ ServerAccepts
    /\ \/ device.answer \in Results /\ device' = Turn(device.runs)
       \/ device.answer \notin Results /\ GiveUp

\* Mutant of DeliveryLost: the step is done again.
MutantDeliveryLost ==
    /\ ServerAccepts
    /\ device' = [device EXCEPT !.at = "granted", !.answer = None]

\* The acknowledgement is lost: the same body is sent again.
DeliveryLost == ServerAccepts /\ UNCHANGED device

\* The gateway refuses for good, the session is over, or the run was dropped.
DeliveryRefused ==
    /\ device.at = "delivering"
    /\ GiveUp
    /\ UNCHANGED <<vars, paid>>

\* The user of this device: a request is answered, or its answer is lost, before
\* the user does the next thing here ------------------------------------------

\* createSession: there is none, or the one there is ends within a minute.
Connect(x, ms) ==
    /\ x \in Here /\ device.token
    /\ CreateRelaySession(x, ms)
    /\ device' = [device EXCEPT !.session = x]
    /\ UNCHANGED paid

\* startGeneration, after createSession; the answer may be lost.
Start(r, k, m, p) ==
    /\ device.session # None /\ device.token
    /\ SubmitGeneration(r, k, device.session, m, p)
    /\ device' \in {device, IF Waits(gen'[r]) THEN Follow(r) ELSE device}
    /\ UNCHANGED paid

\* resume, with the user's consent to repeat a call in doubt or without it.
ResumeHere(r, consent) ==
    /\ device.session # None /\ device.token
    /\ ResumeGeneration(r, device.session, consent)
    /\ device' \in {device, Follow(r)}
    /\ UNCHANGED paid

\* waitForGeneration looks again.
Poll(r) ==
    /\ r \in device.runs
    /\ GenerationStatus(r)
    /\ device' = IF Waits(gen'[r]) THEN device ELSE [device EXCEPT !.runs = @ \ {r}]
    /\ UNCHANGED paid

\* The call in progress is aborted with the run it is for.
Drop(runs) == IF device.at = "calling" /\ device.step.run \in runs
              THEN Turn(device.runs \ runs) ELSE [device EXCEPT !.runs = @ \ runs]

CancelHere(r) ==
    /\ CancelGeneration(r) \/ (gen[r].status \in Terminal /\ UNCHANGED vars)
    /\ device' \in {device, Drop({r})}
    /\ UNCHANGED paid

\* setToken: another token, or the same one again.
SetToken ==
    /\ \E another \in BOOLEAN :
          device' = [device EXCEPT !.token = TRUE,
                                   !.renewed = another /\ device.at = "calling"]
    /\ UNCHANGED <<vars, paid>>

\* setToken without one: whatever call is in progress is aborted.
Disconnect ==
    /\ device' = [Drop(Runs) EXCEPT !.token = FALSE]
    /\ UNCHANGED <<vars, paid>>

\* listModels learns that the token is not valid any more.
TokenRefused ==
    /\ device.token
    /\ device' = [device EXCEPT !.token = FALSE]
    /\ UNCHANGED <<vars, paid>>

\* dispose revokes the session if it can; a crash of Obsidian does not.
Quit ==
    /\ device.session # None
    /\ RevokeRelay(device.session) \/ UNCHANGED vars
    /\ device' = NewDevice
    /\ UNCHANGED paid

-----------------------------------------------------------------------------
Pump ==
    \/ SendClaim
    \/ \E r \in Runs : \E i \in DOMAIN gen[r].steps, earlier \in SUBSET (device.ids \ {r}) :
           ReceiveStep(r, i, earlier)
    \/ ReceiveNothing
    \/ ClaimRefused
    \/ CallProvider
    \/ SkipStep
    \/ \E answer \in Results \cup Failures : ProviderAnswers(answer)
    \/ Delivered
    \/ DeliveryRefused

Network == ClaimLost \/ DeliveryLost \/ Heartbeat \/ Fenced

User ==
    \/ \E x \in Sessions, ms \in SUBSET Models : Connect(x, ms)
    \/ \E r \in Runs : \/ \E k \in Keys, m \in Models, p \in Plans : Start(r, k, m, p)
                       \/ \E consent \in BOOLEAN : ResumeHere(r, consent)
                       \/ Poll(r)
                       \/ CancelHere(r)
    \/ SetToken
    \/ Disconnect
    \/ TokenRefused
    \/ Quit

\* The other devices: they resume, claim and answer with their own sessions.
OtherDevices ==
    /\ \E x \in Sessions \ Here :
          \/ \E ms \in SUBSET Models : CreateRelaySession(x, ms)
          \/ RevokeRelay(x)
          \/ \E r \in Runs :
                \/ \E consent \in BOOLEAN : ResumeGeneration(r, x, consent)
                \/ \E i \in DOMAIN gen[r].steps :
                      \/ ClaimOne(x, {r}, r, i, {})
                      \/ \E a \in 1..MaxStepAttempts :
                            \/ StepHeartbeat(r, i, x, a)
                            \/ \E answer \in Results, fits \in BOOLEAN :
                                  SubmitResult(r, i, x, a, answer, fits)
                            \/ \E refused \in BOOLEAN : SubmitError(r, i, x, a, refused)
    /\ UNCHANGED clientVars

Gateway == (Maintain \/ ListGenerations \/ Clock) /\ UNCHANGED clientVars

ClientNext == Pump \/ Network \/ User \/ OtherDevices \/ Gateway

ClientSpec == ClientInit /\ [][ClientNext]_allVars

\* Some request to the gateway is answered in the end if the pump repeats it.
Answered == \/ ReceiveNothing
            \/ ClaimRefused
            \/ Delivered
            \/ DeliveryRefused
            \/ \E r \in Runs : \E i \in DOMAIN gen[r].steps, earlier \in SUBSET (device.ids \ {r}) :
                   ReceiveStep(r, i, earlier)

\* The pump runs, requests and calls end (by their timeouts), and the gateway
\* is maintained.  Nothing is assumed of the user and of the other devices.
FairClientSpec == ClientSpec /\ WF_allVars(Pump) /\ WF_allVars(Maintain /\ UNCHANGED clientVars)

-----------------------------------------------------------------------------
\* "An interrupted call with an unknown outcome requires explicit confirmation
\* before another model call" (README of the plugin): whatever is lost, delayed,
\* aborted or taken away, this device calls the provider for a step at most once
\* per attempt it was handed, and so, before the step has its answer, at most
\* once more than the user consented or the provider refused.
PaidWithConsent ==
    \A r \in Runs : \A i \in DOMAIN gen[r].steps :
        /\ paid[<<r, i>>] <= gen[r].steps[i].attempt
        /\ gen[r].steps[i].status \in {"running", "uncertain", "paused"} =>
               paid[<<r, i>>] <= 1 + grants[r]

\* No run is followed for ever: unless the pump stops, it lets go of a run that
\* is finished, paused or in doubt, whose session is over, or that the gateway
\* refuses.  (The pump stops when the token is refused, and a new token alone
\* does not start it again.)
RunsAreLetGo ==
    /\ SF_allVars(Answered)
    /\ \A r \in Runs, i \in 1..MaxSteps : WF_allVars(LeaseLapses(r, i) /\ UNCHANGED clientVars)
    => \A r \in Runs : r \in device.runs ~> r \notin device.runs \/ device.at = "idle"
=============================================================================
