------------------------ MODULE TokenRotationProofs ------------------------
(***************************************************************************)
(* Proofs about TokenRotation, for any number of devices, containers,      *)
(* rotations, failed plays and roll-outs, as long as the image is on the   *)
(* host.                                                                   *)
(***************************************************************************)
EXTENDS TokenRotation, TLAPS

-----------------------------------------------------------------------------
(* The inductive invariant, in parts.                                      *)

(* The tokens in the runbook depend on the place in it alone.              *)
Runbook ==
  /\ newest \in Nat /\ newest >= 1
  /\ step \in {"steady", "edited", "deployed", "shipped", "retiring"}
  /\ step # "steady" => newest > 1
  /\ wanted = IF step \in {"steady", "retiring"} THEN {newest} ELSE {newest - 1, newest}
  /\ shipped = IF step \in {"edited", "deployed"} THEN newest - 1 ELSE newest

(* The tokens listed before the operator last edited the list.             *)
Before ==
  IF step = "edited" THEN {newest - 1}
  ELSE IF step = "retiring" THEN {newest - 1, newest}
  ELSE wanted

(* Every container and the file hold the list as it was or as it is.       *)
OldOrNew ==
  /\ tokensFile \in {Before, wanted}
  /\ settings \in [Containers -> {Before, wanted}]
  /\ todo \subseteq Containers

(* How far the play is tells what has the new list already.                *)
PlayProgress ==
  /\ image = TRUE
  /\ play \in {"none", "render", "pull", "up", "starting", "migrate", "handlers", "succeeded", "failed"}
  /\ play # "none" => step \in {"edited", "retiring"}
  /\ play \notin {"none", "render", "failed"} => tokensFile = wanted
  /\ play = "starting" => \A c \in Containers \ todo : settings[c] = wanted
  /\ play \in {"migrate", "handlers", "succeeded"} => \A c \in Containers : settings[c] = wanted

(* A device has a token that was shipped; one that pauses has a token that *)
(* is no longer listed.                                                    *)
DevicesFollow ==
  /\ token \in [Devices -> Nat]
  /\ \A d \in Devices : token[d] <= shipped
  /\ paused \subseteq Devices
  /\ \A d \in paused : token[d] \notin wanted

IInv == Runbook /\ OldOrNew /\ PlayProgress /\ DevicesFollow
-----------------------------------------------------------------------------
(* When nothing is being changed, every container holds the list.          *)
LEMMA SettledHoldTheList ==
  ASSUME Runbook, OldOrNew, step \in {"steady", "deployed", "shipped"}
  PROVE  tokensFile = wanted /\ \A c \in Containers : settings[c] = wanted
  BY DEF Runbook, OldOrNew, Before

(* A container that refuses a token that was shipped refuses a token that  *)
(* is not listed: the list never loses a token in use while it is rolled.  *)
LEMMA RefusedIsUnlisted ==
  ASSUME IInv, NEW d \in Devices, NEW c \in Containers, ~Accepts(c, token[d])
  PROVE  token[d] \notin wanted
<1>1. token[d] \notin settings[c] /\ settings[c] \in {Before, wanted}
  BY DEF IInv, OldOrNew, Accepts
<1>2. CASE settings[c] = wanted
  BY <1>1, <1>2
<1>3. CASE settings[c] = Before
  <2>1. token[d] \in Nat /\ token[d] <= shipped /\ newest \in Nat
    BY DEF IInv, DevicesFollow, Runbook
  <2>2. CASE step = "edited"
    BY <1>1, <1>3, <2>1, <2>2 DEF IInv, Runbook, Before
  <2>3. CASE step # "edited"
    BY <1>1, <1>3, <2>1, <2>3 DEF IInv, Runbook, Before
  <2>4. QED
    BY <2>2, <2>3
<1>4. QED
  BY <1>1, <1>2, <1>3

LEMMA InitHolds ==
  ASSUME ~ImageMayBeMissing, Init
  PROVE  IInv
  BY DEF Init, IInv, Runbook, Before, OldOrNew, PlayProgress, DevicesFollow

LEMMA StutterKeeps ==
  ASSUME IInv, UNCHANGED vars
  PROVE  IInv'
  BY DEF IInv, Runbook, Before, OldOrNew, PlayProgress, DevicesFollow, vars,
     operatorVars, deviceVars, playVars
-----------------------------------------------------------------------------
(* Each action keeps the invariant.                                        *)

LEMMA OperatorKeeps ==
  ASSUME IInv, GenerateToken \/ RunPlay \/ PlaySucceeded \/ Ship \/ RetireOld
  PROVE  IInv'
<1> USE DEF operatorVars, deviceVars, playVars
<1>0. Runbook /\ OldOrNew /\ PlayProgress /\ DevicesFollow
  BY DEF IInv
<1>1. CASE GenerateToken
  <2>0. tokensFile = wanted /\ \A c \in Containers : settings[c] = wanted
    BY <1>0, <1>1, SettledHoldTheList DEF GenerateToken
  <2>a. play = "none" /\ wanted = {newest} /\ newest \in Nat /\ newest >= 1 /\ shipped = newest
    BY <1>0, <1>1 DEF GenerateToken, PlayProgress, Runbook
  <2>b. Before' = {newest} /\ wanted' = {newest, newest + 1} /\ newest' = newest + 1 /\ step' = "edited"
    BY <1>1, <2>a DEF GenerateToken, Before
  <2>1. Runbook'
    BY <1>1, <2>a, <2>b DEF GenerateToken, Runbook
  <2>2. OldOrNew'
    BY <1>0, <1>1, <2>0, <2>a, <2>b DEF GenerateToken, OldOrNew
  <2>3. PlayProgress'
    BY <1>0, <1>1, <2>a DEF GenerateToken, PlayProgress
  <2>4. DevicesFollow'
    BY <1>0, <1>1, <2>a, <2>b DEF GenerateToken, DevicesFollow
  <2>5. QED
    BY <2>1, <2>2, <2>3, <2>4 DEF IInv
<1>2. CASE RunPlay
  BY <1>0, <1>2 DEF RunPlay, IInv, Runbook, Before, OldOrNew, PlayProgress, DevicesFollow
<1>3. CASE PlaySucceeded
  <2>0. tokensFile = wanted /\ \A c \in Containers : settings[c] = wanted
    BY <1>0, <1>3 DEF PlaySucceeded, PlayProgress
  <2>a. /\ \/ step = "edited" /\ step' = "deployed"
           \/ step = "retiring" /\ step' = "steady"
        /\ wanted' = wanted /\ Before' = wanted
    BY <1>0, <1>3 DEF PlaySucceeded, PlayProgress, Before
  <2>1. Runbook'
    BY <1>0, <1>3, <2>a DEF PlaySucceeded, Runbook
  <2>2. OldOrNew'
    BY <1>0, <1>3, <2>0, <2>a DEF PlaySucceeded, OldOrNew
  <2>3. PlayProgress'
    BY <1>0, <1>3 DEF PlaySucceeded, PlayProgress
  <2>4. DevicesFollow'
    BY <1>0, <1>3 DEF PlaySucceeded, DevicesFollow
  <2>5. QED
    BY <2>1, <2>2, <2>3, <2>4 DEF IInv
<1>4. CASE Ship
  BY <1>0, <1>4 DEF Ship, IInv, Runbook, Before, OldOrNew, PlayProgress, DevicesFollow
<1>5. CASE RetireOld
  <2>0. tokensFile = wanted /\ \A c \in Containers : settings[c] = wanted
    BY <1>0, <1>5, SettledHoldTheList DEF RetireOld
  <2>a. Before' = wanted /\ wanted' = {newest} /\ wanted' \subseteq wanted
    BY <1>0, <1>5 DEF RetireOld, Runbook, Before
  <2>1. Runbook'
    BY <1>0, <1>5 DEF RetireOld, Runbook
  <2>2. OldOrNew'
    BY <1>0, <1>5, <2>0, <2>a DEF RetireOld, OldOrNew
  <2>3. PlayProgress'
    BY <1>0, <1>5 DEF RetireOld, PlayProgress
  <2>4. DevicesFollow'
    BY <1>0, <1>5, <2>a DEF RetireOld, DevicesFollow
  <2>5. QED
    BY <2>1, <2>2, <2>3, <2>4 DEF IInv
<1>6. QED
  BY <1>1, <1>2, <1>3, <1>4, <1>5

LEMMA DeviceKeeps ==
  ASSUME IInv, NEW d \in Devices, UpdateDevice(d) \/ \E c \in Containers : Refuse(d, c)
  PROVE  IInv'
<1>0. Runbook /\ OldOrNew /\ PlayProgress /\ DevicesFollow
  BY DEF IInv
<1>1. /\ UNCHANGED <<operatorVars, playVars, tokensFile, todo, settings>>
      /\ Before' = Before
  BY DEF UpdateDevice, Refuse, operatorVars, playVars, Before
<1>2. Runbook' /\ OldOrNew' /\ PlayProgress'
  BY <1>0, <1>1 DEF Runbook, OldOrNew, PlayProgress, operatorVars, playVars
<1>3. CASE UpdateDevice(d)
  <2>1. DevicesFollow'
    BY <1>0, <1>1, <1>3 DEF UpdateDevice, DevicesFollow, Runbook, operatorVars
  <2>2. QED
    BY <1>2, <2>1 DEF IInv
<1>4. CASE \E c \in Containers : Refuse(d, c)
  <2>1. token[d] \notin wanted
    BY <1>4, RefusedIsUnlisted DEF Refuse
  <2>2. DevicesFollow'
    BY <1>0, <1>1, <1>4, <2>1 DEF Refuse, DevicesFollow, operatorVars
  <2>3. QED
    BY <1>2, <2>2 DEF IInv
<1>5. QED
  BY <1>3, <1>4

(* A container is replaced by compose, by the handler or by the workflow,  *)
(* and takes the list from the file.                                       *)
LEMMA RecreateKeeps ==
  ASSUME IInv, NEW c \in Containers, Recreate(c)
  PROVE  IInv'
<1>0. Runbook /\ OldOrNew /\ PlayProgress /\ DevicesFollow
  BY DEF IInv
<1>1. UNCHANGED <<operatorVars, deviceVars, playVars, tokensFile>> /\ Before' = Before
  BY DEF Recreate, operatorVars, Before
<1>2. Runbook' /\ DevicesFollow'
  BY <1>0, <1>1 DEF Runbook, DevicesFollow, operatorVars, deviceVars
<1>3. OldOrNew'
  BY <1>0, <1>1 DEF Recreate, OldOrNew, operatorVars
<1>4. PlayProgress'
  BY <1>0, <1>1 DEF Recreate, OldOrNew, PlayProgress, operatorVars, playVars
<1>5. QED
  BY <1>2, <1>3, <1>4 DEF IInv

LEMMA PlayKeeps ==
  ASSUME IInv,
         \/ RenderTokens \/ PullImage \/ StartStack \/ StackStarted
         \/ MigrateThenHandlers \/ HandlersDone \/ PlayFails \/ Roll
  PROVE  IInv'
<1> USE DEF operatorVars, deviceVars, playVars
<1>0. Runbook /\ OldOrNew /\ PlayProgress /\ DevicesFollow
  BY DEF IInv
<1>1. UNCHANGED <<operatorVars, deviceVars, settings>> /\ Before' = Before
  BY DEF RenderTokens, PullImage, StartStack, StackStarted, MigrateThenHandlers,
     HandlersDone, PlayFails, Roll, Before
<1>2. Runbook' /\ DevicesFollow'
  BY <1>0, <1>1 DEF Runbook, DevicesFollow
<1>3. OldOrNew'
  BY <1>0, <1>1 DEF OldOrNew, RenderTokens, PullImage, StartStack, StackStarted,
     MigrateThenHandlers, HandlersDone, PlayFails, Roll
<1>4. PlayProgress'
  <2>1. CASE RenderTokens
    BY <1>0, <1>1, <2>1 DEF RenderTokens, PlayProgress
  <2>2. CASE PullImage
    BY <1>0, <1>1, <2>2 DEF PullImage, PlayProgress
  <2>3. CASE StartStack
    BY <1>0, <1>1, <2>3 DEF StartStack, PlayProgress
  <2>4. CASE StackStarted
    BY <1>0, <1>1, <2>4 DEF StackStarted, PlayProgress
  <2>5. CASE MigrateThenHandlers
    BY <1>0, <1>1, <2>5 DEF MigrateThenHandlers, PlayProgress
  <2>6. CASE HandlersDone
    BY <1>0, <1>1, <2>6 DEF HandlersDone, PlayProgress
  <2>7. CASE PlayFails
    BY <1>0, <1>1, <2>7 DEF PlayFails, PlayProgress
  <2>8. CASE Roll
    BY <1>0, <1>1, <2>8 DEF Roll, PlayProgress
  <2>9. QED
    BY <2>1, <2>2, <2>3, <2>4, <2>5, <2>6, <2>7, <2>8
<1>5. QED
  BY <1>2, <1>3, <1>4 DEF IInv
-----------------------------------------------------------------------------
(* As long as the image is on the host, every reachable state has each     *)
(* container on the old or on the new list, the play where the containers  *)
(* say it is, and no device ahead of the runbook.                          *)
THEOREM RotationInvariance ==
  ASSUME ~ImageMayBeMissing
  PROVE  SafeSpec => []IInv
<1>1. Init => IInv
  BY InitHolds
<1>2. IInv /\ [Next]_vars => IInv'
  BY OperatorKeeps, DeviceKeeps, RecreateKeeps, PlayKeeps, StutterKeeps DEF Next
<1>3. QED
  BY <1>1, <1>2, PTL DEF SafeSpec

(* A device pauses only if it missed the window of a rotation.             *)
THEOREM OnlyLaggardsEverPause ==
  ASSUME ~ImageMayBeMissing
  PROVE  SafeSpec => []OnlyLaggardsPause
<1>1. IInv => OnlyLaggardsPause
  <2> SUFFICES ASSUME IInv, NEW d \in paused
               PROVE  token[d] < IF step = "shipped" THEN shipped - 1 ELSE shipped
    BY DEF OnlyLaggardsPause
  <2>1. token[d] \in Nat /\ token[d] <= shipped /\ token[d] \notin wanted
    BY DEF IInv, DevicesFollow
  <2>2. QED
    BY <2>1 DEF IInv, Runbook
<1>2. QED
  BY <1>1, RotationInvariance, PTL

(* Once the runbook is through, a token it no longer lists is refused by   *)
(* every container.                                                        *)
THEOREM RetiredIsAlwaysRefused ==
  ASSUME ~ImageMayBeMissing
  PROVE  SafeSpec => []RetiredIsRefused
<1>1. IInv => RetiredIsRefused
  <2> SUFFICES ASSUME IInv, step = "steady", NEW c \in Containers, NEW t \in Tokens, t \notin wanted
               PROVE  ~Accepts(c, t)
    BY DEF RetiredIsRefused
  <2>1. settings[c] = wanted /\ wanted = {newest}
    BY SettledHoldTheList DEF IInv, Runbook
  <2>2. QED
    BY <2>1 DEF Accepts
<1>2. QED
  BY <1>1, RotationInvariance, PTL

(* With the image on the host a play that reports success has put the new  *)
(* token in force in every container (playbook.yml:279-280): the missing   *)
(* image is all that run rotation_skipped is about.                        *)
THEOREM PlaysPutTokensInForce ==
  ASSUME ~ImageMayBeMissing
  PROVE  SafeSpec => []PlayPutsTokensInForce
<1>1. IInv => PlayPutsTokensInForce
  <2> SUFFICES ASSUME IInv, step \in {"deployed", "shipped"}, NEW c \in Containers
               PROVE  Accepts(c, newest)
    BY DEF PlayPutsTokensInForce
  <2>1. settings[c] = wanted /\ newest \in wanted
    BY SettledHoldTheList DEF IInv, Runbook
  <2>2. QED
    BY <2>1 DEF Accepts
<1>2. QED
  BY <1>1, RotationInvariance, PTL

(* Every variable keeps its type, also when the image is missing: no list  *)
(* of tokens is ever empty, with which the API would let everybody in      *)
(* (auth.py:18-41, config.py:54-104).                                      *)
THEOREM RotationTypeCorrect == SafeSpec => []TypeOK
<1> USE TokensAssumption, BudgetAssumption DEF operatorVars, deviceVars, playVars, Tokens
<1>1. Init => TypeOK
  <2> SUFFICES ASSUME Init PROVE TypeOK
    OBVIOUS
  <2>1. image \in BOOLEAN
    <3>1. image \in IF ImageMayBeMissing THEN BOOLEAN ELSE {TRUE}
      BY DEF Init
    <3>2. QED
      BY <3>1
  <2>2. 1 \in 1..MaxTokens /\ {1} \in (SUBSET (1..MaxTokens)) \ {{}}
    OBVIOUS
  <2>3. /\ token \in [Devices -> 1..MaxTokens] /\ paused \subseteq Devices
        /\ settings \in [Containers -> (SUBSET (1..MaxTokens)) \ {{}}] /\ todo \subseteq Containers
    BY <2>2 DEF Init
  <2>4. failures \in 0..MaxFailures /\ pushes \in 0..MaxPushes
    BY DEF Init
  <2>5. changed \in BOOLEAN
    BY Zenon DEF Init
  <2>6. QED
    BY <2>1, <2>2, <2>3, <2>4, <2>5 DEF Init, TypeOK
<1>2. TypeOK /\ [Next]_vars => TypeOK'
  <2> SUFFICES ASSUME TypeOK, [Next]_vars PROVE TypeOK'
    OBVIOUS
  <2>1. CASE GenerateToken
    BY <2>1 DEF GenerateToken, TypeOK
  <2>2. CASE RunPlay \/ PlaySucceeded \/ Ship \/ RetireOld
    <3>1. CASE RunPlay
      BY <3>1 DEF RunPlay, TypeOK
    <3>2. CASE PlaySucceeded
      BY <3>2 DEF PlaySucceeded, TypeOK
    <3>3. CASE Ship
      BY <3>3 DEF Ship, TypeOK
    <3>4. CASE RetireOld
      BY <3>4 DEF RetireOld, TypeOK
    <3>5. QED
      BY <2>2, <3>1, <3>2, <3>3, <3>4
  <2>3. ASSUME NEW d \in Devices, UpdateDevice(d) PROVE TypeOK'
    BY <2>3 DEF UpdateDevice, TypeOK
  <2>4. ASSUME NEW d \in Devices, NEW c \in Containers, Refuse(d, c) PROVE TypeOK'
    BY <2>4 DEF Refuse, TypeOK
  <2>5. CASE RenderTokens \/ PullImage \/ StartStack \/ StackStarted
    BY <2>5 DEF RenderTokens, PullImage, StartStack, StackStarted, TypeOK
  <2>6. CASE MigrateThenHandlers \/ HandlersDone \/ PlayFails \/ Roll
    <3>1. CASE MigrateThenHandlers
      BY <3>1 DEF MigrateThenHandlers, TypeOK
    <3>2. CASE HandlersDone
      BY <3>2 DEF HandlersDone, TypeOK
    <3>3. CASE PlayFails
      BY <3>3 DEF PlayFails, TypeOK
    <3>4. CASE Roll
      BY <3>4 DEF Roll, TypeOK
    <3>5. QED
      BY <2>6, <3>1, <3>2, <3>3, <3>4
  <2>7. ASSUME NEW c \in Containers, Recreate(c) PROVE TypeOK'
    BY <2>7 DEF Recreate, TypeOK
  <2>8. CASE UNCHANGED vars
    BY <2>8 DEF vars, TypeOK
  <2>9. QED
    BY <2>1, <2>2, <2>3, <2>4, <2>5, <2>6, <2>7, <2>8 DEF Next
<1>3. QED
  BY <1>1, <1>2, PTL DEF SafeSpec
=============================================================================
