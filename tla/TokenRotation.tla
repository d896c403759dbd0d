--------------------------- MODULE TokenRotation ---------------------------
(***************************************************************************)
(* The rotation of ingest tokens by the runbook token_refresh.md: the      *)
(* operator edits group_vars, the play with --tags app renders tokens.env  *)
(* and recreates the api containers, devices move to the new build, and    *)
(* the old token is removed.  Meanwhile the deploy workflow rolls the same *)
(* containers and plays fail half way.  The operator starts no play while  *)
(* the workflow rolls, nor the workflow while a play runs.                 *)
(* Definitions named Operation_What are faulty variants of Operation: each *)
(* shows that a property below would notice the fault.                     *)
(***************************************************************************)
EXTENDS Naturals

CONSTANTS
  Devices,
  Containers,         \* replicas of the api service
  MaxTokens,          \* bound: the last token ever generated
  MaxFailures,        \* bound on plays that fail
  MaxPushes,          \* bound on runs of the deploy workflow
  ImageMayBeMissing   \* the image api_image:api_image_tag may not be on the host

ASSUME TokensAssumption == MaxTokens \in Nat \ {0}
ASSUME BudgetAssumption == MaxFailures \in Nat /\ MaxPushes \in Nat
ASSUME ImageAssumption == ImageMayBeMissing \in BOOLEAN

VARIABLES
  step,        \* operator: place in the runbook
  newest,      \* operator: the last token generated
  wanted,      \* group_vars: api_ingest_tokens
  shipped,     \* the token in the device build users can get
  token,       \* device: its token
  paused,      \* devices that were answered 403
  play,        \* the run of the playbook
  changed,     \* the handler "restart api stack" is notified
  image,       \* the image is on the host
  tokensFile,  \* tokens.env on the host
  todo,        \* containers a recreate has still to replace
  settings,    \* ingest_token_set of the processes of a container
  failures,    \* failures left
  pushes       \* workflow runs left

operatorVars == <<step, newest, wanted, shipped>>
deviceVars   == <<token, paused>>
playVars     == <<play, changed, image>>
vars == <<operatorVars, deviceVars, playVars, tokensFile, todo, settings, failures, pushes>>

Tokens == 1..MaxTokens

(* require_ingest_token: with no token configured everything passes.       *)
Accepts(c, t) == settings[c] = {} \/ t \in settings[c]

Init ==
  /\ step = "steady" /\ newest = 1 /\ wanted = {1} /\ shipped = 1
  /\ token = [d \in Devices |-> 1] /\ paused = {}
  /\ play = "none" /\ changed = FALSE
  /\ image \in IF ImageMayBeMissing THEN BOOLEAN ELSE {TRUE}
  /\ tokensFile = {1} /\ todo = {}
  /\ settings = [c \in Containers |-> {1}]
  /\ failures = MaxFailures /\ pushes = MaxPushes
-----------------------------------------------------------------------------
(* The operator and the devices.                                           *)

GenerateToken_DropsOld ==
  /\ step = "steady" /\ newest < MaxTokens
  /\ newest' = newest + 1
  /\ wanted' = {newest'}
  /\ step' = "edited"
  /\ UNCHANGED <<shipped, deviceVars, playVars, tokensFile, todo, settings, failures, pushes>>

(* Steps 1 and 2: the old token stays for the window.                      *)
GenerateToken ==
  /\ step = "steady" /\ newest < MaxTokens
  /\ newest' = newest + 1
  /\ wanted' = {newest, newest'}
  /\ step' = "edited"
  /\ UNCHANGED <<shipped, deviceVars, playVars, tokensFile, todo, settings, failures, pushes>>

(* Step 3; a play that has failed is run again.                            *)
RunPlay ==
  /\ step \in {"edited", "retiring"}
  /\ play \in {"none", "failed"} /\ todo = {}
  /\ play' = "render" /\ changed' = FALSE
  /\ UNCHANGED <<operatorVars, deviceVars, image, tokensFile, todo, settings, failures, pushes>>

(* Ansible reports success.                                                *)
PlaySucceeded ==
  /\ play = "succeeded" /\ play' = "none"
  /\ step' = IF step = "edited" THEN "deployed" ELSE "steady"
  /\ UNCHANGED <<newest, wanted, shipped, deviceVars, changed, image, tokensFile, todo, settings, failures, pushes>>

(* Step 4.                                                                 *)
Ship ==
  /\ step = "deployed" /\ step' = "shipped"
  /\ shipped' = newest
  /\ UNCHANGED <<newest, wanted, deviceVars, playVars, tokensFile, todo, settings, failures, pushes>>

UpdateDevice(d) ==
  /\ token[d] # shipped
  /\ token' = [token EXCEPT ![d] = shipped]
  /\ paused' = paused \ {d}
  /\ UNCHANGED <<operatorVars, playVars, tokensFile, todo, settings, failures, pushes>>

(* Step 5, after one or two weeks: some users may not have updated yet.    *)
RetireOld ==
  /\ step = "shipped"
  /\ step' = "retiring" /\ wanted' = {newest}
  /\ UNCHANGED <<newest, shipped, deviceVars, playVars, tokensFile, todo, settings, failures, pushes>>

(* A device is answered 403 by the container its request went to.          *)
Refuse(d, c) ==
  /\ d \notin paused /\ ~Accepts(c, token[d])
  /\ paused' = paused \cup {d}
  /\ UNCHANGED <<operatorVars, token, playVars, tokensFile, todo, settings, failures, pushes>>
-----------------------------------------------------------------------------
(* The play.                                                               *)

RenderTokens_Empty ==
  /\ play = "render" /\ play' = "pull"
  /\ tokensFile' = {}
  /\ changed' = (tokensFile # tokensFile')
  /\ UNCHANGED <<operatorVars, deviceVars, image, todo, settings, failures, pushes>>

RenderTokens ==
  /\ play = "render" /\ play' = "pull"
  /\ tokensFile' = wanted
  /\ changed' = (tokensFile # wanted)
  /\ UNCHANGED <<operatorVars, deviceVars, image, todo, settings, failures, pushes>>

(* A pull may fail; without the image every task and handler that follows  *)
(* is skipped.                                                             *)
PullImage ==
  /\ play = "pull"
  /\ image' \in {image, TRUE}
  /\ play' = IF image' THEN "up" ELSE "succeeded"
  /\ UNCHANGED <<operatorVars, deviceVars, changed, tokensFile, todo, settings, failures, pushes>>

(* compose up replaces the containers whose environment has changed.       *)
StartStack_OnlyMissing ==
  /\ play = "up" /\ play' = "migrate"
  /\ UNCHANGED <<operatorVars, deviceVars, changed, image, tokensFile, todo, settings, failures, pushes>>

StartStack ==
  /\ play = "up" /\ play' = "starting"
  /\ todo' = {c \in Containers : settings[c] # tokensFile}
  /\ UNCHANGED <<operatorVars, deviceVars, changed, image, tokensFile, settings, failures, pushes>>

(* The processes of a new container read the file once, get_settings being *)
(* cached.                                                                 *)
Recreate(c) ==
  /\ c \in todo /\ todo' = todo \ {c}
  /\ settings' = [settings EXCEPT ![c] = tokensFile]
  /\ UNCHANGED <<operatorVars, deviceVars, playVars, tokensFile, failures, pushes>>

StackStarted ==
  /\ play = "starting" /\ todo = {}
  /\ play' = "migrate"
  /\ UNCHANGED <<operatorVars, deviceVars, changed, image, tokensFile, todo, settings, failures, pushes>>

(* The handler, if notified, replaces every container.                     *)
MigrateThenHandlers ==
  /\ play = "migrate"
  /\ play' = IF changed THEN "handlers" ELSE "succeeded"
  /\ todo' = IF changed THEN Containers ELSE {}
  /\ UNCHANGED <<operatorVars, deviceVars, changed, image, tokensFile, settings, failures, pushes>>

HandlersDone ==
  /\ play = "handlers" /\ todo = {}
  /\ play' = "succeeded"
  /\ UNCHANGED <<operatorVars, deviceVars, changed, image, tokensFile, todo, settings, failures, pushes>>

(* A failed task ends the play: later tasks and handlers do not run, and   *)
(* the next play finds the file unchanged if this one has rendered it.     *)
PlayFails ==
  /\ failures > 0 /\ failures' = failures - 1
  /\ play \in {"render", "pull", "up", "starting", "migrate", "handlers"} /\ play' = "failed"
  /\ todo' = {}
  /\ UNCHANGED <<operatorVars, deviceVars, changed, image, tokensFile, settings, pushes>>

(* The deploy workflow: up -d --no-deps api with the image of a new commit *)
(* replaces every api container.                                           *)
Roll ==
  /\ play \in {"none", "failed"} /\ todo = {}
  /\ pushes > 0 /\ pushes' = pushes - 1
  /\ todo' = Containers
  /\ UNCHANGED <<operatorVars, deviceVars, playVars, tokensFile, settings, failures>>

Next ==
  \/ GenerateToken \/ RunPlay \/ PlaySucceeded \/ Ship \/ RetireOld
  \/ \E d \in Devices : UpdateDevice(d) \/ \E c \in Containers : Refuse(d, c)
  \/ RenderTokens \/ PullImage \/ StartStack \/ StackStarted
  \/ MigrateThenHandlers \/ HandlersDone \/ PlayFails
  \/ \E c \in Containers : Recreate(c)
  \/ Roll

SafeSpec == Init /\ [][Next]_vars

(* Ansible and compose go on with what they have begun, and the operator   *)
(* follows the runbook to its end.                                         *)
Fairness ==
  /\ WF_vars(RenderTokens \/ PullImage \/ StartStack \/ StackStarted \/ MigrateThenHandlers \/ HandlersDone)
  /\ \A c \in Containers : WF_vars(Recreate(c))
  /\ WF_vars(RunPlay) /\ WF_vars(PlaySucceeded) /\ WF_vars(Ship) /\ WF_vars(RetireOld)

Spec == SafeSpec /\ Fairness
-----------------------------------------------------------------------------
TypeOK ==
  /\ step \in {"steady", "edited", "deployed", "shipped", "retiring"}
  /\ newest \in Tokens /\ shipped \in 1..newest
  /\ wanted \in (SUBSET Tokens) \ {{}}
  /\ token \in [Devices -> Tokens] /\ paused \subseteq Devices
  /\ play \in {"none", "render", "pull", "up", "starting", "migrate", "handlers", "succeeded", "failed"}
  /\ changed \in BOOLEAN /\ image \in BOOLEAN
  /\ tokensFile \in (SUBSET Tokens) \ {{}}
  /\ todo \subseteq Containers
  /\ settings \in [Containers -> (SUBSET Tokens) \ {{}}]
  /\ failures \in 0..MaxFailures /\ pushes \in 0..MaxPushes

(* Through the whole rotation, failed plays and roll-outs included, no     *)
(* device that has the token of the newest build is refused, nor, while    *)
(* users update, one that has the token before it: every container accepts *)
(* the old token until its retirement, and the new one before any device   *)
(* can have it (token_refresh.md:4-13).                                    *)
OnlyLaggardsPause ==
  \A d \in paused : token[d] < IF step = "shipped" THEN shipped - 1 ELSE shipped

(* When the runbook is through, no container accepts a token that is no    *)
(* longer listed, whichever container was replaced by whom.                *)
RetiredIsRefused ==
  step = "steady" => \A c \in Containers, t \in Tokens : t \notin wanted => ~Accepts(c, t)

(* A rotation once begun comes to its end, and then every container holds  *)
(* the list in group_vars: failed plays, each of which leaves the next one *)
(* without the notification of the handler, only delay it.                 *)
RotationFinishes ==
  (step = "edited") ~> (step = "steady" /\ \A c \in Containers : settings[c] = wanted)

(* "`ansible-playbook --tags app` is all it takes to rotate"               *)
(* (playbook.yml:279-280): after a play that reports success every         *)
(* container accepts the new token.                                        *)
PlayPutsTokensInForce ==
  step \in {"deployed", "shipped"} => \A c \in Containers : Accepts(c, newest)
=============================================================================
