------------------------------ MODULE MCPlatform ------------------------------
(***************************************************************************)
(* The parts of the platform that share no state with the path from the    *)
(* frame to the push, for TLC: each behaviour is the life of one of them,  *)
(* chosen at the start, while the others stay as they began.               *)
(***************************************************************************)
EXTENDS MCAlertLifecycle, FusionWeights, HardExampleMiner, CacheClient,
        VideoSource, SchemaMigrations, Accounts, EventTrail, AlertViews,
        ExtensionClient, MCBusiness

VARIABLE part    \* the part that lives

platformVars == <<part, mcVars, fusionVars, minerVars, cacheVars, sourceVars,
                  schemaVars, accountVars, trailVars, viewVars, extensionVars, businessVars>>

(* The six weights in tenths. *)
DefaultWeights ==
    [face |-> 3, person |-> 2, reid |-> 2, liveness |-> 1, action |-> 1, audio |-> 1]

Parts == {"alerts", "fusion", "miner", "cache", "source", "schema", "accounts", "trail", "views",
          "extension", "business"}

(* What has several beginnings has one of them where its part does not live. *)
PlatformInit ==
    /\ part \in Parts
    /\ MCInit /\ FusionInit /\ MinerInit /\ CacheInit
    /\ SourceInit /\ (part # "source" => kind = "CV2Source")
    /\ SchemaInit /\ (part # "schema" => dialect = "sqlite")
    /\ AccountInit /\ TrailInit
    /\ ViewInit /\ (part # "views" => openAlerts = {})
    /\ ExtensionInit
    /\ BusinessInit /\ (part # "business" => business = "runner" /\ library = "liveguard")

(* One score is fused in a behaviour: the next would be fused the same way.  *)
FuseOnce == fused = NoScore /\ FusionNext

PlatformNext ==
    \/ /\ part = "alerts" /\ MCNext
       /\ UNCHANGED <<part, fusionVars, minerVars, cacheVars, sourceVars,
                      schemaVars, accountVars, trailVars, viewVars, extensionVars, businessVars>>
    \/ /\ part = "fusion" /\ FuseOnce
       /\ UNCHANGED <<part, mcVars, minerVars, cacheVars, sourceVars,
                      schemaVars, accountVars, trailVars, viewVars, extensionVars, businessVars>>
    \/ /\ part = "miner" /\ MinerNext
       /\ UNCHANGED <<part, mcVars, fusionVars, cacheVars, sourceVars,
                      schemaVars, accountVars, trailVars, viewVars, extensionVars, businessVars>>
    \/ /\ part = "cache" /\ CacheNext
       /\ UNCHANGED <<part, mcVars, fusionVars, minerVars, sourceVars,
                      schemaVars, accountVars, trailVars, viewVars, extensionVars, businessVars>>
    \/ /\ part = "source" /\ SourceNext
       /\ UNCHANGED <<part, mcVars, fusionVars, minerVars, cacheVars,
                      schemaVars, accountVars, trailVars, viewVars, extensionVars, businessVars>>
    \/ /\ part = "schema" /\ SchemaNext
       /\ UNCHANGED <<part, mcVars, fusionVars, minerVars, cacheVars,
                      sourceVars, accountVars, trailVars, viewVars, extensionVars, businessVars>>
    \/ /\ part = "accounts" /\ AccountNext
       /\ UNCHANGED <<part, mcVars, fusionVars, minerVars, cacheVars,
                      sourceVars, schemaVars, trailVars, viewVars, extensionVars, businessVars>>
    \/ /\ part = "trail" /\ TrailNext
       /\ UNCHANGED <<part, mcVars, fusionVars, minerVars, cacheVars,
                      sourceVars, schemaVars, accountVars, viewVars, extensionVars, businessVars>>
    \/ /\ part = "views" /\ ViewNext
       /\ UNCHANGED <<part, mcVars, fusionVars, minerVars, cacheVars,
                      sourceVars, schemaVars, accountVars, trailVars, extensionVars, businessVars>>
    \/ /\ part = "extension" /\ ExtensionNext
       /\ UNCHANGED <<part, mcVars, fusionVars, minerVars, cacheVars, sourceVars,
                      schemaVars, accountVars, trailVars, viewVars, businessVars>>
    \/ /\ part = "business" /\ BusinessNext
       /\ UNCHANGED <<part, mcVars, fusionVars, minerVars, cacheVars,
                      sourceVars, schemaVars, accountVars, trailVars, viewVars, extensionVars>>

PlatformSpec == PlatformInit /\ [][PlatformNext]_platformVars
------------------------------------------------------------------------------
(* What a client shows is so: the screen of the app after a load that was   *)
(* served, and the badge and the popup of the extension once no update is   *)
(* under way (mobile/src/screens/AlertsScreen.tsx:28-35 and                 *)
(* extension/src/background.js:55-58).                                      *)
ClientsShowTheTruth == ServedLoadShowsTheTruth /\ BadgeOfLastMessage
==============================================================================
