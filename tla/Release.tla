------------------------------ MODULE Release ------------------------------
(***************************************************************************)
(* What the operators' tools (scripts/src) decide: the check of the built   *)
(* artifacts, the deployment manifest, the funding and preflight checks, the *)
(* environment profiles and the gates of a release.  They read files and    *)
(* answer; module Deployment has the tools that write.  A hash names the     *)
(* version of the sources it was built from, "" stands for a missing one, a  *)
(* file is the set of its contents: empty when it is missing or unreadable. *)
(***************************************************************************)
EXTENDS CreateForm

\* The record r with the fields of d that it lacks: { ...d, ...r }.
Over(r, d) == [f \in DOMAIN r \cup DOMAIN d |-> IF f \in DOMAIN r THEN r[f] ELSE d[f]]

WASM_NAMES == {"reputation", "circle_factory", "circle"}
Versions == {"v1", "v2"}

\* The artifacts of one build.
Build(v) == [n \in WASM_NAMES |-> v]

-----------------------------------------------------------------------------
(* Artifacts.  wasm are the hashes of the artifacts on disk.               *)

computeHashes(wasm) == IF "" \in Range(wasm) THEN {} ELSE {wasm}

\* The exit of check-artifact-hashes.  Another toolchain is only remarked on.
verifyHashes(expected, wasm) ==
  \E e \in expected : \A n \in WASM_NAMES : e.artifacts[n] # "" /\ wasm[n] = e.artifacts[n]

-----------------------------------------------------------------------------
(* The manifest.                                                           *)

KNOWN_NETWORKS == [testnet |-> "test passphrase", mainnet |-> "public passphrase",
                   futurenet |-> "future passphrase"]

resolvePassphrase(network) ==
  IF network \in DOMAIN KNOWN_NETWORKS THEN KNOWN_NETWORKS[network] ELSE network

TextFields == {"network", "deployerPublicKey", "rustToolchain", "sorobanSdkVersion",
               "circlWasmHash", "usdc"}
EntryFields == {"contractId", "wasmHash", "deployTxHash"}

\* The fields that are empty.
missingFields(m) ==
  {f \in TextFields : m[f] = ""}
    \cup {f \in EntryFields : m.reputation[f] = "" \/ m.circleFactory[f] = ""}

isSha256Hash(h) == h \in Versions

\* What the checksum covers: every field of a version 2 manifest, the contracts
\* and the network of a version 1 one.
canonicalJson(m) ==
  [version |-> m.manifestVersion,
   of |-> [f \in DOMAIN m \ {"integrityHash", "manifestVersion"} |-> m[f]]]

legacyPayload(m) ==
  [version |-> "1",
   of |-> [network |-> m.network, networkPassphrase |-> m.networkPassphrase,
           reputation |-> m.reputation.contractId,
           circleFactory |-> m.circleFactory.contractId,
           circlWasmHash |-> m.circlWasmHash, usdc |-> m.usdc,
           deployedAt |-> m.deployedAt]]

computeIntegrityHash(m) ==
  <<IF m.manifestVersion = "1" THEN legacyPayload(m) ELSE canonicalJson(m)>>

\* The manifest that is written, none when the input is refused.
writeManifest(input, at) ==
  IF \/ input.network \notin DOMAIN KNOWN_NETWORKS
     \/ missingFields(input) # {}
     \/ \E h \in {input.reputation.wasmHash, input.circleFactory.wasmHash,
                  input.circlWasmHash} : ~isSha256Hash(h)
     \/ input.networkPassphrase # resolvePassphrase(input.network)
    THEN {}
    ELSE LET partial == Over(input, [manifestVersion |-> "2", deployedAt |-> at,
                                     unknownField |-> FALSE])
         IN  {Over(partial, [integrityHash |-> computeIntegrityHash(partial)])}

\* The complaints of validateManifest; expected is "" when the caller names no
\* network.  Nothing else is checked once a field is missing or unknown.
validateManifest(file, expected) ==
  IF file = {} THEN {"unreadable"}
  ELSE LET m == CHOOSE x \in file : TRUE
           incomplete == missingFields(m)
             \cup {f \in {"networkPassphrase"} : m.networkPassphrase = ""}
             \cup {f \in {"deployedAt"} : m.deployedAt = 0}
             \cup {f \in {"integrityHash"} : m.integrityHash = <<>>}
             \cup {f \in {"unknown field"} : m.manifestVersion = "2" /\ m.unknownField}
       IN  IF m.manifestVersion \notin {"1", "2"} THEN {"manifestVersion"}
           ELSE IF incomplete # {} THEN incomplete
           ELSE {f \in {"network"} : m.network \notin DOMAIN KNOWN_NETWORKS}
             \cup {f \in {"deployedAtLedger"} : \E c \in {m.reputation, m.circleFactory} :
                                                   c.deployedAtLedger < 0}
             \cup {f \in {"integrityHash"} : m.integrityHash # computeIntegrityHash(m)}
             \cup {f \in {"networkPassphrase"} :
                     /\ m.network \in DOMAIN KNOWN_NETWORKS
                     /\ m.networkPassphrase # KNOWN_NETWORKS[m.network]}
             \cup {f \in {"other network"} : expected # "" /\ m.network # expected}

-----------------------------------------------------------------------------
(* Funding and preflight.  Balances are 0, 1 (a member's fees) or 2 (a       *)
(* deployer's); -1 is an account or token that cannot be read.             *)

MIN_DEPLOYER_STROOPS == 2
MIN_MEMBER_STROOPS == 1
MIN_MEMBER_USDC_STROOPS == 2

hasSufficientBalance(actual, required) == actual # -1 /\ actual >= required

\* The result of the funding check: whether it is ok, and the checks that
\* failed.  An endpoint that does not answer and a malformed key end it before
\* any check.
runFundingDiagnostics(o) ==
  IF ~o.rpcOk \/ ~o.keyValid THEN [ok |-> FALSE, failures |-> {}]
  ELSE LET failures ==
             {<<"xlm", "deployer">> : x \in
                {y \in {o.xlm} : ~hasSufficientBalance(y, MIN_DEPLOYER_STROOPS)}}
             \cup {<<"xlm", "member">> : x \in
                {y \in o.members : ~y.valid \/ ~hasSufficientBalance(y.xlm, MIN_MEMBER_STROOPS)}}
             \cup {<<"token", "member">> : x \in
                {y \in o.members : /\ o.usdcGiven /\ y.valid
                                   /\ ~hasSufficientBalance(y.usdc, MIN_MEMBER_USDC_STROOPS)}}
       IN  [ok |-> failures = {}, failures |-> failures]

\* The failures of deploy.ts's preflight in an environment.  Without the CLI
\* and an identity in its keystore there is no address to check the funds of,
\* and a funding check that ended early contributes no failure.
runPreflightChecks(e) ==
  {f \in {<<"network">>} : e.network \notin DOMAIN KNOWN_NETWORKS}
    \cup {f \in {<<"passphrase">>} : e.passphrase = ""}
    \cup {f \in {<<"stellar-cli">>} : ~e.cli}
    \cup {f \in {<<"rust">>} : ~e.rust}
    \cup {f \in {<<"target">>} : e.target = "missing"}
    \cup {f \in {<<"identity">>} : ~e.cli \/ ~e.identity}
    \cup (IF ~e.cli \/ ~e.identity THEN {}
          ELSE runFundingDiagnostics([rpcOk |-> e.rpcOk, keyValid |-> TRUE, xlm |-> e.xlm,
                                      members |-> {}, usdcGiven |-> FALSE]).failures)

\* The steps of a deployment and what each needs of the environment.
CanRun(e, step) ==
  CASE step = "build" -> e.cli /\ e.identity /\ e.rust /\ e.target = "installed"
    [] step \in {"reputation", "repInit", "factory", "install"} ->
         e.cli /\ e.identity /\ e.rpcOk /\ e.xlm >= MIN_DEPLOYER_STROOPS
    [] step = "facInit" ->
         e.cli /\ e.identity /\ e.rpcOk /\ e.xlm >= MIN_DEPLOYER_STROOPS /\ e.usdc # "empty"
    [] step = "manifest" -> e.passphrase = resolvePassphrase(e.network)
    [] OTHER -> TRUE

\* A slip of DeploySteps: the manifest is written before the factory is
\* initialized.
DeploySteps_ManifestFirst ==
  <<"build", "reputation", "repInit", "factory", "install", "usdc", "manifest",
    "facInit", "legacy">>

DeploySteps == <<"build", "reputation", "repInit", "factory", "install", "usdc",
                 "facInit", "manifest", "legacy">>

-----------------------------------------------------------------------------
(* Environment profiles.  A URL is one of a few classes.                   *)

\* validate-env looks for "testnet" anywhere in the URL.
isTestnetRpc(url) == url \in {"testnet host", "testnet in path"}

CONTRACT_VARS == {"CIRCLE_FACTORY_ADDRESS", "REPUTATION_ADDRESS", "USDC_ADDRESS"}

\* The files of a component, each over the one before it; a variable of the
\* process counts only if a file names it.
loadEnv(example, profileFile, local, process) ==
  LET merged == Over(local, Over(profileFile, example))
  IN  [k \in DOMAIN merged |-> IF k \in DOMAIN process THEN process[k] ELSE merged[k]]

\* a ?? b ?? '' of the validator.
Coalesce(env, a, b) ==
  IF a \in DOMAIN env THEN env[a] ELSE IF b \in DOMAIN env THEN env[b] ELSE ""

RpcUrl(env) == Coalesce(env, "STELLAR_RPC_URL", "NEXT_PUBLIC_STELLAR_RPC_URL")
Passphrase(env) == Coalesce(env, "NETWORK_PASSPHRASE", "NEXT_PUBLIC_NETWORK_PASSPHRASE")
IsSet(env, k) == k \in DOMAIN env /\ env[k] # ""

ruleNoTestnetRpcInProduction(env, profile) ==
  profile = "production" => RpcUrl(env) # "" /\ ~isTestnetRpc(RpcUrl(env))

ruleProductionPassphrase(env, profile) ==
  CASE profile = "testnet"    -> TRUE
    [] profile = "staging"    -> Passphrase(env) \notin {"", KNOWN_NETWORKS.testnet}
    [] profile = "production" -> Passphrase(env) = KNOWN_NETWORKS.mainnet

ruleContractAddresses(env, profile) ==
  profile # "testnet" => \A k \in CONTRACT_VARS : IsSet(env, k)

ruleNetworkContractCompatibility(env, profile) ==
  ~(/\ profile = "production" /\ isTestnetRpc(RpcUrl(env))
    /\ \E k \in CONTRACT_VARS : IsSet(env, k))

validateComponent(env, profile, secretInProfile) ==
  /\ ruleNoTestnetRpcInProduction(env, profile)
  /\ ruleProductionPassphrase(env, profile)
  /\ ruleContractAddresses(env, profile)
  /\ ruleNetworkContractCompatibility(env, profile)
  /\ ~secretInProfile

\* The exit of validate-env: only the testnet profile may lack its file.
validateEnv(envs, profile, hasProfileFile, secretInProfile) ==
  /\ hasProfileFile \/ profile = "testnet"
  /\ \A env \in envs : validateComponent(env, profile, secretInProfile)

-----------------------------------------------------------------------------
(* The gates of a release.                                                 *)

\* mainnet-readiness on its environment, the manifest, the expected hashes, the
\* artifacts and the pinned toolchain; the endpoint must be an https host that
\* names no test network.
evaluateMainnetContext(o, env, manifest, expected, wasm, pinned) ==
  /\ o.network = "mainnet" /\ o.confirmMainnet
  /\ env.CIRCLEUP_PROFILE = "production"
  /\ env.STELLAR_RPC_URL \in {"mainnet", "testnet in path"}
  /\ env.HORIZON_URL = "mainnet"
  /\ env.NETWORK_PASSPHRASE = KNOWN_NETWORKS.mainnet
  /\ \A k \in CONTRACT_VARS : IsSet(env, k)
  /\ env.USDC_ADDRESS = "usdc"
  /\ env.ADMIN_PUBLIC_KEY # "" /\ env.ADMIN_IDENTITY # ""
  /\ \E e \in expected : e.toolchain = pinned /\ \A n \in WASM_NAMES :
       e.artifacts[n] # "" /\ wasm[n] = e.artifacts[n]
  /\ validateManifest(manifest, "mainnet") = {}
  /\ \A m \in manifest :
       /\ m.circleFactory.contractId = env.CIRCLE_FACTORY_ADDRESS
       /\ m.reputation.contractId = env.REPUTATION_ADDRESS
       /\ m.deployerPublicKey = env.ADMIN_PUBLIC_KEY

\* The rest of the command: the networks and the admin's identity are what they
\* are called, and the admin can pay.
mainnetReadiness(ready, remote) ==
  /\ ready
  /\ remote.rpcPassphrase = KNOWN_NETWORKS.mainnet /\ remote.adminMatches
  /\ remote.horizonPassphrase = KNOWN_NETWORKS.mainnet
  /\ runFundingDiagnostics(remote.funding).ok

\* The smoke test compares a manifest with the expected hashes; a hash that one
\* of them lacks is no mismatch.
checkManifestContractAlignment(manifest, expected) ==
  /\ expected # {} /\ manifest # {}
  /\ \A m \in manifest, e \in expected :
       \A pair \in {<<m.reputation.wasmHash, e.artifacts["reputation"]>>,
                    <<m.circleFactory.wasmHash, e.artifacts["circle_factory"]>>,
                    <<m.circlWasmHash, e.artifacts["circle"]>>} :
         "" \notin {pair[1], pair[2]} => pair[1] = pair[2]

checkContractHashes(expected) ==
  expected # {} /\ \A e \in expected : "" \notin Range(e.artifacts)

checkDeploymentManifest(given, manifest, environment) ==
  IF ~given THEN IF environment = "mainnet" THEN "fail" ELSE "skip"
  ELSE IF validateManifest(manifest, environment) = {} THEN "pass" ELSE "fail"

verdict(ok) == IF ok THEN "pass" ELSE "fail"

checkContractProvenance(f) ==
  CASE f.provenance = "absent"             -> "fail"
    [] f.provenance \in {"undated", "old"} -> "warn"
    [] f.provenance = "fresh"              -> "pass"

checkSdkBuild(f) == verdict(f.sdkBuilt)
checkSdkPackageIntegrity(f) == verdict(f.versions /\ f.sdkBuilt)
checkIndexerMigrations(f) == IF f.migrations = "named" THEN "pass" ELSE "warn"
checkIndexerSchema(f) == verdict(f.schema)
checkIndexerMigrateScript(f) == verdict(f.migrateScript)
checkEnvExamples(f) == verdict(f.envExamples)
checkNoCommittedSecrets(f) == verdict(~f.envFiles)

smokeLayer(layer, f, given, manifest, environment) ==
  CASE layer = "contracts" ->
         {verdict(checkContractHashes(f.expected)), checkContractProvenance(f),
          IF given THEN verdict(checkManifestContractAlignment(manifest, f.expected))
          ELSE "skip"}
    [] layer = "sdk"     -> {checkSdkBuild(f), checkSdkPackageIntegrity(f)}
    [] layer = "indexer" -> {checkIndexerMigrations(f), checkIndexerSchema(f),
                             checkIndexerMigrateScript(f)}
    [] layer = "app"     -> {checkEnvExamples(f), checkNoCommittedSecrets(f),
                             checkDeploymentManifest(given, manifest, environment)}

runSmokeTests(environment, given, layers, f, manifest) ==
  LET said == UNION {smokeLayer(l, f, given, manifest, environment) : l \in layers}
  IN  IF "fail" \in said THEN "fail" ELSE IF "warn" \in said THEN "warn" ELSE "pass"

\* The release check: what the [Unreleased] section of the changelog speaks of
\* decides what else it must speak of; only the migration note may be anywhere.
checkPackageVersions(f) == f.versions
checkChangelog(topics) == topics \cap {"added", "changed", "fixed"} # {}
checkMigrationNotes(f, topics) == f.schema => f.oldNotes \/ "migration" \in topics
checkSdkVersionAlignment(f) == f.sdkAligned
checkNoCommittedEnvFiles(f) == ~f.envFiles
checkDeploymentOrderGuidance(topics) == {"migration", "code"} \subseteq topics => "order" \in topics
checkSdkCompatibilityNotes(topics) ==
  topics \cap {"sdk changes", "breaking"} # {} => "compatibility" \in topics
checkArtifactHashDocumentation(topics) == "contract" \in topics => "hashes" \in topics

releaseCheck(f, topics) ==
  /\ checkPackageVersions(f) /\ checkChangelog(topics) /\ checkMigrationNotes(f, topics)
  /\ checkSdkVersionAlignment(f) /\ checkNoCommittedEnvFiles(f)
  /\ checkDeploymentOrderGuidance(topics) /\ checkSdkCompatibilityNotes(topics)
  /\ checkArtifactHashDocumentation(topics)

-----------------------------------------------------------------------------
(* The upgrade report: candidate artifacts against the deployed ones.      *)

Finding(severity, what) == [severity |-> severity, what |-> what]

ManifestHashes(m) ==
  [reputation |-> m.reputation.wasmHash, circle_factory |-> m.circleFactory.wasmHash,
   circle |-> m.circlWasmHash]

\* Of one artifact, whose hash is c; known are the deployed ones and baseline the
\* expected ones.
artifactFindings(n, c, deployed, expected) ==
  LET known == {d[n] : d \in deployed}
      baseline == {e.artifacts[n] : e \in expected} \ {""}
  IN  (CASE known = {} /\ baseline = {} -> {Finding("warning", <<"unverifiable", n>>)}
         [] known # {} /\ c \notin known -> {Finding("warning", <<"deployed", n>>)}
         [] c \in known                  -> {Finding("info", <<"deployed", n>>)}
         [] OTHER                        -> {})
      \cup (IF baseline # {} /\ c \notin baseline
              THEN {Finding("warning", <<"baseline", n>>)} ELSE {})

buildArtifactSection(candidate, deployed, expected) ==
  IF candidate = {} THEN {Finding("blocking", <<"artifacts-not-found">>)}
  ELSE LET wasm == CHOOSE w \in candidate : TRUE
       IN  UNION {artifactFindings(n, wasm[n], deployed, expected) : n \in WASM_NAMES}

buildProvenanceSection(candidate, manifest, pinned, active, dirty) ==
  IF candidate = {} THEN {Finding("blocking", <<"no-provenance">>)}
  ELSE {Finding(IF active = pinned THEN "info" ELSE "warning", <<"toolchain">>),
        Finding(IF dirty THEN "warning" ELSE "info", <<"tree">>)}
       \cup {Finding("warning", <<"deployed-toolchain">>) : m \in
               {x \in manifest : x.rustToolchain # pinned}}

buildMethodFixturesSection(expected) ==
  IF expected = {} THEN {Finding("warning", <<"no-baseline">>)}
  ELSE {Finding(IF checkContractHashes(expected) THEN "info" ELSE "blocking", <<"baseline">>)}

\* The event schema and the storage are left to the reviewer.
buildEventSchemaSection == {Finding("warning", <<"event-schema">>)}
buildStorageCompatibilitySection == {Finding("warning", <<"storage">>)}

generateUpgradeCompatibilityReport(manifest, expected, wasm, pinned, active, dirty) ==
  LET valid == IF validateManifest(manifest, "") = {} THEN manifest ELSE {}
      candidate == computeHashes(wasm)
  IN  buildArtifactSection(candidate, {ManifestHashes(m) : m \in valid}, expected)
        \cup buildProvenanceSection(candidate, valid, pinned, active, dirty)
        \cup buildMethodFixturesSection(expected)
        \cup buildEventSchemaSection \cup buildStorageCompatibilitySection

\* The command itself: importing check-artifact-hashes runs that command, which
\* exits before the report is begun.
upgradeReportExit(expected, wasm) == verifyHashes(expected, wasm)
=============================================================================
