----------------------------- MODULE Deployment -----------------------------
(***************************************************************************)
(* The operators' tools that write: hash-artifacts --update, deploy and      *)
(* seed-demo (scripts/src).  Each is a sequence of steps of which any may be *)
(* the last: a command exits at the first failure, a shell is closed.  The    *)
(* tools run one at a time.  The seeder works on contracts that an operator   *)
(* has wired by hand and recorded in a manifest, and shares their factory      *)
(* with other creators.                                                       *)
(***************************************************************************)
EXTENDS Release

CONSTANTS
  Environments,  \* what deploy may find installed, funded and configured
  SeedMembers,   \* the accounts the seeder makes up
  MaxAttempts    \* bound: deployments started

\* alice, who signs the seeder's transactions and sends some of her own, is one of
\* the creators, as is whoever a program that uses the SDK signs for; the accounts
\* that the seeder makes up are on nobody else's list.  A token address is given,
\* given as an empty string or not given.
ASSUME DeploymentAssumption ==
  LET calls == UNION {createCircle(p) : p \in CreateParams}
  IN  /\ "alice" \in Creator /\ \A call \in calls : call[1].v \in Creator
      /\ SeedMembers \in Seq(Member) /\ Len(SeedMembers) >= 2
      /\ \A ms \in MemberLists \cup {call[2].v : call \in calls} :
           Range(ms) \cap Range(SeedMembers) = {}
      /\ \A e \in Environments : e.usdc \in {"given", "empty", "unset"}

VARIABLES
  ops,    \* the workspace, the running deployment and the contracts on chain
  seed    \* the seeder's journal and what became of its transactions

opsVars == <<ops, seed>>
deployVars == <<allVars, opsVars>>

NoDeploy == [at |-> 0, env |-> {}]

OpsInit == [source |-> "v1", wasm |-> [n \in WASM_NAMES |-> ""], expected |-> {},
            provenance |-> "", updating |-> FALSE, run |-> NoDeploy, chain |-> <<>>,
            manifest |-> {}, legacy |-> {}]

-----------------------------------------------------------------------------
(* The artifacts.                                                          *)

EditSource ==
  /\ ops.source = "v1"
  /\ ops' = [ops EXCEPT !.source = "v2"]

\* updateHashes builds, writes the expected hashes and then the provenance.
UpdateHashes ==
  /\ ops.run = NoDeploy /\ ~ops.updating
  /\ ops' = [ops EXCEPT !.wasm = Build(ops.source), !.updating = TRUE,
                        !.expected = {[toolchain |-> "pinned",
                                       artifacts |-> Build(ops.source)]}]

WriteProvenance ==
  /\ ops.updating
  /\ ops' = [ops EXCEPT !.updating = FALSE, !.provenance = ops.wasm["circle"]]

-----------------------------------------------------------------------------
(* The deployment.  Attempt k deploys contracts of its own.                *)

RepId == <<"rep1", "rep2">>
FacId == <<"fac1", "fac2">>
TokenId == <<"token1", "token2">>

Attempt == Len(ops.chain)
NewAttempt == [reputation |-> "absent", factory |-> "absent", circle |-> "",
               repHash |-> "", facHash |-> "", usdc |-> ""]

\* The command line is read, the preflight passed or skipped.
StartDeploy(e, skip) ==
  /\ ops.run = NoDeploy /\ ~ops.updating /\ Attempt < MaxAttempts
  /\ e.network = "testnet"
  /\ skip \/ runPreflightChecks(e) = {}
  /\ ops' = [ops EXCEPT !.run = [at |-> 1, env |-> {e}],
                        !.chain = Append(ops.chain, NewAttempt)]

ManifestInput(k, e, a) ==
  [network |-> e.network, networkPassphrase |-> e.passphrase,
   deployerPublicKey |-> "deployer", rustToolchain |-> "pinned",
   sorobanSdkVersion |-> "sdk",
   reputation |-> [contractId |-> RepId[k], wasmHash |-> a.repHash,
                   deployTxHash |-> "cli", deployedAtLedger |-> 0],
   circleFactory |-> [contractId |-> FacId[k], wasmHash |-> a.facHash,
                      deployTxHash |-> "cli", deployedAtLedger |-> 0],
   circlWasmHash |-> a.circle, usdc |-> a.usdc]

\* What a step leaves behind, {} when it refuses.
RunStep(o, e, step) ==
  LET k == Len(o.chain)
      a == o.chain[k]
  IN  CASE step = "build"      -> {[o EXCEPT !.wasm = Build(o.source)]}
        [] step = "reputation" -> {[o EXCEPT !.chain[k].reputation = "deployed",
                                             !.chain[k].repHash = o.wasm["reputation"]]}
        [] step = "repInit"    -> {[o EXCEPT !.chain[k].reputation = "initialized"]}
        [] step = "factory"    -> {[o EXCEPT !.chain[k].factory = "deployed",
                                             !.chain[k].facHash = o.wasm["circle_factory"]]}
        [] step = "install"    -> {[o EXCEPT !.chain[k].circle = o.wasm["circle"]]}
        [] step = "usdc"       ->
             {[o EXCEPT !.chain[k].usdc = CASE e.usdc = "given" -> "usdc"
                                            [] e.usdc = "empty" -> ""
                                            [] e.usdc = "unset" -> TokenId[k]]}
        [] step = "facInit"    -> {[o EXCEPT !.chain[k].factory = "initialized"]}
        [] step = "manifest"   -> {[o EXCEPT !.manifest = {m}] :
                                     m \in writeManifest(ManifestInput(k, e, a), k)}
        [] step = "legacy"     -> {[o EXCEPT !.legacy = {[at |-> k,
                                      reputation |-> RepId[k], circleFactory |-> FacId[k],
                                      usdc |-> a.usdc]}]}

\* The next step of the deployment under way.
Deploy ==
  \E e \in ops.run.env :
    LET step == DeploySteps[ops.run.at]
    IN  /\ CanRun(e, step)
        /\ \E o \in RunStep(ops, e, step) :
             ops' = [o EXCEPT !.run = IF ops.run.at = Len(DeploySteps) THEN NoDeploy
                                      ELSE [ops.run EXCEPT !.at = @ + 1]]

\* A step is refused or fails, or the command is interrupted: what it has put on
\* the chain stays there, and the next attempt starts from nothing.
Exit ==
  /\ ops.run # NoDeploy \/ ops.updating
  /\ ops' = [ops EXCEPT !.run = NoDeploy, !.updating = FALSE]

-----------------------------------------------------------------------------
(* The seeder.                                                             *)

SeedSteps == <<<<"create_circle", 1>>, <<"join", 1>>, <<"join", 2>>, <<"contribute", 1>>,
               <<"contribute", 2>>, <<"payout", 1>>, <<"contribute", 1>>>>

\* journal is the file's list of transactions, fates what the network did with
\* them; circleAddress is what the journal names, made what the run created.
SeedInit == [pc |-> "off", status |-> "none", journal |-> <<>>, fates |-> <<>>,
             circleAddress |-> {}, made |-> {}, joined |-> {}, paid |-> {}]

Seeding(pc) == seed.status = "in_progress" /\ seed.pc = pc

assertSeedNetwork(network, passphrase, rpcPassphrase, m) ==
  /\ network = "testnet"
  /\ \A p \in {passphrase, rpcPassphrase, m.networkPassphrase} : p = KNOWN_NETWORKS.testnet
  /\ m.network = network

\* The manifest of the contracts an operator has wired by hand.
WiredManifest ==
  writeManifest(ManifestInput(1, [network |-> "testnet", passphrase |-> KNOWN_NETWORKS.testnet],
    [repHash |-> "v1", facHash |-> "v1", circle |-> "v1", usdc |-> "usdc"]), 1)

\* Everything the seeder checks before it makes up its accounts.
MaySeed(alwaysCreate, manifest, rpcPassphrase) ==
  /\ alwaysCreate
  /\ validateManifest(manifest, "testnet") = {}
  /\ \A m \in manifest :
       assertSeedNetwork("testnet", KNOWN_NETWORKS.testnet, rpcPassphrase, m)

StartSeed ==
  /\ seed = SeedInit
  /\ \E rpcPassphrase \in Range(KNOWN_NETWORKS) : MaySeed(TRUE, WiredManifest, rpcPassphrase)
  /\ seed' = [seed EXCEPT !.pc = "fund", !.status = "in_progress"]

\* The faucet has paid every account and their balances suffice.
fund ==
  /\ Seeding("fund")
  /\ seed' = [seed EXCEPT !.pc = "build"]

Step(i) == SeedSteps[i]
Now == Len(seed.journal)

\* Whether the circle the journal names takes a step's call: it refuses
\* everyone but its own members.
CircleTakes(step) ==
  LET m == SeedMembers[step[2]]
  IN  /\ seed.circleAddress # {} /\ seed.circleAddress = seed.made
      /\ CASE step[1] = "join"       -> m \notin seed.joined
           [] step[1] = "contribute" -> seed.joined = Range(SeedMembers) /\ m \notin seed.paid
           [] step[1] = "payout"     -> seed.paid = Range(SeedMembers)

\* The factory takes the creation only if it is wired and administers the
\* reputation contract.
FactoryTakes ==
  /\ CircleCount < MaxCircles
  /\ config.reputation = ReputationContract /\ config.usdc = UsdcToken /\ admin = Factory

\* buildAndSend up to the send: a call that simulates is signed and recorded.
Prepare ==
  /\ Seeding("build") /\ Now < Len(SeedSteps)
  /\ IF Now = 0 THEN FactoryTakes ELSE CircleTakes(Step(Now + 1))
  /\ seed' = [seed EXCEPT !.pc = "send", !.journal = Append(@, "pending")]

\* The network accepts the transaction or refuses it; the answer comes later.
Send ==
  /\ Seeding("send")
  /\ \E fate \in {"accepted", "refused"} :
       seed' = [seed EXCEPT !.pc = "sent", !.fates = Append(@, fate)]

\* The answer to the send: an ERROR ends the run.
Answered ==
  /\ Seeding("sent")
  /\ seed' = IF seed.fates[Now] = "refused"
               THEN [seed EXCEPT !.journal[Now] = "failed", !.status = "failed"]
               ELSE [seed EXCEPT !.journal[Now] = "submitted", !.pc = "poll"]

\* The last of the thirty polls, or an earlier one that finds the transaction.
Poll ==
  /\ Seeding("poll")
  /\ \/ /\ seed.fates[Now] = "applied"
        /\ seed' = [seed EXCEPT !.journal[Now] = "confirmed",
                                !.pc = IF Now = 1 THEN "read" ELSE "build"]
     \/ /\ seed.fates[Now] = "failed"
        /\ seed' = [seed EXCEPT !.journal[Now] = "failed", !.status = "failed"]
     \/ seed' = [seed EXCEPT !.journal[Now] = "timeout", !.status = "failed"]

\* The run's circle is taken to be the last one of the factory.
ReadCircle ==
  /\ Seeding("read")
  /\ seed' = [seed EXCEPT !.pc = "build", !.circleAddress = {Last(Circles)}]

Complete ==
  /\ Seeding("build") /\ Now = Len(SeedSteps)
  /\ seed' = [seed EXCEPT !.status = "completed"]

\* Any call throws and main records the failure; or the process is killed.
StopSeed ==
  /\ seed.status = "in_progress"
  /\ \E status \in {"failed", "killed"} : seed' = [seed EXCEPT !.status = status]

\* The network settles the last transaction, while the run waits or after it
\* has ended; a call that has become impossible fails.
Settle ==
  LET i == Len(seed.fates)
      step == Step(i)
      done(s) == seed' = [s EXCEPT !.fates[i] = "applied"]
  IN  /\ i > 0 /\ seed.fates[i] = "accepted"
      /\ \/ /\ i = 1
            /\ create_circle("alice", SeedMembers, 50, MIN_ROUND_DEADLINE_LEDGERS)
            /\ done([seed EXCEPT !.made = {Last(Circles')}])
         \/ /\ i > 1 /\ CircleTakes(step)
            /\ IF step[1] = "payout"
                 THEN /\ \E c \in seed.circleAddress : increment(c, SeedMembers[step[2]])
                      /\ UNCHANGED facVars
                 ELSE UNCHANGED vars
            /\ LET m == SeedMembers[step[2]]
               IN  done(CASE step[1] = "join"       -> [seed EXCEPT !.joined = @ \cup {m}]
                          [] step[1] = "contribute" -> [seed EXCEPT !.paid = @ \cup {m}]
                          [] step[1] = "payout"     -> [seed EXCEPT !.paid = {}])
         \/ seed' = [seed EXCEPT !.fates[i] = "failed"] /\ UNCHANGED vars

SeederStep == fund \/ Prepare \/ Send \/ Answered \/ Poll \/ ReadCircle \/ Complete \/ StopSeed

-----------------------------------------------------------------------------
(* The three worlds of this specification: the contracts and the form; the   *)
(* deployment command before any contract is used; the seeder on contracts   *)
(* wired by hand, which other creators use too.                             *)

Untouched == Init /\ page = "idle"
WiredByHand ==
  /\ config.reputation = ReputationContract /\ config.usdc = UsdcToken
  /\ admin # "none" /\ Circles = <<>> /\ log = <<>> /\ page = "idle"

OpsStep ==
  /\ EditSource \/ UpdateHashes \/ WriteProvenance \/ Deploy \/ Exit
     \/ \E e \in Environments, skip \in BOOLEAN : StartDeploy(e, skip)
  /\ UNCHANGED <<allVars, seed>>

\* Another creator's circle.
OthersCreate ==
  /\ seed.status # "none"
  /\ \E ms \in MemberLists : create_circle("alice", ms, 50, MIN_ROUND_DEADLINE_LEDGERS)
  /\ UNCHANGED <<page, opsVars>>

DeployInit == CreateInit /\ ops = OpsInit /\ seed = SeedInit

DeployNext ==
  \/ ops = OpsInit /\ seed = SeedInit /\ CreateNext /\ UNCHANGED opsVars
  \/ Untouched /\ seed = SeedInit /\ OpsStep
  \/ WiredByHand /\ ops = OpsInit /\ StartSeed /\ UNCHANGED <<allVars, ops>>
  \/ SeederStep /\ UNCHANGED <<allVars, ops>>
  \/ Settle /\ UNCHANGED <<page, ops>>
  \/ OthersCreate

DeploySpec == DeployInit /\ [][DeployNext]_deployVars

-----------------------------------------------------------------------------
(* What the decisions of the tools are compared on.                        *)

Hashes == [WASM_NAMES -> Versions]

Manifests ==
  UNION {writeManifest(ManifestInput(1, [network |-> n, passphrase |-> resolvePassphrase(n)],
           [repHash |-> h["reputation"], facHash |-> h["circle_factory"],
            circle |-> h["circle"], usdc |-> "usdc"]), 1) :
         n \in DOMAIN KNOWN_NETWORKS, h \in Hashes}

\* The same deployment as version 1 recorded it.
AsVersion1(m) ==
  LET v == [m EXCEPT !.manifestVersion = "1"]
  IN  [v EXCEPT !.integrityHash = computeIntegrityHash(v)]

\* A manifest with one of its values changed after it was written.
Edits(m) ==
  {[m EXCEPT ![f] = "other"] : f \in TextFields \cup {"networkPassphrase"}}
    \cup {[m EXCEPT ![c][f] = "other"] : c \in {"reputation", "circleFactory"}, f \in EntryFields}
    \cup {[m EXCEPT ![c].deployedAtLedger = 7] : c \in {"reputation", "circleFactory"}}
    \cup {[m EXCEPT !.deployedAt = 2], [m EXCEPT !.unknownField = TRUE]}
    \cup {[m EXCEPT !.manifestVersion = v] : v \in {"1", "2", "3"} \ {m.manifestVersion}}

AllEnvironments ==
  [network : {"testnet"}, passphrase : {""} \cup Range(KNOWN_NETWORKS), cli : BOOLEAN,
   rust : BOOLEAN, target : {"installed", "missing", "unknown"}, identity : BOOLEAN,
   rpcOk : BOOLEAN, xlm : {-1, 1, 2}, usdc : {"given", "empty", "unset"}]

\* The hashes of a file, the one of the circle not always among them.
Listed == Hashes \cup {[h EXCEPT !["circle"] = ""] : h \in Hashes}

ExpectedFiles ==
  {{}} \cup {{[toolchain |-> t, artifacts |-> a]} : t \in {"pinned", "other"}, a \in Listed}
Artifacts == Hashes \cup {[n \in WASM_NAMES |-> ""]}

ProductionEnv ==
  [CIRCLEUP_PROFILE |-> "production", STELLAR_RPC_URL |-> "mainnet",
   HORIZON_URL |-> "mainnet", NETWORK_PASSPHRASE |-> KNOWN_NETWORKS.mainnet,
   CIRCLE_FACTORY_ADDRESS |-> FacId[1], REPUTATION_ADDRESS |-> RepId[1],
   USDC_ADDRESS |-> "usdc", ADMIN_PUBLIC_KEY |-> "deployer", ADMIN_IDENTITY |-> "admin"]
Slips == {"", "other", "testnet host", "testnet in path", KNOWN_NETWORKS.testnet}
ProductionEnvs ==
  {ProductionEnv}
    \cup {[ProductionEnv EXCEPT ![k] = x] : k \in DOMAIN ProductionEnv, x \in Slips}

RemoteAnswers ==
  [rpcPassphrase : {KNOWN_NETWORKS.mainnet, KNOWN_NETWORKS.testnet}, adminMatches : {TRUE},
   horizonPassphrase : {KNOWN_NETWORKS.mainnet},
   funding : [rpcOk : BOOLEAN, keyValid : {TRUE}, xlm : {1, 2}, members : {{}},
              usdcGiven : {FALSE}]]

Workspaces ==
  [expected : {{}, {[toolchain |-> "pinned", artifacts |-> Build("v1")]}},
   provenance : {"absent", "undated", "old", "fresh"}, sdkBuilt : {TRUE}, schema : BOOLEAN,
   migrateScript : {TRUE}, migrations : {"named", "unnamed"}, envExamples : {TRUE},
   envFiles : BOOLEAN, versions : BOOLEAN, sdkAligned : BOOLEAN, oldNotes : BOOLEAN]
Topics == {{"added", "migration", "order", "code"}, {"fixed", "contract", "hashes"},
           {"changed", "contract", "migration"}, {"sdk changes"},
           {"added", "breaking", "compatibility", "migration"}}

-----------------------------------------------------------------------------
(* Properties.                                                             *)

\* Whatever is on disk as a manifest, and beside it as the old summary, names
\* contracts of one deployment that were all initialized, with the hashes of the
\* artifacts they were deployed from: an attempt that stops half-way leaves the
\* files of the last complete one.
ManifestIsComplete ==
  /\ \A m \in ops.manifest :
       LET a == ops.chain[m.deployedAt]
       IN  /\ a.reputation = "initialized" /\ a.factory = "initialized"
           /\ ManifestHashes(m) = [reputation |-> a.repHash, circle_factory |-> a.facHash,
                                   circle |-> a.circle]
           /\ validateManifest({m}, "testnet") = {}
  /\ \A l \in ops.legacy : \E m \in ops.manifest :
       /\ l.at <= m.deployedAt
       /\ l.at = m.deployedAt => /\ l.reputation = m.reputation.contractId
                                 /\ l.circleFactory = m.circleFactory.contractId
                                 /\ l.usdc = m.usdc

\* When the artifact check and the smoke test's comparison both pass, the
\* contracts the manifest names run the artifacts that are on disk.
GreenMeansRunning ==
  \A m \in ops.manifest :
    (verifyHashes(ops.expected, ops.wasm) /\ checkManifestContractAlignment({m}, ops.expected)) =>
      LET a == ops.chain[m.deployedAt]
      IN  [reputation |-> a.repHash, circle_factory |-> a.facHash, circle |-> a.circle]
            = ops.wasm

\* A manifest that is edited after it was written is refused, whatever is edited
\* in a version 2 manifest; one of version 1 that still passes names the same
\* contracts on the same network, deployed at the same time.
EditsAreCaught ==
  \A m \in Manifests :
    /\ validateManifest({m}, m.network) = {}
    /\ \A e \in Edits(m) : validateManifest({e}, "") # {}
    /\ \A e \in Edits(AsVersion1(m)) : validateManifest({e}, "") = {} =>
         /\ legacyPayload(e) = legacyPayload(m)
         /\ \A network \in DOMAIN KNOWN_NETWORKS \ {m.network} :
              validateManifest({e}, network) # {}

\* After a passing preflight every step of the deployment can run, but for what
\* the preflight does not look at: an endpoint that does not answer, the
\* passphrase, an empty token address and a list of targets it could not read.
PreflightPredicts ==
  \A e \in AllEnvironments :
    (/\ runPreflightChecks(e) = {}
     /\ e.rpcOk /\ e.usdc # "empty" /\ e.target # "unknown"
     /\ e.passphrase = resolvePassphrase(e.network)) =>
      \A i \in DOMAIN DeploySteps : CanRun(e, DeploySteps[i])

\* The upgrade report warns of every contract whose artifact differs from the
\* deployed one or from the expected one, and finds nothing blocking where the
\* command that stands in for it exits cleanly.
ReportWarns ==
  \A file \in {{}} \cup {{m} : m \in Manifests}, expected \in ExpectedFiles, wasm \in Artifacts :
    LET report == generateUpgradeCompatibilityReport(file, expected, wasm, "pinned", "pinned", FALSE)
        unlike(kind, known) == \A n \in WASM_NAMES :
          (wasm[n] # "" /\ known[n] \notin {"", wasm[n]}) =>
            Finding("warning", <<kind, n>>) \in report
    IN  /\ \A m \in file : unlike("deployed", ManifestHashes(m))
        /\ \A e \in expected : unlike("baseline", e.artifacts)
        /\ upgradeReportExit(expected, wasm) => \A x \in report : x.severity # "blocking"

\* The gates of a release do not contradict each other: an environment ready for
\* the main network passes the profile check, unless "testnet" is in the path of
\* its endpoint, the check of the artifacts and the smoke test's check of the
\* manifest; and a workspace that passes the release check and whose manifest
\* names its artifacts does not fail the smoke tests.
GatesOfAReleaseAgree ==
  /\ \A env \in ProductionEnvs, m \in Manifests, expected \in ExpectedFiles, wasm \in Artifacts,
        remote \in RemoteAnswers :
       mainnetReadiness(evaluateMainnetContext([network |-> "mainnet", confirmMainnet |-> TRUE],
                          env, {m}, expected, wasm, "pinned"), remote) =>
         /\ \/ env.STELLAR_RPC_URL = "testnet in path"
            \/ validateEnv({loadEnv(ProductionEnv, <<>>, env, <<>>)}, "production", TRUE, FALSE)
         /\ verifyHashes(expected, wasm)
         /\ checkDeploymentManifest(TRUE, {m}, "mainnet") = "pass"
         /\ checkContractHashes(expected)
         /\ runPreflightChecks([network |-> "mainnet", cli |-> TRUE, rust |-> TRUE,
              target |-> "installed", identity |-> TRUE, passphrase |-> remote.rpcPassphrase,
              rpcOk |-> remote.funding.rpcOk, xlm |-> remote.funding.xlm]) = {}
  /\ \A f \in Workspaces, topics \in Topics, m \in Manifests :
       LET smoke == runSmokeTests(m.network, TRUE, {"contracts", "sdk", "indexer", "app"}, f, {m})
       IN  /\ smoke # "fail" => checkManifestContractAlignment({m}, f.expected)
           /\ (/\ releaseCheck(f, topics)
               /\ f.schema /\ f.provenance # "absent"
               /\ checkManifestContractAlignment({m}, f.expected)) => smoke # "fail"

\* The seeder's journal: no transaction reaches the network before it is on
\* disk; confirmed and failed are what happened; no step is taken on another
\* creator's circle, even when the journal names one; and a completed run has
\* seeded its own circle with all its steps.
JournalIsHonest ==
  /\ Len(seed.fates) <= Len(seed.journal)
  /\ \A i \in DOMAIN seed.fates :
       /\ seed.journal[i] = "confirmed" => seed.fates[i] = "applied"
       /\ seed.journal[i] = "failed" => seed.fates[i] \in {"failed", "refused"}
       /\ i < Len(seed.fates) => seed.journal[i] = "confirmed"
  /\ \A c \in DOMAIN circle \ seed.made : \A m \in Range(SeedMembers) :
       m \notin Range(circle[c].members) /\ awards[c][m] = 0
  /\ seed.status = "completed" =>
       /\ seed.circleAddress = seed.made /\ Len(seed.journal) = Len(SeedSteps)
       /\ Range(seed.journal) = {"confirmed"}
       /\ \A c \in seed.made : awards[c][SeedMembers[1]] = 1

\* Every tool and every layer between a form and a circle tells the truth about
\* the next one: the form, the SDK and the contracts draw the same line, and what
\* the operators' tools write and answer is what is on the chain and on disk.
LayersAgree ==
  /\ FormAndSdkAgree
  /\ EditsAreCaught /\ PreflightPredicts /\ ReportWarns /\ GatesOfAReleaseAgree
  /\ ManifestIsComplete /\ GreenMeansRunning /\ JournalIsHonest
=============================================================================
