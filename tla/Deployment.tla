----------------------------- MODULE Deployment -----------------------------
(***************************************************************************)
(* The deployment scripts (backend/scripts, backend/*.js, scripts/*.sh).   *)
(* Each script is data: which classes it declares, what it passes to each  *)
(* constructor and where it leaves the new addresses.  One engine runs     *)
(* them, step by step, against the chain, the backend's .env file and the  *)
(* address files, while any step may fail and the operator pastes printed  *)
(* blocks into .env and restarts the backend.                              *)
(*                                                                         *)
(* Addresses are numbers; 0 is the empty string.  1, 2 and 3 are the       *)
(* token, header store and vault that config/env.ts and the scripts name   *)
(* as already deployed.                                                    *)
(***************************************************************************)
EXTENDS Naturals, Sequences

CONSTANTS MaxRuns,      \* bound on script runs
          MaxAddress    \* bound on addresses

ASSUME DeploymentAssumption == MaxRuns \in Nat /\ MaxAddress \in Nat /\ MaxAddress >= 3

VARIABLES built,      \* the vault in target/: its arguments and its version
          declared,   \* <<network, contract, arguments, version>> of each class
          chain,      \* the contracts, by address
          next,       \* the next fresh address
          job,        \* the script that runs
          runs,       \* how many scripts were started
          env,        \* backend/.env: names to addresses
          rpc,        \* the network STARKNET_RPC_URL in backend/.env leads to
          files,      \* address files: what each says of token and vault
          printed,    \* the last block of addresses a script printed
          backend     \* the addresses the running backend read at its start

vars == <<built, declared, chain, next, job, runs, env, rpc, files, printed, backend>>

Slots == {"token", "store", "vault"}

\* Which contract each environment name is about.
Names == [MOCK_BTC_ADDR |-> "token", VAULT_ADDR |-> "vault",
          MOCKBTC_CONTRACT_ADDRESS |-> "token", VAULT_CONTRACT_ADDRESS |-> "vault",
          HEADER_STORE_CONTRACT_ADDRESS |-> "store"]

\* The names the scripts call by, and those the backend reads.
LegacyNames == {"MOCK_BTC_ADDR", "VAULT_ADDR"}
BackendNames == {"MOCKBTC_CONTRACT_ADDRESS", "VAULT_CONTRACT_ADDRESS"}
SpvNames == {"HEADER_STORE_CONTRACT_ADDRESS", "VAULT_CONTRACT_ADDRESS", "VAULT_ADDR"}

(***************************************************************************)
(* The steps of a script.                                                  *)
(***************************************************************************)
\* A declaration: `again` says whether a class that is declared already is
\* taken as it is, `ifFails` whether a failure stops the script.
Declare(class) == [op |-> "declare", class |-> class, again |-> FALSE, ifFails |-> "stop"]
DeclareIfNew(class) == [Declare(class) EXCEPT !.again = TRUE]
TryDeclare(class) == [DeclareIfNew(class) EXCEPT !.ifFails = "goOn"]

\* A deployment: `classes` are the class hashes it may use, the one of the
\* build or the one written in the script; `estimated`, that the fee is
\* estimated first, which runs the constructor; `waits`, that the receipt is
\* waited for; `tries`, how often it is tried and `retryWait`, that a failed
\* wait is tried again too.
Deploy(class, args) ==
  [op |-> "deploy", class |-> class, args |-> args, classes |-> {"built"}, estimated |-> TRUE,
   waits |-> TRUE, tries |-> 1, retryWait |-> FALSE, ifFails |-> "stop"]

PresetFees(step) == [step EXCEPT !.estimated = FALSE]
Timed(step) == [step EXCEPT !.waits = FALSE]
Retried(step) == [step EXCEPT !.tries = 2]
RetriedWithWait(step) == [Retried(step) EXCEPT !.retryWait = TRUE]
Hidden(step) == [step EXCEPT !.ifFails = "goOn"]
Misread(step) == [step EXCEPT !.ifFails = "misread"]   \* takes an address from the error text
ByHash(step) == [step EXCEPT !.classes = {"written"}]
MaybeByHash(step) == [step EXCEPT !.classes = {"built", "written"}]

\* Where the addresses go.
Show(names) == [op |-> "print", names |-> names]
EditEnv(names, append, net) == [op |-> "env", names |-> names, append |-> append, net |-> net]
Write(file, slots) == [op |-> "file", file |-> file, slots |-> slots, keep |-> FALSE]
AppendTo(file, slots) == [Write(file, slots) EXCEPT !.keep = TRUE]

Words(n) == [i \in 1 .. n |-> "word"]
Mock == Deploy("token", <<"owner">>)
Vault == Deploy("vault", <<"token">>)

\* A script: its network, where its token and store come from, its steps.
Script(net, token, store, steps) == [net |-> net, token |-> token, store |-> store, steps |-> steps]
NewPair(steps) == Script("sepolia", "none", "none", steps)

(***************************************************************************)
(* Scripts that deploy a token, most of them with a vault, and edit        *)
(* backend/.env.                                                           *)
(***************************************************************************)
DevnetPair(mock, vault) ==
  Script("devnet", "none", "none",
         <<Declare("token"), mock, Declare("vault"), vault, EditEnv(LegacyNames, FALSE, "devnet")>>)

deploy_devnet_safe == DevnetPair(Timed(Mock), Timed(Vault))
deploy_devnet_local == DevnetPair(Timed(Mock), Timed(Vault))
deploy_devnet_surgical == DevnetPair(Timed(Mock), Timed(Vault))   \* polls ten times, then goes on
deploy_devnet_v2 == DevnetPair(Mock, Vault)
deploy_devnet_proxy == DevnetPair(Mock, Vault)
deploy_devnet_override == DevnetPair(Mock, Vault)
deploy_devnet_bridged == DevnetPair(Mock, Vault)

deploy_contracts ==
  Script("env", "none", "none",
         <<DeclareIfNew("token"), PresetFees(Mock), DeclareIfNew("vault"), PresetFees(Vault),
           EditEnv(LegacyNames, TRUE, "env")>>)

deploy_simple_final ==
  Script("devnet", "none", "none",
         <<Declare("token"), Timed(Mock), EditEnv({"MOCK_BTC_ADDR"}, FALSE, "devnet")>>)

redeploy_sepolia_fix ==
  NewPair(<<TryDeclare("token"), Timed(Mock), TryDeclare("vault"), MaybeByHash(Timed(Vault)),
            EditEnv(LegacyNames, FALSE, "env")>>)

\* The pipe after `starkli deploy` hides its failure from set -e.
redeploy_with_starkli ==
  NewPair(<<DeclareIfNew("token"), Hidden(Mock), DeclareIfNew("vault"), Hidden(Vault),
            EditEnv(LegacyNames, FALSE, "env")>>)

(***************************************************************************)
(* Scripts that deploy a token and a vault and print or file the addresses *)
(***************************************************************************)
\* Faulty variant: the printed block has no token.
FixedPrintsVaultOnly ==
  Script("env", "none", "none",
         <<DeclareIfNew("token"), DeclareIfNew("vault"), Mock, Vault,
           Write("backend/deployment-info.json", {"token", "vault"}),
           Show({"VAULT_CONTRACT_ADDRESS"})>>)

deploy_sepolia_fixed ==
  Script("env", "none", "none",
         <<DeclareIfNew("token"), DeclareIfNew("vault"), Mock, Vault,
           Write("backend/deployment-info.json", {"token", "vault"}), Show(BackendNames)>>)

deploy_to_sepolia ==
  NewPair(<<DeclareIfNew("token"), Mock, DeclareIfNew("vault"), Deploy("vault", <<"token", "owner">>),
            Show(BackendNames \cup LegacyNames)>>)

deploy_sepolia_simple ==
  NewPair(<<DeclareIfNew("token"), TryDeclare("vault"), Retried(Mock), Retried(Vault),
            Show(LegacyNames)>>)

deploy_fresh ==
  NewPair(<<DeclareIfNew("token"), Mock, DeclareIfNew("vault"), Vault,
            Write("NEW_DEPLOYMENT.json", {"token", "vault"})>>)

deploy_contracts_sepolia ==
  Script("env", "none", "none",
         <<DeclareIfNew("token"), Mock, DeclareIfNew("vault"), Vault, Show(BackendNames)>>)

deploy_vault_js ==
  NewPair(<<DeclareIfNew("token"), Mock, DeclareIfNew("vault"), Vault,
            Show(BackendNames \cup LegacyNames)>>)

DEPLOY_REAL ==
  Script("devnet", "none", "none",
         <<ByHash(Timed(Mock)), ByHash(Timed(Vault)),
           Write("privatebtc-backend/deployment-info.json", {"token", "vault"})>>)

DEPLOY_SEPOLIA ==
  NewPair(<<Declare("token"), Timed(Mock), Declare("vault"), Timed(Vault),
            Write("backend/deployment-info.json", {"token", "vault"})>>)

deploy_sepolia_starkli ==
  NewPair(<<DeclareIfNew("token"), Misread(Mock), DeclareIfNew("vault"), Misread(Vault),
            Show(LegacyNames)>>)

\* MockBTC gets no constructor argument here.
deploy_sepolia_v10 ==
  NewPair(<<Declare("token"), Timed(Deploy("token", <<>>)), Declare("vault"), Timed(Vault),
            Show(LegacyNames), Write("deployment-sepolia.json", {"token", "vault"})>>)

(***************************************************************************)
(* Scripts that deploy a token only.                                       *)
(***************************************************************************)
TokenOnly(steps) == NewPair(steps \o <<Write("mock_btc_address.txt", {"token"})>>)

deploy_blast_declare == TokenOnly(<<DeclareIfNew("token"), PresetFees(Mock)>>)
deploy_blast_final == TokenOnly(<<PresetFees(Mock)>>)
deploy_v3_force == TokenOnly(<<PresetFees(Mock)>>)
deploy_v3_force_debug == TokenOnly(<<PresetFees(Mock)>>)
deploy_v3_force_blast == TokenOnly(<<PresetFees(Mock)>>)
deploy_nethermind == TokenOnly(<<PresetFees(Mock)>>)
deploy_v3_retry == TokenOnly(<<TryDeclare("token"), Mock>>)
deploy_mock_btc == TokenOnly(<<RetriedWithWait(Mock)>>)
deploy_mock_btc_debug == NewPair(<<RetriedWithWait(Mock)>>)
deploy_v3_explicit == NewPair(<<Mock>>)

\* Faulty variant: >> instead of >.
MockShAppends ==
  Script("devnet", "none", "none",
         <<DeclareIfNew("token"), Timed(Mock), AppendTo("deploy_info.sh", {"token"})>>)

deploy_mock_sh ==
  Script("devnet", "none", "none",
         <<DeclareIfNew("token"), Timed(Mock), Write("deploy_info.sh", {"token"})>>)

(***************************************************************************)
(* Scripts that deploy a vault for a token that exists.                    *)
(***************************************************************************)
deploy_vault_sh ==
  Script("devnet", "given", "none",
         <<DeclareIfNew("vault"), Timed(Vault), AppendTo("deploy_info.sh", {"vault"})>>)

deploy_new_vault ==
  Script("env", "config", "none",
         <<DeclareIfNew("vault"), Vault, Show({"VAULT_ADDR", "VAULT_CONTRACT_ADDRESS"})>>)

deploy_vault_only == Script("env", "config", "none", <<DeclareIfNew("vault"), Vault>>)

SpvPair(token) ==
  Script("env", token, "none",
         <<DeclareIfNew("store"), Deploy("store", <<"owner">>), DeclareIfNew("vault"),
           Deploy("vault", <<"token", "store">> \o Words(5)), Show(SpvNames)>>)

deploy_spv == SpvPair("required")
deploy_spv_contracts == SpvPair("env")

deploy_p2tr_vault ==
  Script("sepolia", "written", "written",
         <<Declare("vault"), Timed(Deploy("vault", <<"token", "store">> \o Words(8))),
           Show({"VAULT_CONTRACT_ADDRESS"}), Write("deploy_p2tr_vault.json", {"vault"})>>)

Scripts ==
  {deploy_devnet_safe, deploy_devnet_local, deploy_devnet_surgical, deploy_devnet_v2,
   deploy_devnet_proxy, deploy_devnet_override, deploy_devnet_bridged, deploy_contracts,
   deploy_simple_final, redeploy_sepolia_fix, redeploy_with_starkli, deploy_sepolia_fixed,
   deploy_to_sepolia, deploy_sepolia_simple, deploy_fresh, deploy_contracts_sepolia,
   deploy_vault_js, DEPLOY_REAL, DEPLOY_SEPOLIA, deploy_sepolia_starkli, deploy_sepolia_v10,
   deploy_blast_declare, deploy_blast_final, deploy_v3_force, deploy_v3_force_debug,
   deploy_v3_force_blast, deploy_nethermind, deploy_v3_retry, deploy_mock_btc,
   deploy_mock_btc_debug, deploy_v3_explicit, deploy_mock_sh, deploy_vault_sh,
   deploy_new_vault, deploy_vault_only, deploy_spv, deploy_spv_contracts, deploy_p2tr_vault}

-----------------------------------------------------------------------------
(***************************************************************************)
(* The engine.                                                             *)
(***************************************************************************)
Empty == [n \in {} |-> 0]
\* The function f, and g where f is not defined.
Overlay(f, g) == [x \in DOMAIN f \cup DOMAIN g |-> IF x \in DOMAIN f THEN f[x] ELSE g[x]]
NoSlots == [s \in Slots |-> 0]
Idle == [net |-> "none", slot |-> NoSlots, steps |-> <<>>]
Down == [token |-> 0, store |-> 0, vault |-> 0]
AddressFiles == {"backend/deployment-info.json", "privatebtc-backend/deployment-info.json",
                 "NEW_DEPLOYMENT.json", "deployment-sepolia.json", "deploy_info.sh",
                 "mock_btc_address.txt", "deploy_p2tr_vault.json"}

\* The address the backend's configuration gives a name, by default its own.
Configured(name, default) == IF name \in DOMAIN env THEN env[name] ELSE default

\* A source of the vault is known by how many arguments its constructor
\* takes and by its version; the present one may be edited once (a bound).
Builds == ({1, 2, 7, 10} \X {"first"}) \cup {<<10, "later">>}

\* The class a deployment uses: the one of the build, or the one whose hash
\* is written in the script.
ClassOf(contract, which) ==
  <<job.net, contract>> \o IF contract = "vault" /\ which = "built" THEN built ELSE <<1, "first">>

Init ==
  /\ built = <<10, "first">>     \* contracts/src/vault.cairo as it is
  /\ declared = {<<"sepolia", "token", 1, "first">>, <<"sepolia", "store", 1, "first">>,
                  <<"sepolia", "vault", 7, "first">>}    \* those of addresses 1, 2 and 3
  /\ chain = <<[class |-> "token", args |-> 1, token |-> 0, store |-> 0],
               [class |-> "store", args |-> 1, token |-> 0, store |-> 0],
               [class |-> "vault", args |-> 7, token |-> 1, store |-> 2]>>
  /\ next = 4
  /\ job = Idle /\ runs = 0
  /\ env \in {Empty, [n \in DOMAIN Names |-> CASE Names[n] = "token" -> 1
                                                [] Names[n] = "store" -> 2
                                                [] OTHER -> 3]}
  /\ rpc = "sepolia"
  /\ files = [f \in AddressFiles |-> [token |-> 0, vault |-> 0]]
  /\ printed = Empty
  /\ backend = Down

\* The token a script starts with; the operator gives deploy_vault.sh the
\* address deploy_mock.sh saved.
TokenAtStart(s) ==
  CASE s.token = "written" -> 1
    [] s.token \in {"config", "env", "required"} -> Configured("MOCKBTC_CONTRACT_ADDRESS", 1)
    [] s.token = "given" -> files["deploy_info.sh"].token
    [] OTHER -> 0

\* What a script checks before anything else: deploy_vault.sh its argument,
\* deploy_spv.js its environment, and what imports config/env.ts the URL.
CanStart(s) ==
  /\ s.token = "given" => TokenAtStart(s) # 0
  /\ s.token = "required" => "MOCKBTC_CONTRACT_ADDRESS" \in DOMAIN env
  /\ s.token = "config" => rpc = "sepolia"

StartScript ==
  /\ job = Idle /\ runs < MaxRuns
  /\ \E s \in Scripts :
       /\ CanStart(s)
       /\ job' = [net |-> IF s.net = "env" THEN rpc ELSE s.net,
                  slot |-> [NoSlots EXCEPT !.token = TokenAtStart(s),
                                           !.store = IF s.store = "written" THEN 2 ELSE 0],
                  steps |-> s.steps]
  /\ runs' = runs + 1
  /\ UNCHANGED <<built, declared, chain, next, env, rpc, files, printed, backend>>

At(op) == job # Idle /\ Head(job.steps).op = op
Step == Head(job.steps)

\* The script goes on with these addresses, or is over.
GoOn(slot) ==
  job' = IF Len(job.steps) = 1 THEN Idle
         ELSE [job EXCEPT !.slot = slot, !.steps = Tail(job.steps)]

DeclareClass ==
  /\ At("declare")
  /\ LET class == ClassOf(Step.class, "built") IN
     /\ class \in declared => Step.again
     /\ declared' = declared \cup {class}
  /\ GoOn(job.slot)
  /\ UNCHANGED <<built, chain, next, runs, env, rpc, files, printed, backend>>

\* A failed declaration that the script only logs.
DeclareFails ==
  /\ At("declare") /\ Step.ifFails = "goOn"
  /\ GoOn(job.slot)
  /\ UNCHANGED <<built, declared, chain, next, runs, env, rpc, files, printed, backend>>

\* The constructor takes these arguments, and they are known.
Fits(which) ==
  /\ ClassOf(Step.class, which) \in declared
  /\ Len(Step.args) = ClassOf(Step.class, which)[3]
  /\ \A s \in Slots : (\E i \in DOMAIN Step.args : Step.args[i] = s) => job.slot[s] # 0

\* What the constructor of the vault stores.
Passed(s) == IF \E i \in DOMAIN Step.args : Step.args[i] = s THEN job.slot[s] ELSE 0

NewContract ==
  /\ \E which \in Step.classes : Fits(which)
  /\ next <= MaxAddress
  /\ chain' = Overlay(chain, [a \in {next} |-> [class |-> Step.class, args |-> Len(Step.args),
                                                token |-> Passed("token"),
                                                store |-> Passed("store")]])
  /\ next' = next + 1

DeployContract ==
  /\ At("deploy") /\ NewContract
  /\ GoOn([job.slot EXCEPT ![Step.class] = next])
  /\ UNCHANGED <<built, declared, runs, env, rpc, files, printed, backend>>

\* With preset fees nothing runs the constructor before the transaction, and
\* waitForTransaction returns for a reverted one too: the address computed
\* for the contract is kept although there is none.
DeployReverts ==
  /\ At("deploy") /\ ~Step.estimated /\ next <= MaxAddress
  /\ next' = next + 1
  /\ GoOn([job.slot EXCEPT ![Step.class] = next])
  /\ UNCHANGED <<built, declared, chain, runs, env, rpc, files, printed, backend>>

\* A failed deployment the script does not notice.
DeployFailsUnseen ==
  /\ At("deploy")
  /\ \/ Step.ifFails = "goOn" /\ GoOn([job.slot EXCEPT ![Step.class] = 0]) /\ next' = next
     \/ /\ Step.ifFails = "misread" /\ next <= MaxAddress
        /\ GoOn([job.slot EXCEPT ![Step.class] = next]) /\ next' = next + 1
  /\ UNCHANGED <<built, declared, chain, runs, env, rpc, files, printed, backend>>

\* The second attempt, after a failed first one or, where the wait is inside
\* the same try, after a first one that went through.
DeployRetries ==
  /\ At("deploy") /\ Step.tries > 1
  /\ \/ UNCHANGED <<chain, next>>
     \/ Step.retryWait /\ NewContract
  /\ job' = [job EXCEPT !.steps = <<[Step EXCEPT !.tries = 1]>> \o Tail(job.steps)]
  /\ UNCHANGED <<built, declared, runs, env, rpc, files, printed, backend>>

PrintBlock ==
  /\ At("print")
  /\ printed' = [n \in Step.names |-> job.slot[Names[n]]]
  /\ GoOn(job.slot)
  /\ UNCHANGED <<built, declared, chain, next, runs, env, rpc, files, backend>>

\* replace() and sed leave a name alone that .env does not have.
UpdateEnv ==
  /\ At("env")
  /\ LET edited == IF Step.append THEN Step.names ELSE Step.names \cap DOMAIN env IN
     env' = Overlay([n \in edited |-> job.slot[Names[n]]], env)
  /\ rpc' = IF Step.net = "env" THEN rpc ELSE Step.net
  /\ GoOn(job.slot)
  /\ UNCHANGED <<built, declared, chain, next, runs, files, printed, backend>>

WriteFile ==
  /\ At("file")
  /\ files' = [files EXCEPT ![Step.file] =
                 [s \in {"token", "vault"} |-> IF s \in Step.slots THEN job.slot[s]
                                               ELSE IF Step.keep THEN @[s] ELSE 0]]
  /\ GoOn(job.slot)
  /\ UNCHANGED <<built, declared, chain, next, runs, env, rpc, printed, backend>>

\* A script stops at any step: an error, exit(1), set -e, or it is killed.
ScriptStops ==
  /\ job # Idle /\ job' = Idle
  /\ UNCHANGED <<built, declared, chain, next, runs, env, rpc, files, printed, backend>>

\* Between runs the operator pastes the whole block printed last into .env,
PasteBlock ==
  /\ job = Idle /\ printed # Empty
  /\ env' = Overlay(printed, env)
  /\ UNCHANGED <<built, declared, chain, next, job, runs, rpc, files, printed, backend>>

\* checks out and builds another version of the contracts,
Rebuild ==
  /\ job = Idle /\ runs < MaxRuns
  /\ built' \in Builds
  /\ UNCHANGED <<declared, chain, next, job, runs, env, rpc, files, printed, backend>>

\* and restarts the backend, which exits unless the URL is an https one.
RestartBackend ==
  /\ job = Idle
  /\ backend' = IF rpc # "sepolia" THEN Down
                ELSE [token |-> Configured("MOCKBTC_CONTRACT_ADDRESS", 1),
                      vault |-> Configured("VAULT_CONTRACT_ADDRESS", 3),
                      store |-> Configured("HEADER_STORE_CONTRACT_ADDRESS", 0)]
  /\ UNCHANGED <<built, declared, chain, next, job, runs, env, rpc, files, printed>>

Next ==
  \/ StartScript \/ DeclareClass \/ DeclareFails \/ DeployContract \/ DeployReverts
  \/ DeployFailsUnseen \/ DeployRetries \/ PrintBlock \/ UpdateEnv \/ WriteFile \/ ScriptStops
  \/ PasteBlock \/ Rebuild \/ RestartBackend

Spec == Init /\ [][Next]_vars

-----------------------------------------------------------------------------
\* A file that names a token and a vault names two that belong together,
\* whatever failed before, whichever scripts wrote it and with whichever
\* build (deploy_sepolia_fixed.ts:203-222, deploy_fresh.ts, deploy_info.sh).
FilesNameOneDeployment ==
  \A f \in AddressFiles :
    files[f].token # 0 /\ files[f].vault \in DOMAIN chain
      => chain[files[f].vault].token = files[f].token

\* What deploy_p2tr_vault.sh gives its vault whatever .env says.
HoldsWritten(contract) == contract.args = 10 /\ contract.token = 1 /\ contract.store = 2

\* The backend mints with the token its vault holds, and relays headers into
\* the store its vault reads (config/env.ts:13-14, index.ts:160), unless its
\* vault is one of deploy_p2tr_vault.sh with the token and store written
\* there: every other block the scripts print names all that changes together.
OnlyWrittenVaultsMismatch ==
  backend.vault \in DOMAIN chain =>
    \/ HoldsWritten(chain[backend.vault])
    \/ /\ chain[backend.vault].token = backend.token
       /\ backend.store # 0 => chain[backend.vault].store \in {0, backend.store}

\* Without the exception.  deploy_p2tr_vault.sh:94-95 asks for the new vault's
\* address in .env and says nothing of the token and the store there, which
\* may be those of a later deployment than the written ones.
BackendSpeaksOneDeployment ==
  backend.vault \in DOMAIN chain =>
    /\ chain[backend.vault].token = backend.token
    /\ backend.store # 0 => chain[backend.vault].store \in {0, backend.store}
=============================================================================
