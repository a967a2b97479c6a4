--------------------------- MODULE DeploymentProofs ---------------------------
(***************************************************************************)
(* Proofs about the deployment scripts, for any number of runs and any     *)
(* bound on addresses: the address files never pair a vault with a token   *)
(* of another deployment, and the backend's configuration pairs it with    *)
(* another token or header store only if deploy_p2tr_vault.sh made it.     *)
(*                                                                         *)
(* The argument has two halves.  What a script must be like so that it     *)
(* cannot mix deployments is a property of its list of steps (SoundScript),*)
(* and each of the scripts has it.  That the engine, run on such scripts   *)
(* with failures, retries, pastes and restarts in between, keeps the       *)
(* invariant DeploymentInv does not depend on which scripts they are.      *)
(***************************************************************************)
EXTENDS Deployment, SequenceTheorems, TLAPS

-----------------------------------------------------------------------------
(***************************************************************************)
(* Steps and their types.                                                  *)
(***************************************************************************)
\* What a script says of a failure, and what it may pass to a constructor.
Failures == {"stop", "goOn", "misread"}
Arguments == {"owner", "token", "store", "word"}

\* The steps of each kind.
DeclareSteps == [op : {"declare"}, class : Slots, again : BOOLEAN, ifFails : Failures]
DeploySteps == [op : {"deploy"}, class : Slots, args : Seq(Arguments),
                classes : SUBSET {"built", "written"}, estimated : BOOLEAN, waits : BOOLEAN,
                tries : Nat, retryWait : BOOLEAN, ifFails : Failures]
PrintSteps == [op : {"print"}, names : SUBSET DOMAIN Names]
EnvSteps == [op : {"env"}, names : SUBSET LegacyNames, append : BOOLEAN, net : {"env", "devnet"}]
FileSteps == [op : {"file"}, file : AddressFiles, slots : SUBSET {"token", "vault"}, keep : BOOLEAN]
Steps == DeclareSteps \cup DeploySteps \cup PrintSteps \cup EnvSteps \cup FileSteps

Deploys(step, class) == step.op = "deploy" /\ step.class = class
Takes(step, slot) == \E k \in DOMAIN step.args : step.args[k] = slot
Makes(step, class, args) == step \in DeploySteps /\ step.class = class /\ step.args = args

\* A declaration, whatever is said of failures, is a declaration.
LEMMA DeclarationsTyped ==
  ASSUME NEW class \in Slots
  PROVE  /\ Declare(class) \in DeclareSteps
         /\ DeclareIfNew(class) \in DeclareSteps
         /\ TryDeclare(class) \in DeclareSteps
<1>1. Declare(class) \in DeclareSteps
  BY DEF Declare, DeclareSteps, Failures
<1>2. ASSUME NEW step \in DeclareSteps
      PROVE  [step EXCEPT !.again = TRUE] \in DeclareSteps /\ [step EXCEPT !.ifFails = "goOn"] \in DeclareSteps
  BY DEF DeclareSteps, Failures
<1>3. DeclareIfNew(class) \in DeclareSteps
  BY <1>1, <1>2 DEF DeclareIfNew
<1> QED
  BY <1>1, <1>2, <1>3 DEF TryDeclare

\* A plain deployment makes what it names.
LEMMA DeployMakes ==
  ASSUME NEW class \in Slots, NEW args \in Seq(Arguments)
  PROVE  Makes(Deploy(class, args), class, args)
  BY DEF Makes, Deploy, DeploySteps, Failures

\* How a deployment is paid for, waited for, retried or found in the
\* registry changes nothing about what it makes.
LEMMA ModifiersMake ==
  ASSUME NEW class, NEW args, NEW step, Makes(step, class, args)
  PROVE  /\ Makes(PresetFees(step), class, args)
         /\ Makes(Timed(step), class, args)
         /\ Makes(Retried(step), class, args)
         /\ Makes(RetriedWithWait(step), class, args)
         /\ Makes(Hidden(step), class, args)
         /\ Makes(Misread(step), class, args)
         /\ Makes(ByHash(step), class, args)
         /\ Makes(MaybeByHash(step), class, args)
<1>1. Makes(PresetFees(step), class, args)
  BY DEF Makes, DeploySteps, PresetFees
<1>2. Makes(Timed(step), class, args)
  BY DEF Makes, DeploySteps, Timed
<1>3. Makes(Retried(step), class, args)
  BY DEF Makes, DeploySteps, Retried
<1>4. Makes(RetriedWithWait(step), class, args)
  BY <1>3 DEF Makes, DeploySteps, RetriedWithWait
<1>5. Makes(Hidden(step), class, args)
  BY DEF Makes, DeploySteps, Failures, Hidden
<1>6. Makes(Misread(step), class, args)
  BY DEF Makes, DeploySteps, Failures, Misread
<1>7. Makes(ByHash(step), class, args)
  BY DEF Makes, DeploySteps, ByHash
<1>8. Makes(MaybeByHash(step), class, args)
  BY DEF Makes, DeploySteps, MaybeByHash
<1> QED
  BY <1>1, <1>2, <1>3, <1>4, <1>5, <1>6, <1>7, <1>8

\* MockBTC takes its owner,
LEMMA MockMakes == Makes(Mock, "token", <<"owner">>)
<1>1. <<"owner">> \in Seq(Arguments)
  BY DEF Arguments
<1> QED
  BY <1>1, DeployMakes DEF Mock, Slots

\* and the usual vault its token.
LEMMA VaultMakes == Makes(Vault, "vault", <<"token">>)
<1>1. <<"token">> \in Seq(Arguments)
  BY DEF Arguments
<1> QED
  BY <1>1, DeployMakes DEF Vault, Slots

\* A file written anew and a file appended to.
LEMMA FileStepsTyped ==
  ASSUME NEW file \in AddressFiles, NEW slots \in SUBSET {"token", "vault"}
  PROVE  /\ Write(file, slots) \in FileSteps
         /\ Write(file, slots).slots = slots /\ Write(file, slots).file = file
         /\ ~ Write(file, slots).keep
         /\ AppendTo(file, slots) \in FileSteps
         /\ AppendTo(file, slots).slots = slots /\ AppendTo(file, slots).file = file
         /\ AppendTo(file, slots).keep
<1>1. /\ Write(file, slots) \in FileSteps
      /\ Write(file, slots).slots = slots /\ Write(file, slots).file = file
      /\ ~ Write(file, slots).keep
  BY DEF Write, FileSteps
<1>2. ASSUME NEW step \in FileSteps
      PROVE  /\ [step EXCEPT !.keep = TRUE] \in FileSteps
             /\ [step EXCEPT !.keep = TRUE].slots = step.slots
             /\ [step EXCEPT !.keep = TRUE].file = step.file
             /\ [step EXCEPT !.keep = TRUE].keep
  BY DEF FileSteps
<1> QED
  BY <1>1, <1>2 DEF AppendTo

\* A printed block has the names it was given.
LEMMA PrintStepsTyped ==
  ASSUME NEW names \in SUBSET DOMAIN Names
  PROVE  Show(names) \in PrintSteps /\ Show(names).names = names
  BY DEF Show, PrintSteps

\* An edit of .env touches only names the scripts call by.
LEMMA EnvStepsTyped ==
  ASSUME NEW names \in SUBSET LegacyNames, NEW append \in BOOLEAN, NEW net \in {"env", "devnet"}
  PROVE  EditEnv(names, append, net) \in EnvSteps
  BY DEF EditEnv, EnvSteps

-----------------------------------------------------------------------------
(***************************************************************************)
(* Scripts that cannot mix deployments.                                    *)
(***************************************************************************)
Keeps(step) == step \in FileSteps /\ step.keep
Prints(step) == step \in PrintSteps /\ "VAULT_CONTRACT_ADDRESS" \in step.names
NamesToken(step) == "MOCKBTC_CONTRACT_ADDRESS" \in step.names
NamesStore(step) == "HEADER_STORE_CONTRACT_ADDRESS" \in step.names

\* A step of deploy_p2tr_vault.sh: it makes no token and no store, and its
\* vault takes the ones written in the script.
Written(step) ==
    /\ ~ Deploys(step, "token") /\ ~ Deploys(step, "store")
    /\ Deploys(step, "vault") => Len(step.args) = 10 /\ Takes(step, "store")

\* Every vault gets a token; a printed block names the vault the backend
\* reads, or nothing the backend reads; a file is written with the token of
\* its vault, with a vault alone, or appended to the one that has its token.
SoundStep(step) ==
    /\ step \in Steps
    /\ Deploys(step, "vault") => Takes(step, "token")
    /\ step \in PrintSteps => Prints(step) \/ step.names \subseteq LegacyNames
    /\ step \in FileSteps =>
          IF step.keep THEN step.file = "deploy_info.sh" /\ step.slots = {"vault"}
                       ELSE step.slots \in {{"token"}, {"vault"}, {"token", "vault"}}

\* The vault is made last, and nothing renews the token of a file that is
\* appended to.
SoundOrder(steps) ==
    \A i, j \in DOMAIN steps :
       /\ i < j /\ Deploys(steps[i], "vault") =>
             ~ Deploys(steps[j], "token") /\ ~ Deploys(steps[j], "store")
       /\ Keeps(steps[i]) =>
             /\ ~ Deploys(steps[j], "token")
             /\ steps[j] \in FileSteps => Keeps(steps[j])

\* A block that names the vault names every contract that is new with it.
SoundPrints(steps) ==
    \A i \in DOMAIN steps : Prints(steps[i]) =>
       \/ \A j \in DOMAIN steps : Written(steps[j])
       \/ /\ NamesToken(steps[i]) \/ \A j \in DOMAIN steps : ~ Deploys(steps[j], "token")
          /\ NamesStore(steps[i]) \/ \A j \in DOMAIN steps :
                 Deploys(steps[j], "vault") => ~ Takes(steps[j], "store")

SoundSteps(steps) ==
    /\ steps \in Seq(Steps)
    /\ \A i \in DOMAIN steps : SoundStep(steps[i])
    /\ SoundOrder(steps)
    /\ SoundPrints(steps)

\* The token a script starts with is the one its file or its block assumes.
FromConfig == {"config", "env", "required"}
Serves(token, steps) ==
    \A i \in DOMAIN steps :
       /\ Keeps(steps[i]) => token = "given"
       /\ Prints(steps[i]) =>
            \/ token = "written" /\ \A j \in DOMAIN steps : Written(steps[j])
            \/ /\ NamesToken(steps[i]) \/ token \in FromConfig
               /\ NamesStore(steps[i]) \/ \A j \in DOMAIN steps :
                    Deploys(steps[j], "vault") => ~ Takes(steps[j], "store")

ScriptNets == {"env", "devnet", "sepolia"}
Tokens == FromConfig \cup {"none", "given", "written"}

SoundScript(s) ==
    /\ s.net \in ScriptNets /\ s.token \in Tokens
    /\ s.token = "written" => s.store = "written"
    /\ s.steps # <<>>
    /\ SoundSteps(s.steps)
    /\ Serves(s.token, s.steps)

\* The kinds of steps the scripts are made of.
MakesToken(step) == step \in DeploySteps /\ step.class = "token"
MakesStore(step) == step \in DeploySteps /\ step.class = "store"
MakesVault(step) == step \in DeploySteps /\ step.class = "vault" /\ Takes(step, "token")
MakesPlainVault(step) == MakesVault(step) /\ ~ Takes(step, "store")
ShowsWell(step) ==
    step \in PrintSteps /\ IF Prints(step) THEN NamesToken(step) ELSE step.names \subseteq LegacyNames
FilesAnew(step) ==
    step \in FileSteps /\ ~ step.keep /\ step.slots \in {{"token"}, {"vault"}, {"token", "vault"}}

\* What a step is not, or not only.
Idles(step) == ~ Keeps(step) /\ ~ Prints(step) /\ step \notin FileSteps
BuildsOnly(step, class) == \A other \in Slots : Deploys(step, other) <=> other = class
BuildsNothing(step) == \A other \in Slots : ~ Deploys(step, other)

\* Each kind of step is sound by itself.
LEMMA KindsOfSteps ==
  ASSUME NEW step
  PROVE  /\ step \in DeclareSteps => SoundStep(step) /\ Idles(step) /\ BuildsNothing(step)
         /\ MakesToken(step) => SoundStep(step) /\ Idles(step) /\ BuildsOnly(step, "token")
         /\ MakesStore(step) => SoundStep(step) /\ Idles(step) /\ BuildsOnly(step, "store")
         /\ MakesVault(step) => SoundStep(step) /\ Idles(step) /\ BuildsOnly(step, "vault")
         /\ step \in EnvSteps => SoundStep(step) /\ Idles(step) /\ BuildsNothing(step)
         /\ ShowsWell(step) => /\ SoundStep(step) /\ BuildsNothing(step)
                               /\ ~ Keeps(step) /\ step \notin FileSteps
         /\ step \in PrintSteps /\ Prints(step) =>
              SoundStep(step) /\ BuildsNothing(step) /\ ~ Keeps(step) /\ step \notin FileSteps
         /\ FilesAnew(step) =>
              SoundStep(step) /\ BuildsNothing(step) /\ ~ Keeps(step) /\ ~ Prints(step)
         /\ Keeps(step) /\ step.file = "deploy_info.sh" /\ step.slots = {"vault"} =>
              SoundStep(step) /\ BuildsNothing(step) /\ ~ Prints(step)
<1> USE DEF SoundStep, Steps, Idles, BuildsOnly, BuildsNothing, DeclareSteps, DeploySteps,
            PrintSteps, EnvSteps, FileSteps, Deploys, Prints, Keeps
<1>1. step \in DeclareSteps => SoundStep(step) /\ Idles(step) /\ BuildsNothing(step)
  OBVIOUS
<1>2. MakesToken(step) => SoundStep(step) /\ Idles(step) /\ BuildsOnly(step, "token")
  BY DEF MakesToken
<1>3. MakesStore(step) => SoundStep(step) /\ Idles(step) /\ BuildsOnly(step, "store")
  BY DEF MakesStore
<1>4. MakesVault(step) => SoundStep(step) /\ Idles(step) /\ BuildsOnly(step, "vault")
  BY DEF MakesVault
<1>5. step \in EnvSteps => SoundStep(step) /\ Idles(step) /\ BuildsNothing(step)
  OBVIOUS
<1>6. ShowsWell(step) => /\ SoundStep(step) /\ BuildsNothing(step)
                         /\ ~ Keeps(step) /\ step \notin FileSteps
  BY DEF ShowsWell
<1>7. step \in PrintSteps /\ Prints(step) =>
        SoundStep(step) /\ BuildsNothing(step) /\ ~ Keeps(step) /\ step \notin FileSteps
  OBVIOUS
<1>8. FilesAnew(step) =>
        SoundStep(step) /\ BuildsNothing(step) /\ ~ Keeps(step) /\ ~ Prints(step)
  BY DEF FilesAnew
<1>9. Keeps(step) /\ step.file = "deploy_info.sh" /\ step.slots = {"vault"} =>
        SoundStep(step) /\ BuildsNothing(step) /\ ~ Prints(step)
  OBVIOUS
<1> QED
  BY <1>1, <1>2, <1>3, <1>4, <1>5, <1>6, <1>7, <1>8, <1>9

-----------------------------------------------------------------------------
(***************************************************************************)
(* What the scripts look like, by what they make and where they leave it.  *)
(***************************************************************************)
Sound(token, steps) == steps # <<>> /\ SoundSteps(steps) /\ Serves(token, steps)

\* A token alone.
LEMMA TokenShape ==
  ASSUME NEW token, NEW t,
         MakesToken(t)
  PROVE  Sound(token, <<t>>)
<1> DEFINE q == <<t>>
<1> USE KindsOfSteps DEF Idles, BuildsOnly, BuildsNothing, Slots, MakesPlainVault
<1>1. q \in Seq(Steps) /\ q # <<>>
  BY DEF SoundStep
<1>2. \A i \in DOMAIN q : SoundStep(q[i])
  OBVIOUS
<1>3. SoundOrder(q)
  BY DEF SoundOrder
<1>4. SoundPrints(q)
  BY DEF SoundPrints, ShowsWell, Written
<1>5. Serves(token, q)
  BY DEF Serves, ShowsWell, Written
<1> QED
  BY <1>1, <1>2, <1>3, <1>4, <1>5, Zenon DEF Sound, SoundSteps

\* A token and a file.
LEMMA TokenFileShape ==
  ASSUME NEW token, NEW t, NEW f,
         MakesToken(t), FilesAnew(f)
  PROVE  Sound(token, <<t, f>>)
<1> DEFINE q == <<t, f>>
<1> USE KindsOfSteps DEF Idles, BuildsOnly, BuildsNothing, Slots, MakesPlainVault
<1>1. q \in Seq(Steps) /\ q # <<>>
  BY DEF SoundStep
<1>2. \A i \in DOMAIN q : SoundStep(q[i])
  OBVIOUS
<1>3. SoundOrder(q)
  BY DEF SoundOrder
<1>4. SoundPrints(q)
  BY DEF SoundPrints, ShowsWell, Written
<1>5. Serves(token, q)
  BY DEF Serves, ShowsWell, Written
<1> QED
  BY <1>1, <1>2, <1>3, <1>4, <1>5, Zenon DEF Sound, SoundSteps

\* A token, declared first, and a file.
LEMMA DeclaredTokenFileShape ==
  ASSUME NEW token, NEW d, NEW t, NEW f,
         d \in DeclareSteps, MakesToken(t), FilesAnew(f)
  PROVE  Sound(token, <<d, t, f>>)
<1> DEFINE q == <<d, t, f>>
<1> USE KindsOfSteps DEF Idles, BuildsOnly, BuildsNothing, Slots, MakesPlainVault
<1>1. q \in Seq(Steps) /\ q # <<>>
  BY DEF SoundStep
<1>2. \A i \in DOMAIN q : SoundStep(q[i])
  OBVIOUS
<1>3. SoundOrder(q)
  BY DEF SoundOrder
<1>4. SoundPrints(q)
  BY DEF SoundPrints, ShowsWell, Written
<1>5. Serves(token, q)
  BY DEF Serves, ShowsWell, Written
<1> QED
  BY <1>1, <1>2, <1>3, <1>4, <1>5, Zenon DEF Sound, SoundSteps

\* A token that goes to .env.
LEMMA TokenEnvShape ==
  ASSUME NEW token, NEW d, NEW t, NEW z,
         d \in DeclareSteps, MakesToken(t), z \in EnvSteps
  PROVE  Sound(token, <<d, t, z>>)
<1> DEFINE q == <<d, t, z>>
<1> USE KindsOfSteps DEF Idles, BuildsOnly, BuildsNothing, Slots, MakesPlainVault
<1>1. q \in Seq(Steps) /\ q # <<>>
  BY DEF SoundStep
<1>2. \A i \in DOMAIN q : SoundStep(q[i])
  OBVIOUS
<1>3. SoundOrder(q)
  BY DEF SoundOrder
<1>4. SoundPrints(q)
  BY DEF SoundPrints, ShowsWell, Written
<1>5. Serves(token, q)
  BY DEF Serves, ShowsWell, Written
<1> QED
  BY <1>1, <1>2, <1>3, <1>4, <1>5, Zenon DEF Sound, SoundSteps

\* A token and a vault that go to .env.
LEMMA PairEnvShape ==
  ASSUME NEW token, NEW d, NEW t, NEW e, NEW v, NEW z,
         d \in DeclareSteps, MakesToken(t), e \in DeclareSteps, MakesPlainVault(v),
         z \in EnvSteps
  PROVE  Sound(token, <<d, t, e, v, z>>)
<1> DEFINE q == <<d, t, e, v, z>>
<1> USE KindsOfSteps DEF Idles, BuildsOnly, BuildsNothing, Slots, MakesPlainVault
<1>1. q \in Seq(Steps) /\ q # <<>>
  BY DEF SoundStep
<1>2. \A i \in DOMAIN q : SoundStep(q[i])
  OBVIOUS
<1>3. SoundOrder(q)
  BY DEF SoundOrder
<1>4. SoundPrints(q)
  BY DEF SoundPrints, ShowsWell, Written
<1>5. Serves(token, q)
  BY DEF Serves, ShowsWell, Written
<1> QED
  BY <1>1, <1>2, <1>3, <1>4, <1>5, Zenon DEF Sound, SoundSteps

\* A token and a vault that are printed.
LEMMA PairShowShape ==
  ASSUME NEW token, NEW d, NEW t, NEW e, NEW v, NEW p,
         d \in DeclareSteps, MakesToken(t), e \in DeclareSteps, MakesPlainVault(v),
         ShowsWell(p)
  PROVE  Sound(token, <<d, t, e, v, p>>)
<1> DEFINE q == <<d, t, e, v, p>>
<1> USE KindsOfSteps DEF Idles, BuildsOnly, BuildsNothing, Slots, MakesPlainVault
<1>1. q \in Seq(Steps) /\ q # <<>>
  BY DEF SoundStep
<1>2. \A i \in DOMAIN q : SoundStep(q[i])
  OBVIOUS
<1>3. SoundOrder(q)
  BY DEF SoundOrder
<1>4. SoundPrints(q)
  BY DEF SoundPrints, ShowsWell, Written
<1>5. Serves(token, q)
  BY DEF Serves, ShowsWell, Written
<1> QED
  BY <1>1, <1>2, <1>3, <1>4, <1>5, Zenon DEF Sound, SoundSteps

\* The same, both declared first.
LEMMA DeclaredPairShowShape ==
  ASSUME NEW token, NEW d, NEW e, NEW t, NEW v, NEW p,
         d \in DeclareSteps, e \in DeclareSteps, MakesToken(t), MakesPlainVault(v),
         ShowsWell(p)
  PROVE  Sound(token, <<d, e, t, v, p>>)
<1> DEFINE q == <<d, e, t, v, p>>
<1> USE KindsOfSteps DEF Idles, BuildsOnly, BuildsNothing, Slots, MakesPlainVault
<1>1. q \in Seq(Steps) /\ q # <<>>
  BY DEF SoundStep
<1>2. \A i \in DOMAIN q : SoundStep(q[i])
  OBVIOUS
<1>3. SoundOrder(q)
  BY DEF SoundOrder
<1>4. SoundPrints(q)
  BY DEF SoundPrints, ShowsWell, Written
<1>5. Serves(token, q)
  BY DEF Serves, ShowsWell, Written
<1> QED
  BY <1>1, <1>2, <1>3, <1>4, <1>5, Zenon DEF Sound, SoundSteps

\* A token and a vault that go to a file.
LEMMA PairFileShape ==
  ASSUME NEW token, NEW d, NEW t, NEW e, NEW v, NEW f,
         d \in DeclareSteps, MakesToken(t), e \in DeclareSteps, MakesPlainVault(v),
         FilesAnew(f)
  PROVE  Sound(token, <<d, t, e, v, f>>)
<1> DEFINE q == <<d, t, e, v, f>>
<1> USE KindsOfSteps DEF Idles, BuildsOnly, BuildsNothing, Slots, MakesPlainVault
<1>1. q \in Seq(Steps) /\ q # <<>>
  BY DEF SoundStep
<1>2. \A i \in DOMAIN q : SoundStep(q[i])
  OBVIOUS
<1>3. SoundOrder(q)
  BY DEF SoundOrder
<1>4. SoundPrints(q)
  BY DEF SoundPrints, ShowsWell, Written
<1>5. Serves(token, q)
  BY DEF Serves, ShowsWell, Written
<1> QED
  BY <1>1, <1>2, <1>3, <1>4, <1>5, Zenon DEF Sound, SoundSteps

\* The same, with classes declared before.
LEMMA UndeclaredPairShape ==
  ASSUME NEW token, NEW t, NEW v, NEW f,
         MakesToken(t), MakesPlainVault(v), FilesAnew(f)
  PROVE  Sound(token, <<t, v, f>>)
<1> DEFINE q == <<t, v, f>>
<1> USE KindsOfSteps DEF Idles, BuildsOnly, BuildsNothing, Slots, MakesPlainVault
<1>1. q \in Seq(Steps) /\ q # <<>>
  BY DEF SoundStep
<1>2. \A i \in DOMAIN q : SoundStep(q[i])
  OBVIOUS
<1>3. SoundOrder(q)
  BY DEF SoundOrder
<1>4. SoundPrints(q)
  BY DEF SoundPrints, ShowsWell, Written
<1>5. Serves(token, q)
  BY DEF Serves, ShowsWell, Written
<1> QED
  BY <1>1, <1>2, <1>3, <1>4, <1>5, Zenon DEF Sound, SoundSteps

\* A token and a vault that are printed and filed.
LEMMA PairShowFileShape ==
  ASSUME NEW token, NEW d, NEW t, NEW e, NEW v, NEW p, NEW f,
         d \in DeclareSteps, MakesToken(t), e \in DeclareSteps, MakesPlainVault(v),
         ShowsWell(p), FilesAnew(f)
  PROVE  Sound(token, <<d, t, e, v, p, f>>)
<1> DEFINE q == <<d, t, e, v, p, f>>
<1> USE KindsOfSteps DEF Idles, BuildsOnly, BuildsNothing, Slots, MakesPlainVault
<1>1. q \in Seq(Steps) /\ q # <<>>
  BY DEF SoundStep
<1>2. \A i \in DOMAIN q : SoundStep(q[i])
  OBVIOUS
<1>3. SoundOrder(q)
  BY DEF SoundOrder
<1>4. SoundPrints(q)
  BY DEF SoundPrints, ShowsWell, Written
<1>5. Serves(token, q)
  BY DEF Serves, ShowsWell, Written
<1> QED
  BY <1>1, <1>2, <1>3, <1>4, <1>5, Zenon DEF Sound, SoundSteps

\* A token and a vault that are filed and printed.
LEMMA DeclaredPairFileShowShape ==
  ASSUME NEW token, NEW d, NEW e, NEW t, NEW v, NEW f, NEW p,
         d \in DeclareSteps, e \in DeclareSteps, MakesToken(t), MakesPlainVault(v),
         FilesAnew(f), ShowsWell(p)
  PROVE  Sound(token, <<d, e, t, v, f, p>>)
<1> DEFINE q == <<d, e, t, v, f, p>>
<1> USE KindsOfSteps DEF Idles, BuildsOnly, BuildsNothing, Slots, MakesPlainVault
<1>1. q \in Seq(Steps) /\ q # <<>>
  BY DEF SoundStep
<1>2. \A i \in DOMAIN q : SoundStep(q[i])
  OBVIOUS
<1>3. SoundOrder(q)
  BY DEF SoundOrder
<1>4. SoundPrints(q)
  BY DEF SoundPrints, ShowsWell, Written
<1>5. Serves(token, q)
  BY DEF Serves, ShowsWell, Written
<1> QED
  BY <1>1, <1>2, <1>3, <1>4, <1>5, Zenon DEF Sound, SoundSteps

\* A vault for a token that exists.
LEMMA VaultShape ==
  ASSUME NEW token, NEW d, NEW v,
         d \in DeclareSteps, MakesPlainVault(v)
  PROVE  Sound(token, <<d, v>>)
<1> DEFINE q == <<d, v>>
<1> USE KindsOfSteps DEF Idles, BuildsOnly, BuildsNothing, Slots, MakesPlainVault
<1>1. q \in Seq(Steps) /\ q # <<>>
  BY DEF SoundStep
<1>2. \A i \in DOMAIN q : SoundStep(q[i])
  OBVIOUS
<1>3. SoundOrder(q)
  BY DEF SoundOrder
<1>4. SoundPrints(q)
  BY DEF SoundPrints, ShowsWell, Written
<1>5. Serves(token, q)
  BY DEF Serves, ShowsWell, Written
<1> QED
  BY <1>1, <1>2, <1>3, <1>4, <1>5, Zenon DEF Sound, SoundSteps

\* A vault for the configured token, printed.
LEMMA VaultShowShape ==
  ASSUME NEW token \in FromConfig, NEW d, NEW v, NEW p,
         d \in DeclareSteps, MakesPlainVault(v), p \in PrintSteps, Prints(p)
  PROVE  Sound(token, <<d, v, p>>)
<1> DEFINE q == <<d, v, p>>
<1> USE KindsOfSteps DEF Idles, BuildsOnly, BuildsNothing, Slots, MakesPlainVault
<1>1. q \in Seq(Steps) /\ q # <<>>
  BY DEF SoundStep
<1>2. \A i \in DOMAIN q : SoundStep(q[i])
  OBVIOUS
<1>3. SoundOrder(q)
  BY DEF SoundOrder
<1>4. SoundPrints(q)
  BY DEF SoundPrints, ShowsWell, Written
<1>5. Serves(token, q)
  BY DEF Serves, ShowsWell, Written
<1> QED
  BY <1>1, <1>2, <1>3, <1>4, <1>5, Zenon DEF Sound, SoundSteps

\* A vault for the given token, appended to its file.
LEMMA VaultFileShape ==
  ASSUME NEW token \in {"given"}, NEW d, NEW v, NEW f,
         d \in DeclareSteps, MakesPlainVault(v), Keeps(f), f.file = "deploy_info.sh",
         f.slots = {"vault"}
  PROVE  Sound(token, <<d, v, f>>)
<1> DEFINE q == <<d, v, f>>
<1> USE KindsOfSteps DEF Idles, BuildsOnly, BuildsNothing, Slots, MakesPlainVault
<1>1. q \in Seq(Steps) /\ q # <<>>
  BY DEF SoundStep
<1>2. \A i \in DOMAIN q : SoundStep(q[i])
  OBVIOUS
<1>3. SoundOrder(q)
  BY DEF SoundOrder
<1>4. SoundPrints(q)
  BY DEF SoundPrints, ShowsWell, Written
<1>5. Serves(token, q)
  BY DEF Serves, ShowsWell, Written
<1> QED
  BY <1>1, <1>2, <1>3, <1>4, <1>5, Zenon DEF Sound, SoundSteps

\* A store and a vault that holds it, printed with the configured token.
LEMMA StorePairShape ==
  ASSUME NEW token \in FromConfig, NEW d, NEW s, NEW e, NEW v, NEW p,
         d \in DeclareSteps, MakesStore(s), e \in DeclareSteps, MakesVault(v),
         p \in PrintSteps, Prints(p), NamesStore(p)
  PROVE  Sound(token, <<d, s, e, v, p>>)
<1> DEFINE q == <<d, s, e, v, p>>
<1> USE KindsOfSteps DEF Idles, BuildsOnly, BuildsNothing, Slots, MakesPlainVault
<1>1. q \in Seq(Steps) /\ q # <<>>
  BY DEF SoundStep
<1>2. \A i \in DOMAIN q : SoundStep(q[i])
  OBVIOUS
<1>3. SoundOrder(q)
  BY DEF SoundOrder
<1>4. SoundPrints(q)
  BY DEF SoundPrints, ShowsWell, Written
<1>5. Serves(token, q)
  BY DEF Serves, ShowsWell, Written
<1> QED
  BY <1>1, <1>2, <1>3, <1>4, <1>5, Zenon DEF Sound, SoundSteps

\* A vault whose token and store are written in the script.
LEMMA WrittenVaultShape ==
  ASSUME NEW token \in {"written"}, NEW d, NEW v, NEW p, NEW f,
         d \in DeclareSteps, MakesVault(v), Len(v.args) = 10, Takes(v, "store"),
         p \in PrintSteps, Prints(p), FilesAnew(f)
  PROVE  Sound(token, <<d, v, p, f>>)
<1> DEFINE q == <<d, v, p, f>>
<1> USE KindsOfSteps DEF Idles, BuildsOnly, BuildsNothing, Slots, MakesPlainVault
<1>1. q \in Seq(Steps) /\ q # <<>>
  BY DEF SoundStep
<1>2. \A i \in DOMAIN q : SoundStep(q[i])
  OBVIOUS
<1>3. SoundOrder(q)
  BY DEF SoundOrder
<1>4. SoundPrints(q)
  BY DEF SoundPrints, ShowsWell, Written
<1>5. Serves(token, q)
  BY DEF Serves, ShowsWell, Written
<1> QED
  BY <1>1, <1>2, <1>3, <1>4, <1>5, Zenon DEF Sound, SoundSteps

-----------------------------------------------------------------------------
(***************************************************************************)
(* Each script has one of these shapes.                                    *)
(***************************************************************************)
\* The deployments the scripts use, by kind.
LEMMA StepKinds ==
  /\ MakesToken(Mock) /\ MakesToken(Timed(Mock)) /\ MakesToken(PresetFees(Mock))
  /\ MakesToken(Hidden(Mock)) /\ MakesToken(Retried(Mock)) /\ MakesToken(RetriedWithWait(Mock))
  /\ MakesToken(ByHash(Timed(Mock))) /\ MakesToken(Misread(Mock))
  /\ MakesToken(Timed(Deploy("token", <<>>)))
  /\ MakesPlainVault(Vault) /\ MakesPlainVault(Timed(Vault)) /\ MakesPlainVault(PresetFees(Vault))
  /\ MakesPlainVault(MaybeByHash(Timed(Vault))) /\ MakesPlainVault(Hidden(Vault))
  /\ MakesPlainVault(Retried(Vault)) /\ MakesPlainVault(ByHash(Timed(Vault)))
  /\ MakesPlainVault(Misread(Vault)) /\ MakesPlainVault(Deploy("vault", <<"token", "owner">>))
  /\ MakesStore(Deploy("store", <<"owner">>))
  /\ MakesVault(Deploy("vault", <<"token", "store">> \o Words(5)))
  /\ LET vault == Timed(Deploy("vault", <<"token", "store">> \o Words(8))) IN
     MakesVault(vault) /\ Len(vault.args) = 10 /\ Takes(vault, "store")
<1>1. /\ \A step, args : Makes(step, "token", args) => MakesToken(step)
      /\ \A step, args : Makes(step, "store", args) => MakesStore(step)
  BY DEF Makes, MakesToken, MakesStore
<1>2. \A step : Makes(step, "vault", <<"token">>) => MakesPlainVault(step)
  BY DEF Makes, MakesPlainVault, MakesVault, Takes
<1>3. \A step : Makes(step, "vault", <<"token", "owner">>) => MakesPlainVault(step)
  BY DEF Makes, MakesPlainVault, MakesVault, Takes
<1>4. <<>> \in Seq(Arguments) /\ <<"token", "owner">> \in Seq(Arguments) /\ <<"owner">> \in Seq(Arguments)
  BY DEF Arguments
<1>5. ASSUME NEW n \in Nat
      PROVE  LET args == <<"token", "store">> \o Words(n) IN
             /\ args \in Seq(Arguments) /\ Len(args) = n + 2
             /\ 1 \in DOMAIN args /\ args[1] = "token"
             /\ 2 \in DOMAIN args /\ args[2] = "store"
  <2>1. <<"token", "store">> \in Seq(Arguments) /\ Len(<<"token", "store">>) = 2
    BY DEF Arguments
  <2>2. Words(n) \in Seq(Arguments) /\ Len(Words(n)) = n
    BY DEF Arguments, Words
  <2> HIDE DEF Arguments
  <2> QED
    BY <2>1, <2>2
<1>6. ASSUME NEW n \in Nat, NEW step, Makes(step, "vault", <<"token", "store">> \o Words(n))
      PROVE  MakesVault(step) /\ Len(step.args) = n + 2 /\ Takes(step, "store")
  BY <1>5, <1>6 DEF Makes, MakesVault, Takes
<1>7. /\ MakesToken(Mock) /\ MakesToken(Timed(Mock)) /\ MakesToken(PresetFees(Mock))
      /\ MakesToken(Hidden(Mock)) /\ MakesToken(Retried(Mock)) /\ MakesToken(RetriedWithWait(Mock))
      /\ MakesToken(ByHash(Timed(Mock))) /\ MakesToken(Misread(Mock))
  BY <1>1, MockMakes, ModifiersMake
<1>8. MakesToken(Timed(Deploy("token", <<>>)))
  BY <1>1, <1>4, DeployMakes, ModifiersMake DEF Slots
<1>9. /\ MakesPlainVault(Vault) /\ MakesPlainVault(Timed(Vault)) /\ MakesPlainVault(PresetFees(Vault))
      /\ MakesPlainVault(MaybeByHash(Timed(Vault))) /\ MakesPlainVault(Hidden(Vault))
      /\ MakesPlainVault(Retried(Vault)) /\ MakesPlainVault(ByHash(Timed(Vault)))
      /\ MakesPlainVault(Misread(Vault))
  BY <1>2, VaultMakes, ModifiersMake
<1>10. MakesPlainVault(Deploy("vault", <<"token", "owner">>))
  BY <1>3, <1>4, DeployMakes DEF Slots
<1>11. MakesStore(Deploy("store", <<"owner">>))
  BY <1>1, <1>4, DeployMakes DEF Slots
<1>12. MakesVault(Deploy("vault", <<"token", "store">> \o Words(5)))
  BY <1>5, <1>6, DeployMakes DEF Slots
<1>13. Makes(Timed(Deploy("vault", <<"token", "store">> \o Words(8))), "vault",
             <<"token", "store">> \o Words(8))
  BY <1>5, DeployMakes, ModifiersMake DEF Slots
<1>14. LET vault == Timed(Deploy("vault", <<"token", "store">> \o Words(8))) IN
       MakesVault(vault) /\ Len(vault.args) = 10 /\ Takes(vault, "store")
  <2> DEFINE vault == Timed(Deploy("vault", <<"token", "store">> \o Words(8)))
  <2>1. Makes(vault, "vault", <<"token", "store">> \o Words(8))
    BY <1>13
  <2> HIDE DEF vault
  <2>2. MakesVault(vault) /\ Len(vault.args) = 8 + 2 /\ Takes(vault, "store")
    BY <1>6, <2>1, 8 \in Nat
  <2> QED
    BY <2>2 DEF vault
<1> QED
  BY <1>7, <1>8, <1>9, <1>10, <1>11, <1>12, <1>14

\* The blocks, files and edits the scripts use, by kind.
LEMMA BlockKinds ==
  /\ ShowsWell(Show(LegacyNames)) /\ ShowsWell(Show(BackendNames))
  /\ ShowsWell(Show(BackendNames \cup LegacyNames))
  /\ \A names \in {SpvNames, {"VAULT_CONTRACT_ADDRESS"}, {"VAULT_ADDR", "VAULT_CONTRACT_ADDRESS"}} :
        Show(names) \in PrintSteps /\ Prints(Show(names))
  /\ NamesStore(Show(SpvNames))
  /\ \A file \in AddressFiles, slots \in {{"token"}, {"vault"}, {"token", "vault"}} :
        FilesAnew(Write(file, slots))
  /\ LET vaultOnly == AppendTo("deploy_info.sh", {"vault"}) IN
     Keeps(vaultOnly) /\ vaultOnly.file = "deploy_info.sh" /\ vaultOnly.slots = {"vault"}
  /\ \A append \in BOOLEAN, net \in {"env", "devnet"} :
        /\ EditEnv(LegacyNames, append, net) \in EnvSteps
        /\ EditEnv({"MOCK_BTC_ADDR"}, append, net) \in EnvSteps
<1>1. \A names \in {LegacyNames, BackendNames, BackendNames \cup LegacyNames, SpvNames,
                    {"VAULT_CONTRACT_ADDRESS"}, {"VAULT_ADDR", "VAULT_CONTRACT_ADDRESS"}} :
        names \in SUBSET DOMAIN Names
  BY DEF LegacyNames, BackendNames, SpvNames, Names
<1>2. \A names \in {LegacyNames, BackendNames, BackendNames \cup LegacyNames, SpvNames,
                    {"VAULT_CONTRACT_ADDRESS"}, {"VAULT_ADDR", "VAULT_CONTRACT_ADDRESS"}} :
        Show(names) \in PrintSteps /\ Show(names).names = names
  BY <1>1, PrintStepsTyped
<1>3. ShowsWell(Show(LegacyNames)) /\ ShowsWell(Show(BackendNames))
      /\ ShowsWell(Show(BackendNames \cup LegacyNames))
  BY <1>2 DEF ShowsWell, Prints, NamesToken, LegacyNames, BackendNames
<1>4. /\ \A names \in {SpvNames, {"VAULT_CONTRACT_ADDRESS"}, {"VAULT_ADDR", "VAULT_CONTRACT_ADDRESS"}} :
            Show(names) \in PrintSteps /\ Prints(Show(names))
      /\ NamesStore(Show(SpvNames))
  BY <1>2 DEF Prints, NamesStore, SpvNames
<1>5. \A file \in AddressFiles, slots \in {{"token"}, {"vault"}, {"token", "vault"}} :
        FilesAnew(Write(file, slots))
  BY FileStepsTyped DEF FilesAnew
<1>6. LET vaultOnly == AppendTo("deploy_info.sh", {"vault"}) IN
      Keeps(vaultOnly) /\ vaultOnly.file = "deploy_info.sh" /\ vaultOnly.slots = {"vault"}
  BY FileStepsTyped DEF Keeps, AddressFiles
<1>7. \A append \in BOOLEAN, net \in {"env", "devnet"} :
        /\ EditEnv(LegacyNames, append, net) \in EnvSteps
        /\ EditEnv({"MOCK_BTC_ADDR"}, append, net) \in EnvSteps
  BY EnvStepsTyped DEF LegacyNames
<1> QED
  BY <1>3, <1>4, <1>5, <1>6, <1>7

\* Appending the last step to a script of one step,
LEMMA PairsJoin ==
  ASSUME NEW x, NEW y
  PROVE  <<x>> \o <<y>> = <<x, y>>
<1> DEFINE q == <<x>> \o <<y>>
           r == <<x, y>>
<1>1. /\ <<x>> \in Seq({x, y}) /\ <<y>> \in Seq({x, y})
      /\ r \in Seq({x, y}) /\ Len(r) = 2 /\ r[1] = x /\ r[2] = y
  OBVIOUS
<1>2. q \in Seq({x, y}) /\ Len(q) = 2 /\ q[1] = x /\ q[2] = y
  BY <1>1
<1> HIDE DEF q, r
<1>3. \A i \in 1 .. 2 : q[i] = r[i]
  BY <1>1, <1>2
<1>4. q = r
  BY <1>1, <1>2, <1>3, SeqEqual
<1> QED
  BY <1>4 DEF q, r

\* and of two.
LEMMA TriplesJoin ==
  ASSUME NEW x, NEW y, NEW z
  PROVE  <<x, y>> \o <<z>> = <<x, y, z>>
<1> DEFINE q == <<x, y>> \o <<z>>
           r == <<x, y, z>>
<1>1. /\ <<x, y>> \in Seq({x, y, z}) /\ <<z>> \in Seq({x, y, z})
      /\ r \in Seq({x, y, z}) /\ Len(r) = 3 /\ r[1] = x /\ r[2] = y /\ r[3] = z
  OBVIOUS
<1>2. q \in Seq({x, y, z}) /\ Len(q) = 3 /\ q[1] = x /\ q[2] = y /\ q[3] = z
  BY <1>1
<1> HIDE DEF q, r
<1>3. \A i \in 1 .. 3 : q[i] = r[i]
  BY <1>1, <1>2
<1>4. q = r
  BY <1>1, <1>2, <1>3, SeqEqual
<1> QED
  BY <1>4 DEF q, r

\* A list of one of the shapes makes a sound script,
LEMMA ScriptSound ==
  ASSUME NEW net \in ScriptNets, NEW token \in Tokens, NEW store, NEW steps, Sound(token, steps),
         token = "written" => store = "written"
  PROVE  SoundScript(Script(net, token, store, steps))
  BY DEF Script, Sound, SoundScript

\* also on Sepolia, with a token of its own,
LEMMA NewPairSound ==
  ASSUME NEW steps, Sound("none", steps)
  PROVE  SoundScript(NewPair(steps))
  BY ScriptSound DEF NewPair, ScriptNets, Tokens

\* in particular those that leave a token in mock_btc_address.txt.
LEMMA TokenOnlySound ==
  ASSUME NEW x \in DeclareSteps, NEW y, MakesToken(y)
  PROVE  SoundScript(TokenOnly(<<y>>)) /\ SoundScript(TokenOnly(<<x, y>>))
<1> DEFINE file == Write("mock_btc_address.txt", {"token"})
<1>1. FilesAnew(file)
  BY BlockKinds DEF AddressFiles
<1>2. TokenOnly(<<y>>) = NewPair(<<y>> \o <<file>>) /\ TokenOnly(<<x, y>>) = NewPair(<<x, y>> \o <<file>>)
  BY DEF TokenOnly
<1> HIDE DEF file
<1>3. SoundScript(NewPair(<<y, file>>))
  BY <1>1, TokenFileShape, NewPairSound
<1>4. SoundScript(NewPair(<<x, y, file>>))
  BY <1>1, DeclaredTokenFileShape, NewPairSound
<1>5. <<y>> \o <<file>> = <<y, file>> /\ <<x, y>> \o <<file>> = <<x, y, file>>
  BY PairsJoin, TriplesJoin
<1> QED
  BY <1>2, <1>3, <1>4, <1>5

\* None of the scripts can mix deployments.
LEMMA AllScriptsSound == \A s \in Scripts : SoundScript(s)
<1> USE StepKinds, BlockKinds, DeclarationsTyped DEF FromConfig, AddressFiles, Slots, ScriptNets, Tokens
<1>1. SoundScript(deploy_devnet_safe)
  BY PairEnvShape, ScriptSound DEF deploy_devnet_safe, DevnetPair
<1>2. SoundScript(deploy_devnet_local)
  BY PairEnvShape, ScriptSound DEF deploy_devnet_local, DevnetPair
<1>3. SoundScript(deploy_devnet_surgical)
  BY PairEnvShape, ScriptSound DEF deploy_devnet_surgical, DevnetPair
<1>4. SoundScript(deploy_devnet_v2)
  BY PairEnvShape, ScriptSound DEF deploy_devnet_v2, DevnetPair
<1>5. SoundScript(deploy_devnet_proxy)
  BY PairEnvShape, ScriptSound DEF deploy_devnet_proxy, DevnetPair
<1>6. SoundScript(deploy_devnet_override)
  BY PairEnvShape, ScriptSound DEF deploy_devnet_override, DevnetPair
<1>7. SoundScript(deploy_devnet_bridged)
  BY PairEnvShape, ScriptSound DEF deploy_devnet_bridged, DevnetPair
<1>8. SoundScript(deploy_contracts)
  BY PairEnvShape, ScriptSound DEF deploy_contracts
<1>9. SoundScript(redeploy_sepolia_fix)
  BY PairEnvShape, NewPairSound DEF redeploy_sepolia_fix
<1>10. SoundScript(redeploy_with_starkli)
  BY PairEnvShape, NewPairSound DEF redeploy_with_starkli
<1>11. SoundScript(deploy_simple_final)
  BY TokenEnvShape, ScriptSound DEF deploy_simple_final
<1>12. SoundScript(deploy_contracts_sepolia)
  BY PairShowShape, ScriptSound DEF deploy_contracts_sepolia
<1>13. SoundScript(deploy_to_sepolia)
  BY PairShowShape, NewPairSound DEF deploy_to_sepolia
<1>14. SoundScript(deploy_vault_js)
  BY PairShowShape, NewPairSound DEF deploy_vault_js
<1>15. SoundScript(deploy_sepolia_starkli)
  BY PairShowShape, NewPairSound DEF deploy_sepolia_starkli
<1>16. SoundScript(deploy_sepolia_fixed)
  BY DeclaredPairFileShowShape, ScriptSound DEF deploy_sepolia_fixed
<1>17. SoundScript(deploy_sepolia_simple)
  BY DeclaredPairShowShape, NewPairSound DEF deploy_sepolia_simple
<1>18. SoundScript(deploy_fresh)
  BY PairFileShape, NewPairSound DEF deploy_fresh
<1>19. SoundScript(DEPLOY_SEPOLIA)
  BY PairFileShape, NewPairSound DEF DEPLOY_SEPOLIA
<1>20. SoundScript(DEPLOY_REAL)
  BY UndeclaredPairShape, ScriptSound DEF DEPLOY_REAL
<1>21. SoundScript(deploy_sepolia_v10)
  BY PairShowFileShape, NewPairSound DEF deploy_sepolia_v10
<1>22. SoundScript(deploy_blast_final)
  BY TokenOnlySound DEF deploy_blast_final
<1>23. SoundScript(deploy_v3_force)
  BY TokenOnlySound DEF deploy_v3_force
<1>24. SoundScript(deploy_v3_force_debug)
  BY TokenOnlySound DEF deploy_v3_force_debug
<1>25. SoundScript(deploy_v3_force_blast)
  BY TokenOnlySound DEF deploy_v3_force_blast
<1>26. SoundScript(deploy_nethermind)
  BY TokenOnlySound DEF deploy_nethermind
<1>27. SoundScript(deploy_mock_btc)
  BY TokenOnlySound DEF deploy_mock_btc
<1>28. SoundScript(deploy_blast_declare)
  BY TokenOnlySound DEF deploy_blast_declare
<1>29. SoundScript(deploy_v3_retry)
  BY TokenOnlySound DEF deploy_v3_retry
<1>30. SoundScript(deploy_mock_btc_debug)
  BY TokenShape, NewPairSound DEF deploy_mock_btc_debug
<1>31. SoundScript(deploy_v3_explicit)
  BY TokenShape, NewPairSound DEF deploy_v3_explicit
<1>32. SoundScript(deploy_mock_sh)
  BY DeclaredTokenFileShape, ScriptSound DEF deploy_mock_sh
<1>33. SoundScript(deploy_vault_sh)
  BY VaultFileShape, ScriptSound DEF deploy_vault_sh
<1>34. SoundScript(deploy_new_vault)
  BY VaultShowShape, ScriptSound DEF deploy_new_vault
<1>35. SoundScript(deploy_vault_only)
  BY VaultShape, ScriptSound DEF deploy_vault_only
<1>36. SoundScript(deploy_spv)
  BY StorePairShape, ScriptSound DEF deploy_spv, SpvPair
<1>37. SoundScript(deploy_spv_contracts)
  BY StorePairShape, ScriptSound DEF deploy_spv_contracts, SpvPair
<1>38. SoundScript(deploy_p2tr_vault)
  BY WrittenVaultShape, ScriptSound DEF deploy_p2tr_vault
<1> HIDE StepKinds, BlockKinds, DeclarationsTyped
<1> QED
  BY <1>1, <1>2, <1>3, <1>4, <1>5, <1>6, <1>7, <1>8, <1>9, <1>10, <1>11,
     <1>12, <1>13, <1>14, <1>15, <1>16, <1>17, <1>18, <1>19, <1>20, <1>21,
     <1>22, <1>23, <1>24, <1>25, <1>26, <1>27, <1>28, <1>29, <1>30, <1>31,
     <1>32, <1>33, <1>34, <1>35, <1>36, <1>37, <1>38
  DEF Scripts

-----------------------------------------------------------------------------
(***************************************************************************)
(* The inductive invariant.                                                *)
(***************************************************************************)
\* Addresses that were handed out, and the empty string.
Known == {a \in Nat : a < next}

NetNames == {"none", "devnet", "sepolia"}

DeploymentTypes ==
    /\ next \in Nat /\ next > 3
    /\ \A a \in DOMAIN chain : a \in Known \ {0}
    /\ rpc \in NetNames
    /\ job \in [net : NetNames, slot : [Slots -> Known], steps : Seq(Steps)]
    /\ \A n \in DOMAIN env : env[n] \in Known
    /\ \A n \in DOMAIN printed : printed[n] \in Known
    /\ files \in [AddressFiles -> [{"token", "vault"} -> Known]]
    /\ backend.vault \in Known

\* What .env makes of the three names the backend reads.
EnvToken == Configured("MOCKBTC_CONTRACT_ADDRESS", 1)
EnvVault == Configured("VAULT_CONTRACT_ADDRESS", 3)
EnvStore == Configured("HEADER_STORE_CONTRACT_ADDRESS", 0)

\* A token, a vault and a store that may be configured together.
Matches(contracts, token, vault, store) ==
    vault \in DOMAIN contracts =>
       \/ HoldsWritten(contracts[vault])
       \/ /\ contracts[vault].token = token
          /\ store # 0 => contracts[vault].store \in {0, store}

EnvMatches == Matches(chain, EnvToken, EnvVault, EnvStore)

\* What they are once the printed block is pasted.
PastedToken ==
    IF "MOCKBTC_CONTRACT_ADDRESS" \in DOMAIN printed
    THEN printed["MOCKBTC_CONTRACT_ADDRESS"] ELSE EnvToken
PastedStore ==
    IF "HEADER_STORE_CONTRACT_ADDRESS" \in DOMAIN printed
    THEN printed["HEADER_STORE_CONTRACT_ADDRESS"] ELSE EnvStore

PrintedMatches ==
    IF "VAULT_CONTRACT_ADDRESS" \in DOMAIN printed
    THEN Matches(chain, PastedToken, printed["VAULT_CONTRACT_ADDRESS"], PastedStore)
    ELSE DOMAIN printed \subseteq LegacyNames

\* The script that runs.  A vault it has made is last, and holds its token
\* and store;
VaultIsLast(slot, steps) ==
    slot["vault"] # 0 =>
      \A i \in DOMAIN steps : ~ Deploys(steps[i], "token") /\ ~ Deploys(steps[i], "store")
VaultHolds(slot, contracts) ==
    slot["vault"] \in DOMAIN contracts =>
      /\ contracts[slot["vault"]].token = slot["token"]
      /\ contracts[slot["vault"]].store \in {0, slot["store"]}

\* a file it appends to has its token; and a block it prints names what .env
\* does not have already, with the vault it has made
AppendsToOwn(slot, steps, filed) ==
    \A i \in DOMAIN steps : Keeps(steps[i]) => filed = slot["token"]
PrintsMade(slot, steps, contracts, configured) ==
    \A i \in DOMAIN steps : Prints(steps[i]) /\ slot["vault"] \in DOMAIN contracts =>
      \/ HoldsWritten(contracts[slot["vault"]])
      \/ /\ NamesToken(steps[i]) \/ slot["token"] = configured
         /\ NamesStore(steps[i]) \/ contracts[slot["vault"]].store = 0

\* or is going to make.
PrintsNext(slot, steps, configured) ==
    \A i \in DOMAIN steps : Prints(steps[i]) =>
      \/ /\ slot["token"] = 1 /\ slot["store"] = 2
         /\ \A j \in DOMAIN steps : Written(steps[j])
      \/ /\ NamesToken(steps[i]) \/ slot["token"] = configured
         /\ NamesStore(steps[i]) \/ \A j \in DOMAIN steps :
              Deploys(steps[j], "vault") => ~ Takes(steps[j], "store")

SoundJob(slot, steps, contracts, filed, configured) ==
    /\ SoundSteps(steps)
    /\ VaultIsLast(slot, steps)
    /\ VaultHolds(slot, contracts)
    /\ AppendsToOwn(slot, steps, filed)
    /\ PrintsMade(slot, steps, contracts, configured)
    /\ PrintsNext(slot, steps, configured)

JobIsSound ==
    /\ job # Idle => job.steps # <<>>
    /\ SoundJob(job.slot, job.steps, chain, files["deploy_info.sh"].token, EnvToken)

DeploymentInv ==
    /\ DeploymentTypes
    /\ EnvMatches
    /\ PrintedMatches
    /\ JobIsSound
    /\ FilesNameOneDeployment
    /\ OnlyWrittenVaultsMismatch

\* The rest of a list, by index.
LEMMA TailIndexed ==
  ASSUME NEW steps \in Seq(Steps), steps # <<>>
  PROVE  /\ Tail(steps) \in Seq(Steps)
         /\ \A i \in DOMAIN Tail(steps) :
              i + 1 \in DOMAIN steps /\ i \in Nat /\ Tail(steps)[i] = steps[i + 1]
         /\ 1 \in DOMAIN steps /\ Head(steps) = steps[1]
         /\ Len(steps) # 1 => Tail(steps) # <<>>
<1>1. Tail(steps) \in Seq(Steps) /\ Len(Tail(steps)) = Len(steps) - 1 /\ Len(steps) \in Nat
  OBVIOUS
<1>2. Len(steps) # 1 => Tail(steps) # <<>>
  <2>1. 1 \in DOMAIN steps /\ DOMAIN steps = 1 .. Len(steps)
    OBVIOUS
  <2>2. Len(<<>>) = 0
    OBVIOUS
  <2>3. Len(steps) # 1 => Len(Tail(steps)) # 0
    BY <1>1, <2>1
  <2> QED
    BY <2>2, <2>3
<1>3. /\ \A i \in DOMAIN Tail(steps) :
           i + 1 \in DOMAIN steps /\ i \in Nat /\ Tail(steps)[i] = steps[i + 1]
      /\ 1 \in DOMAIN steps /\ Head(steps) = steps[1]
  OBVIOUS
<1> QED
  BY <1>1, <1>2, <1>3

\* What is left of a sound list is sound,
LEMMA TailSound ==
  ASSUME NEW steps, SoundSteps(steps), steps # <<>>
  PROVE  SoundSteps(Tail(steps))
<1> DEFINE rest == Tail(steps)
<1> USE DEF SoundSteps
<1>1. /\ rest \in Seq(Steps)
      /\ \A i \in DOMAIN rest : i + 1 \in DOMAIN steps /\ i \in Nat /\ rest[i] = steps[i + 1]
  BY TailIndexed
<1> HIDE DEF rest
<1>2. \A i \in DOMAIN rest : SoundStep(rest[i])
  BY <1>1
<1>3. SoundOrder(rest)
  BY <1>1 DEF SoundOrder
<1>4. SoundPrints(rest)
  BY <1>1 DEF SoundPrints
<1> QED
  BY <1>1, <1>2, <1>3, <1>4 DEF rest

\* and so is a script that did a step that made nothing.
LEMMA TailJob ==
  ASSUME NEW slot, NEW steps, NEW contracts, NEW filed, NEW configured,
         SoundJob(slot, steps, contracts, filed, configured), steps # <<>>
  PROVE  SoundJob(slot, Tail(steps), contracts, filed, configured)
<1> DEFINE rest == Tail(steps)
<1>1. \A i \in DOMAIN rest : i + 1 \in DOMAIN steps /\ rest[i] = steps[i + 1]
  BY TailIndexed DEF SoundJob, SoundSteps
<1>2. SoundSteps(rest)
  BY TailSound DEF SoundJob
<1> HIDE DEF rest
<1>3. VaultIsLast(slot, rest) /\ AppendsToOwn(slot, rest, filed)
  BY <1>1 DEF SoundJob, VaultIsLast, AppendsToOwn
<1>4. PrintsMade(slot, rest, contracts, configured) /\ PrintsNext(slot, rest, configured)
  BY <1>1 DEF SoundJob, PrintsMade, PrintsNext
<1> QED
  BY <1>2, <1>3, <1>4 DEF rest, SoundJob

\* No script: nothing to say.
LEMMA IdleJob ==
  ASSUME NEW contracts, 0 \notin DOMAIN contracts, NEW filed, NEW configured
  PROVE  SoundJob(Idle.slot, Idle.steps, contracts, filed, configured)
<1> DEFINE slot == Idle.slot
           steps == Idle.steps
<1>1. steps = <<>> /\ slot["vault"] = 0
  BY DEF Idle, NoSlots, Slots
<1> HIDE DEF slot, steps
<1>2. steps \in Seq(Steps) /\ DOMAIN steps = {}
  BY <1>1
<1>3. SoundSteps(steps)
  BY <1>2 DEF SoundSteps, SoundOrder, SoundPrints
<1>4. VaultIsLast(slot, steps) /\ VaultHolds(slot, contracts) /\ AppendsToOwn(slot, steps, filed)
  BY <1>1, <1>2 DEF VaultIsLast, VaultHolds, AppendsToOwn
<1>5. PrintsMade(slot, steps, contracts, configured) /\ PrintsNext(slot, steps, configured)
  BY <1>2 DEF PrintsMade, PrintsNext
<1> QED
  BY <1>3, <1>4, <1>5 DEF SoundJob, slot, steps

\* After a deployment, whatever became of the address.
LEMMA DeployedJob ==
  ASSUME NEW slot \in [Slots -> Nat], NEW steps, NEW contracts, NEW more, NEW address \in Nat,
         NEW filed, NEW configured,
         SoundJob(slot, steps, contracts, filed, configured), steps # <<>>,
         Head(steps) \in DeploySteps,
         0 \notin DOMAIN contracts, 0 \notin DOMAIN more,
         address \in DOMAIN more =>
           LET new == more[address] IN
             /\ new.args = Len(Head(steps).args)
             /\ new.token = IF Takes(Head(steps), "token") THEN slot["token"] ELSE 0
             /\ new.store = IF Takes(Head(steps), "store") THEN slot["store"] ELSE 0
  PROVE  SoundJob([slot EXCEPT ![Head(steps).class] = address], Tail(steps), more, filed, configured)
<1> DEFINE step == Head(steps)
           rest == Tail(steps)
           new == [slot EXCEPT ![step.class] = address]
<1>1. /\ 1 \in DOMAIN steps /\ step = steps[1]
      /\ \A i \in DOMAIN rest : i + 1 \in DOMAIN steps /\ i \in Nat /\ 1 < i + 1 /\ rest[i] = steps[i + 1]
  BY TailIndexed DEF SoundJob, SoundSteps
<1>2. SoundSteps(rest)
  BY TailSound DEF SoundJob
<1>3. step.class \in Slots /\ Deploys(step, step.class)
  BY DEF DeploySteps, Deploys
<1>4. SoundStep(step) /\ SoundOrder(steps) /\ SoundPrints(steps)
  BY <1>1 DEF SoundJob, SoundSteps
<1>5. \A c \in Slots : new[c] = IF c = step.class THEN address ELSE slot[c]
  BY <1>3
<1>6. address \in DOMAIN more =>
        /\ more[address].args = Len(step.args)
        /\ more[address].token = IF Takes(step, "token") THEN slot["token"] ELSE 0
        /\ more[address].store = IF Takes(step, "store") THEN slot["store"] ELSE 0
  OBVIOUS
<1> HIDE DEF step, rest, new
<1>7. CASE step.class = "vault"
  <2>1. new["vault"] = address /\ new["token"] = slot["token"] /\ new["store"] = slot["store"]
    BY <1>5, <1>7 DEF Slots
  <2>2. Takes(step, "token")
    BY <1>3, <1>4, <1>7 DEF SoundStep
  <2>3. VaultIsLast(new, rest)
    BY <1>1, <1>3, <1>4, <1>7 DEF VaultIsLast, SoundOrder
  <2>4. VaultHolds(new, more)
    BY <1>6, <2>1, <2>2 DEF VaultHolds
  <2>5. AppendsToOwn(new, rest, filed)
    BY <1>1, <2>1 DEF AppendsToOwn, SoundJob
  <2>6. PrintsMade(new, rest, more, configured)
    <3> SUFFICES ASSUME NEW i \in DOMAIN rest, Prints(rest[i]), address \in DOMAIN more
                 PROVE  \/ HoldsWritten(more[address])
                        \/ /\ NamesToken(rest[i]) \/ slot["token"] = configured
                           /\ NamesStore(rest[i]) \/ more[address].store = 0
      BY <2>1 DEF PrintsMade
    <3>1. Prints(steps[i + 1]) /\ i + 1 \in DOMAIN steps /\ rest[i] = steps[i + 1]
      BY <1>1
    <3>2. CASE /\ slot["token"] = 1 /\ slot["store"] = 2
               /\ \A j \in DOMAIN steps : Written(steps[j])
      <4>1. Len(step.args) = 10 /\ Takes(step, "store")
        BY <1>1, <1>3, <1>7, <3>2 DEF Written
      <4> QED
        BY <1>6, <2>2, <3>2, <4>1 DEF HoldsWritten
    <3>3. CASE /\ NamesToken(rest[i]) \/ slot["token"] = configured
               /\ NamesStore(rest[i]) \/ \A j \in DOMAIN steps :
                    Deploys(steps[j], "vault") => ~ Takes(steps[j], "store")
      <4>1. NamesStore(rest[i]) \/ ~ Takes(step, "store")
        BY <1>1, <1>3, <1>7, <3>3
      <4> QED
        BY <1>6, <3>3, <4>1
    <3> QED
      BY <3>1, <3>2, <3>3 DEF SoundJob, PrintsNext
  <2>7. PrintsNext(new, rest, configured)
    BY <1>1, <2>1 DEF SoundJob, PrintsNext
  <2> QED
    BY <1>2, <2>3, <2>4, <2>5, <2>6, <2>7 DEF SoundJob, new, rest, step
<1>8. CASE step.class # "vault"
  <2>1. step.class \in {"token", "store"} /\ new["vault"] = slot["vault"]
    BY <1>3, <1>5, <1>8 DEF Slots
  <2>2. slot["vault"] = 0
    BY <1>1, <1>3, <2>1 DEF SoundJob, VaultIsLast
  <2>3. VaultIsLast(new, rest) /\ VaultHolds(new, more) /\ PrintsMade(new, rest, more, configured)
    BY <2>1, <2>2 DEF VaultIsLast, VaultHolds, PrintsMade
  <2>4. step.class = "token" => \A i \in DOMAIN steps : ~ Keeps(steps[i])
    BY <1>1, <1>3, <1>4 DEF SoundOrder
  <2>5. AppendsToOwn(new, rest, filed)
    <3>1. CASE step.class = "token"
      BY <1>1, <2>4, <3>1 DEF AppendsToOwn
    <3>2. CASE step.class # "token"
      BY <1>1, <1>5, <3>2 DEF AppendsToOwn, SoundJob, Slots
    <3> QED
      BY <3>1, <3>2
  <2>6. PrintsNext(new, rest, configured)
    <3> SUFFICES ASSUME NEW i \in DOMAIN rest, Prints(rest[i])
                 PROVE  /\ NamesToken(rest[i]) \/ new["token"] = configured
                        /\ NamesStore(rest[i]) \/ \A j \in DOMAIN rest :
                             Deploys(rest[j], "vault") => ~ Takes(rest[j], "store")
      BY DEF PrintsNext
    <3>1. Prints(steps[i + 1]) /\ i + 1 \in DOMAIN steps /\ rest[i] = steps[i + 1]
      BY <1>1
    <3>2. ~ \A j \in DOMAIN steps : Written(steps[j])
      BY <1>1, <1>3, <2>1 DEF Written
    <3>3. /\ NamesToken(rest[i]) \/ slot["token"] = configured
          /\ NamesStore(rest[i]) \/ \A j \in DOMAIN steps :
               Deploys(steps[j], "vault") => ~ Takes(steps[j], "store")
      BY <3>1, <3>2 DEF SoundJob, PrintsNext
    <3>4. NamesToken(rest[i]) \/ ~ Deploys(step, "token")
      BY <1>1, <1>4, <3>1, <3>2 DEF SoundPrints
    <3>5. NamesToken(rest[i]) \/ new["token"] = configured
      BY <1>3, <1>5, <3>3, <3>4 DEF Slots
    <3>6. NamesStore(rest[i]) \/ \A j \in DOMAIN rest :
            Deploys(rest[j], "vault") => ~ Takes(rest[j], "store")
      BY <1>1, <3>3
    <3> QED
      BY <3>5, <3>6
  <2> QED
    BY <1>2, <2>3, <2>5, <2>6 DEF SoundJob, new, rest, step
<1> QED
  BY <1>7, <1>8

\* The second attempt stands where the first one stood.
LEMMA RetriedJob ==
  ASSUME NEW slot, NEW steps, NEW contracts, NEW filed, NEW configured,
         SoundJob(slot, steps, contracts, filed, configured), steps # <<>>,
         Head(steps) \in DeploySteps
  PROVE  LET again == <<[Head(steps) EXCEPT !.tries = 1]>> \o Tail(steps) IN
         SoundJob(slot, again, contracts, filed, configured) /\ again # <<>>
<1> DEFINE step == [Head(steps) EXCEPT !.tries = 1]
           again == <<step>> \o Tail(steps)
<1>1. /\ step \in DeploySteps /\ step.class = Head(steps).class /\ step.args = Head(steps).args
      /\ step \in Steps
  BY DEF DeploySteps, Steps
<1> HIDE DEF step
<1>2. steps \in Seq(Steps) /\ Head(steps) = steps[1] /\ 1 \in DOMAIN steps
  BY TailIndexed DEF SoundJob, SoundSteps
<1>3. again \in Seq(Steps) /\ DOMAIN again = DOMAIN steps /\ again[1] = step
      /\ \A i \in DOMAIN steps : i # 1 => again[i] = steps[i]
  BY <1>1, <1>2
<1> HIDE DEF again
<1>4. \A class, s : /\ Deploys(step, class) <=> Deploys(Head(steps), class)
                    /\ Takes(step, s) <=> Takes(Head(steps), s)
  BY <1>1 DEF Deploys, Takes, DeploySteps
<1>5. /\ ~ Keeps(step) /\ ~ Keeps(Head(steps)) /\ ~ Prints(step) /\ ~ Prints(Head(steps))
      /\ step \notin FileSteps /\ Head(steps) \notin FileSteps
      /\ step \notin PrintSteps /\ Head(steps) \notin PrintSteps
  BY <1>1 DEF DeploySteps, FileSteps, PrintSteps, Keeps, Prints
<1>6. Written(step) <=> Written(Head(steps))
  BY <1>1, <1>4 DEF Written
<1>7. \A i \in DOMAIN steps :
        /\ \A class, s : /\ Deploys(again[i], class) <=> Deploys(steps[i], class)
                         /\ Takes(again[i], s) <=> Takes(steps[i], s)
        /\ Keeps(again[i]) <=> Keeps(steps[i])
        /\ Prints(again[i]) <=> Prints(steps[i])
        /\ again[i] \in FileSteps <=> steps[i] \in FileSteps
        /\ Written(again[i]) <=> Written(steps[i])
        /\ Prints(steps[i]) => again[i] = steps[i]
  BY <1>2, <1>3, <1>4, <1>5, <1>6
<1>8. \A i \in DOMAIN again : SoundStep(again[i])
  <2>1. SoundStep(step)
    BY <1>1, <1>2, <1>4, <1>5 DEF SoundStep, SoundJob, SoundSteps
  <2> QED
    BY <1>3, <2>1 DEF SoundJob, SoundSteps
<1>9. SoundOrder(again)
  BY <1>3, <1>7 DEF SoundJob, SoundSteps, SoundOrder
<1>10. SoundPrints(again)
  BY <1>3, <1>7 DEF SoundJob, SoundSteps, SoundPrints
<1>11. VaultIsLast(slot, again) /\ AppendsToOwn(slot, again, filed)
  BY <1>3, <1>7 DEF SoundJob, VaultIsLast, AppendsToOwn
<1>12. PrintsMade(slot, again, contracts, configured)
  BY <1>3, <1>7 DEF SoundJob, PrintsMade
<1>13. PrintsNext(slot, again, configured)
  BY <1>3, <1>7 DEF SoundJob, PrintsNext
<1>14. again # <<>>
  BY <1>2, <1>3
<1> QED
  BY <1>3, <1>8, <1>9, <1>10, <1>11, <1>12, <1>13, <1>14 DEF SoundJob, SoundSteps, again, step

\* Contracts the script does not know of change nothing for it.
LEMMA GrownJob ==
  ASSUME NEW slot, NEW steps, NEW contracts, NEW more, NEW filed, NEW configured,
         SoundJob(slot, steps, contracts, filed, configured),
         slot["vault"] \in DOMAIN more <=> slot["vault"] \in DOMAIN contracts,
         slot["vault"] \in DOMAIN contracts => more[slot["vault"]] = contracts[slot["vault"]]
  PROVE  SoundJob(slot, steps, more, filed, configured)
  BY DEF SoundJob, VaultHolds, PrintsMade

\* A file written anew is the last word on its token.
LEMMA FiledJob ==
  ASSUME NEW slot, NEW steps, NEW contracts, NEW filed, NEW written, NEW configured,
         SoundJob(slot, steps, contracts, filed, configured), steps # <<>>,
         Head(steps) \in FileSteps, Keeps(Head(steps)) => written = filed
  PROVE  SoundJob(slot, Tail(steps), contracts, written, configured)
<1>1. SoundJob(slot, Tail(steps), contracts, filed, configured)
  BY TailJob
<1>2. CASE Keeps(Head(steps))
  BY <1>1, <1>2
<1>3. CASE ~ Keeps(Head(steps))
  <2>1. steps \in Seq(Steps) /\ SoundOrder(steps)
    BY DEF SoundJob, SoundSteps
  <2>2. \A i \in DOMAIN steps : ~ Keeps(steps[i])
    BY <1>3, <2>1, TailIndexed DEF SoundOrder
  <2>3. \A i \in DOMAIN Tail(steps) : ~ Keeps(Tail(steps)[i])
    BY <2>1, <2>2, TailIndexed
  <2> QED
    BY <1>1, <2>3 DEF SoundJob, AppendsToOwn
<1> QED
  BY <1>2, <1>3

-----------------------------------------------------------------------------
(***************************************************************************)
(* What the steps of the engine have in common.                            *)
(***************************************************************************)
\* A name has the value of the block pasted over, else the old one.
LEMMA Overlaid ==
  ASSUME NEW f, NEW g
  PROVE  /\ DOMAIN Overlay(f, g) = DOMAIN f \cup DOMAIN g
         /\ \A x \in DOMAIN f : Overlay(f, g)[x] = f[x]
         /\ \A x \in DOMAIN g : x \notin DOMAIN f => Overlay(f, g)[x] = g[x]
  BY DEF Overlay

\* The step a script is at.
LEMMA AtStep ==
  ASSUME DeploymentInv, job # Idle
  PROVE  /\ job.steps # <<>> /\ job.steps \in Seq(Steps)
         /\ Step \in Steps /\ SoundStep(Step)
         /\ Step.op = "declare" => Step \in DeclareSteps
         /\ Step.op = "deploy" => Step \in DeploySteps
         /\ Step.op = "print" => Step \in PrintSteps
         /\ Step.op = "env" => Step \in EnvSteps
         /\ Step.op = "file" => Step \in FileSteps
         /\ job.slot \in [Slots -> Known] /\ job.slot \in [Slots -> Nat]
         /\ SoundJob(job.slot, job.steps, chain, files["deploy_info.sh"].token, EnvToken)
<1>1. /\ job.steps # <<>>
      /\ SoundJob(job.slot, job.steps, chain, files["deploy_info.sh"].token, EnvToken)
  BY DEF DeploymentInv, JobIsSound
<1>2. job.steps \in Seq(Steps) /\ \A i \in DOMAIN job.steps : SoundStep(job.steps[i])
  BY <1>1 DEF SoundJob, SoundSteps
<1>3. Step \in Steps /\ SoundStep(Step)
  BY <1>1, <1>2, TailIndexed DEF Step
<1>4. /\ Step.op = "declare" => Step \in DeclareSteps
      /\ Step.op = "deploy" => Step \in DeploySteps
      /\ Step.op = "print" => Step \in PrintSteps
      /\ Step.op = "env" => Step \in EnvSteps
      /\ Step.op = "file" => Step \in FileSteps
  BY <1>3 DEF Steps, DeclareSteps, DeploySteps, PrintSteps, EnvSteps, FileSteps
<1>5. job.slot \in [Slots -> Known] /\ job.slot \in [Slots -> Nat]
  BY DEF DeploymentInv, DeploymentTypes, Known
<1> QED
  BY <1>1, <1>2, <1>3, <1>4, <1>5

\* A sound rest makes a sound job, and so does the end of the script.
LEMMA GoesOn ==
  ASSUME DeploymentInv, job # Idle,
         NEW slot \in [Slots -> Known'], GoOn(slot), 0 \notin DOMAIN chain', next' \in Nat, next' > 3,
         SoundJob(slot, Tail(job.steps), chain', files'["deploy_info.sh"].token, EnvToken')
  PROVE  /\ job' \in [net : NetNames, slot : [Slots -> Known'], steps : Seq(Steps)]
         /\ JobIsSound'
<1>1. job.steps # <<>> /\ job.steps \in Seq(Steps)
  BY AtStep
<1>2. CASE Len(job.steps) = 1
  <2>1. job' = Idle
    BY <1>2 DEF GoOn
  <2>2. Idle \in [net : NetNames, slot : [Slots -> Known'], steps : Seq(Steps)]
    <3>1. 0 \in Known'
      BY DEF Known
    <3>2. NoSlots \in [Slots -> Known']
      BY <3>1 DEF NoSlots
    <3>3. <<>> \in Seq(Steps) /\ "none" \in NetNames
      BY DEF NetNames
    <3> QED
      BY <3>2, <3>3 DEF Idle
  <2>3. JobIsSound'
    BY <2>1, IdleJob DEF JobIsSound
  <2> QED
    BY <2>1, <2>2, <2>3
<1>3. CASE Len(job.steps) # 1
  <2>1. job \in [net : NetNames, slot : [Slots -> Known], steps : Seq(Steps)]
    BY DEF DeploymentInv, DeploymentTypes
  <2>2. Tail(job.steps) \in Seq(Steps) /\ Tail(job.steps) # <<>>
    BY <1>1, <1>3, TailIndexed
  <2>3. /\ job' \in [net : NetNames, slot : [Slots -> Known'], steps : Seq(Steps)]
        /\ job'.slot = slot /\ job'.steps = Tail(job.steps)
    BY <1>3, <2>1, <2>2 DEF GoOn
  <2>4. JobIsSound'
    BY <2>2, <2>3 DEF JobIsSound
  <2> QED
    BY <2>3, <2>4
<1> QED
  BY <1>2, <1>3

\* New contracts leave what is known as it is.
Grows ==
    /\ next' \in Nat /\ next <= next'
    /\ \A a \in DOMAIN chain' : a \in Known' \ {0}
    /\ \A a \in Known :
         /\ a \in DOMAIN chain' <=> a \in DOMAIN chain
         /\ a \in DOMAIN chain => chain'[a] = chain[a]

StandingTypes ==
    /\ next \in Nat /\ next > 3
    /\ \A a \in DOMAIN chain : a \in Known \ {0}
    /\ rpc \in NetNames
    /\ \A n \in DOMAIN env : env[n] \in Known
    /\ \A n \in DOMAIN printed : printed[n] \in Known
    /\ files \in [AddressFiles -> [{"token", "vault"} -> Known]]
    /\ backend.vault \in Known

\* The types without those of the job.
LEMMA TypesSplit ==
  DeploymentTypes <=>
    /\ StandingTypes
    /\ job \in [net : NetNames, slot : [Slots -> Known], steps : Seq(Steps)]
  BY DEF DeploymentTypes, StandingTypes

\* The addresses .env stands for are known.
LEMMA ConfiguredKnown ==
  ASSUME StandingTypes
  PROVE  /\ EnvToken \in Known /\ EnvVault \in Known /\ EnvStore \in Known
         /\ Configured("MOCKBTC_CONTRACT_ADDRESS", 1) \in Known
  BY DEF StandingTypes, Known, EnvToken, EnvVault, EnvStore, Configured

\* What the configuration, the files and the backend say of known contracts
\* stays true when others are added.
LEMMA GrowthKeeps ==
  ASSUME DeploymentInv, Grows, UNCHANGED <<env, rpc, files, printed, backend>>
  PROVE  /\ StandingTypes' /\ EnvMatches' /\ PrintedMatches'
         /\ FilesNameOneDeployment' /\ OnlyWrittenVaultsMismatch'
<1>1. StandingTypes
  BY TypesSplit DEF DeploymentInv
<1>2. \A a \in Known : a \in Known'
  <2>1. next \in Nat /\ next' \in Nat /\ next <= next'
    BY <1>1 DEF StandingTypes, Grows
  <2> QED
    BY <2>1 DEF Known
<1>3. StandingTypes'
  <2>1. files' \in [AddressFiles -> [{"token", "vault"} -> Known']]
    BY <1>1, <1>2 DEF StandingTypes
  <2> QED
    BY <1>1, <1>2, <2>1 DEF StandingTypes, Grows
<1>4. EnvToken' = EnvToken /\ EnvVault' = EnvVault /\ EnvStore' = EnvStore
      /\ PastedToken' = PastedToken /\ PastedStore' = PastedStore
  BY DEF EnvToken, EnvVault, EnvStore, PastedToken, PastedStore, Configured
<1>5. ASSUME NEW token, NEW vault \in Known, NEW store, Matches(chain, token, vault, store)
      PROVE  Matches(chain', token, vault, store)
  BY <1>5 DEF Grows, Matches
<1>6. EnvMatches'
  BY <1>1, <1>4, <1>5, ConfiguredKnown DEF DeploymentInv, EnvMatches
<1>7. PrintedMatches'
  BY <1>1, <1>4, <1>5 DEF DeploymentInv, PrintedMatches, StandingTypes
<1>8. FilesNameOneDeployment'
  <2> SUFFICES ASSUME NEW f \in AddressFiles, files[f].token # 0, files[f].vault \in DOMAIN chain'
               PROVE  chain'[files[f].vault].token = files[f].token
    BY DEF FilesNameOneDeployment
  <2>1. files[f].vault \in Known
    BY <1>1 DEF StandingTypes
  <2> QED
    BY <2>1 DEF DeploymentInv, FilesNameOneDeployment, Grows
<1>9. OnlyWrittenVaultsMismatch'
  <2>1. backend.vault \in Known
    BY <1>1 DEF StandingTypes
  <2> QED
    BY <2>1 DEF DeploymentInv, OnlyWrittenVaultsMismatch, Grows
<1> QED
  BY <1>3, <1>6, <1>7, <1>8, <1>9

\* Nothing but the job changes, or not even the job.
LEMMA StandingKeeps ==
  ASSUME DeploymentInv, UNCHANGED <<chain, next, env, rpc, files, printed, backend>>
  PROVE  /\ Grows
         /\ StandingTypes' /\ EnvMatches' /\ PrintedMatches'
         /\ FilesNameOneDeployment' /\ OnlyWrittenVaultsMismatch'
         /\ EnvToken' = EnvToken /\ Known' = Known
<1>1. Grows
  BY DEF Grows, DeploymentInv, DeploymentTypes, Known
<1> QED
  BY <1>1, GrowthKeeps DEF EnvToken, Configured, Known

\* A deployment that works adds one contract, with what the script passed.
LEMMA AddedContract ==
  ASSUME DeploymentInv, NewContract, job # Idle, Step.op = "deploy"
  PROVE  /\ Grows /\ next' = next + 1
         /\ next \in DOMAIN chain'
         /\ chain'[next].args = Len(Step.args)
         /\ chain'[next].token = IF Takes(Step, "token") THEN job.slot["token"] ELSE 0
         /\ chain'[next].store = IF Takes(Step, "store") THEN job.slot["store"] ELSE 0
<1> DEFINE contract == [class |-> Step.class, args |-> Len(Step.args),
                        token |-> Passed("token"), store |-> Passed("store")]
           added == [a \in {next} |-> contract]
<1>1. chain' = Overlay(chain, added)
  BY DEF NewContract
<1>2. next \in Nat /\ next > 3 /\ (\A a \in DOMAIN chain : a \in Known \ {0}) /\ next' = next + 1
  BY DEF DeploymentInv, DeploymentTypes, NewContract
<1>3. next \notin DOMAIN chain
  BY <1>2 DEF Known
<1>4. DOMAIN added = {next} /\ added[next] = contract
  OBVIOUS
<1>5. contract.args = Len(Step.args) /\ contract.token = Passed("token") /\ contract.store = Passed("store")
  OBVIOUS
<1> HIDE DEF added, contract
<1>6. /\ DOMAIN chain' = DOMAIN chain \cup {next} /\ chain'[next] = contract
      /\ \A a \in DOMAIN chain : chain'[a] = chain[a]
  <2>1. /\ DOMAIN Overlay(chain, added) = DOMAIN chain \cup DOMAIN added
        /\ \A x \in DOMAIN chain : Overlay(chain, added)[x] = chain[x]
        /\ \A x \in DOMAIN added : x \notin DOMAIN chain => Overlay(chain, added)[x] = added[x]
    BY Overlaid
  <2> QED
    BY <1>1, <1>3, <1>4, <2>1
<1>7. Grows
  BY <1>2, <1>3, <1>6 DEF Grows, Known
<1>8. \A s : Passed(s) = IF Takes(Step, s) THEN job.slot[s] ELSE 0
  BY DEF Passed, Takes
<1> QED
  BY <1>2, <1>5, <1>6, <1>7, <1>8

\* A step of the engine that a deployment ends with, with a contract at the
\* address or without one.
LEMMA DeployedKeeps ==
  ASSUME DeploymentInv, job # Idle, Step.op = "deploy",
         Grows, UNCHANGED <<env, rpc, files, printed, backend>>,
         NEW address \in Known', GoOn([job.slot EXCEPT ![Step.class] = address]),
         address \in DOMAIN chain' =>
           /\ chain'[address].args = Len(Step.args)
           /\ chain'[address].token = IF Takes(Step, "token") THEN job.slot["token"] ELSE 0
           /\ chain'[address].store = IF Takes(Step, "store") THEN job.slot["store"] ELSE 0
  PROVE  DeploymentInv'
<1>1. /\ StandingTypes' /\ EnvMatches' /\ PrintedMatches'
      /\ FilesNameOneDeployment' /\ OnlyWrittenVaultsMismatch'
  BY GrowthKeeps
<1>2. /\ job.steps # <<>> /\ job.slot \in [Slots -> Nat] /\ Step \in DeploySteps
      /\ SoundJob(job.slot, job.steps, chain, files["deploy_info.sh"].token, EnvToken)
  BY AtStep
<1>3. EnvToken' = EnvToken /\ files' = files
  BY DEF EnvToken, Configured
<1>4. 0 \notin DOMAIN chain /\ 0 \notin DOMAIN chain' /\ address \in Nat
  BY DEF Grows, DeploymentInv, DeploymentTypes, Known
<1>5. SoundJob([job.slot EXCEPT ![Step.class] = address], Tail(job.steps), chain',
               files["deploy_info.sh"].token, EnvToken)
  BY <1>2, <1>4, DeployedJob DEF Step
<1>6. [job.slot EXCEPT ![Step.class] = address] \in [Slots -> Known']
  <2>1. \A a \in Known : a \in Known'
    <3>1. next \in Nat /\ next' \in Nat /\ next <= next'
      BY DEF Grows, DeploymentInv, DeploymentTypes
    <3> QED
      BY <3>1 DEF Known
  <2>2. job.slot \in [Slots -> Known] /\ Step.class \in Slots
    BY <1>2, AtStep DEF DeploySteps
  <2> QED
    BY <2>1, <2>2
<1>7. next' \in Nat /\ next' > 3
  BY <1>1 DEF StandingTypes
<1>8. /\ job' \in [net : NetNames, slot : [Slots -> Known'], steps : Seq(Steps)]
      /\ JobIsSound'
  <2> DEFINE slot == [job.slot EXCEPT ![Step.class] = address]
  <2>1. slot \in [Slots -> Known'] /\ GoOn(slot)
        /\ SoundJob(slot, Tail(job.steps), chain', files'["deploy_info.sh"].token, EnvToken')
    BY <1>3, <1>5, <1>6
  <2> HIDE DEF slot
  <2> QED
    BY <1>4, <1>7, <2>1, GoesOn
<1> QED
  <2>1. DeploymentTypes'
    BY <1>1, <1>8 DEF StandingTypes, DeploymentTypes
  <2> QED
    BY <1>1, <1>8, <2>1 DEF DeploymentInv

-----------------------------------------------------------------------------
(***************************************************************************)
(* The invariant holds at first, and every step keeps it.                  *)
(***************************************************************************)
\* Nothing is filed, printed or running, and .env has the first deployment.
LEMMA InvAtFirst == Init => DeploymentInv
<1> SUFFICES ASSUME Init PROVE DeploymentInv
  OBVIOUS
<1>1. next = 4 /\ job = Idle /\ rpc = "sepolia" /\ printed = Empty /\ backend = Down
  BY DEF Init
<1>2. /\ DOMAIN chain = {1, 2, 3}
      /\ chain[3].token = 1 /\ chain[3].store = 2
      /\ chain[1].token = 0 /\ chain[1].store = 0 /\ chain[1].args = 1
  BY DEF Init
<1>3. files = [f \in AddressFiles |-> [token |-> 0, vault |-> 0]]
  BY DEF Init
<1>4. \/ DOMAIN env = {}
      \/ /\ DOMAIN env = DOMAIN Names
         /\ \A n \in DOMAIN Names : env[n] = CASE Names[n] = "token" -> 1
                                               [] Names[n] = "store" -> 2
                                               [] OTHER -> 3
  BY DEF Init, Empty
<1>5. DOMAIN printed = {} /\ backend.vault = 0 /\ backend.token = 0 /\ backend.store = 0
  BY <1>1 DEF Empty, Down
<1>6. StandingTypes
  <2>1. \A a \in {0, 1, 2, 3} : a \in Known
    BY <1>1 DEF Known
  <2>2. \A n \in DOMAIN env : env[n] \in {1, 2, 3}
    BY <1>4
  <2>3. files \in [AddressFiles -> [{"token", "vault"} -> Known]]
    <3>1. [token |-> 0, vault |-> 0] \in [{"token", "vault"} -> Known]
      BY <2>1
    <3> QED
      BY <1>3, <3>1
  <2> QED
    BY <1>1, <1>2, <1>5, <2>1, <2>2, <2>3 DEF StandingTypes, NetNames
<1>7. job \in [net : NetNames, slot : [Slots -> Known], steps : Seq(Steps)]
  <2>1. 0 \in Known
    BY <1>1 DEF Known
  <2>2. NoSlots \in [Slots -> Known]
    BY <2>1 DEF NoSlots
  <2>3. <<>> \in Seq(Steps) /\ "none" \in NetNames
    BY DEF NetNames
  <2> QED
    BY <1>1, <2>2, <2>3 DEF Idle
<1>8. EnvMatches
  <2>1. /\ "MOCKBTC_CONTRACT_ADDRESS" \in DOMAIN Names /\ Names["MOCKBTC_CONTRACT_ADDRESS"] = "token"
        /\ "VAULT_CONTRACT_ADDRESS" \in DOMAIN Names /\ Names["VAULT_CONTRACT_ADDRESS"] = "vault"
        /\ "HEADER_STORE_CONTRACT_ADDRESS" \in DOMAIN Names /\ Names["HEADER_STORE_CONTRACT_ADDRESS"] = "store"
    BY DEF Names
  <2>2. EnvToken = 1 /\ EnvVault = 3 /\ EnvStore \in {0, 2}
    BY <1>4, <2>1 DEF EnvToken, EnvVault, EnvStore, Configured
  <2> QED
    BY <1>2, <2>2 DEF EnvMatches, Matches
<1>9. PrintedMatches
  BY <1>5 DEF PrintedMatches
<1>10. JobIsSound
  BY <1>1, <1>2, IdleJob DEF JobIsSound
<1>11. FilesNameOneDeployment
  BY <1>3 DEF FilesNameOneDeployment
<1>12. OnlyWrittenVaultsMismatch
  BY <1>2, <1>5 DEF OnlyWrittenVaultsMismatch
<1> QED
  BY <1>6, <1>7, <1>8, <1>9, <1>10, <1>11, <1>12, TypesSplit DEF DeploymentInv

\* A script starts with the token that is configured, given or its own.
LEMMA StartKeeps == DeploymentInv /\ StartScript => DeploymentInv'
<1> SUFFICES ASSUME DeploymentInv, StartScript PROVE DeploymentInv'
  OBVIOUS
<1>1. PICK s \in Scripts :
        /\ CanStart(s)
        /\ job' = [net |-> IF s.net = "env" THEN rpc ELSE s.net,
                   slot |-> [NoSlots EXCEPT !.token = TokenAtStart(s),
                                            !.store = IF s.store = "written" THEN 2 ELSE 0],
                   steps |-> s.steps]
  BY DEF StartScript
<1>2. UNCHANGED <<chain, next, env, rpc, files, printed, backend>>
  BY DEF StartScript
<1>3. /\ StandingTypes' /\ EnvMatches' /\ PrintedMatches'
      /\ FilesNameOneDeployment' /\ OnlyWrittenVaultsMismatch'
      /\ EnvToken' = EnvToken /\ Known' = Known
  BY <1>2, StandingKeeps
<1>4. SoundScript(s)
  BY AllScriptsSound
<1>5. StandingTypes /\ 0 \notin DOMAIN chain
  BY TypesSplit DEF DeploymentInv, StandingTypes
<1>6. 0 \in Known /\ 1 \in Known /\ 2 \in Known
  BY <1>5 DEF StandingTypes, Known
<1>7. /\ TokenAtStart(s) \in Known
      /\ s.token \in FromConfig => TokenAtStart(s) = EnvToken
      /\ s.token = "given" => TokenAtStart(s) = files["deploy_info.sh"].token
  <2>1. s.token \in FromConfig \cup {"none", "given", "written"}
    BY <1>4 DEF SoundScript, Tokens
  <2>2. files["deploy_info.sh"]["token"] \in Known
    BY <1>5 DEF StandingTypes, AddressFiles
  <2>3. EnvToken \in Known /\ Configured("MOCKBTC_CONTRACT_ADDRESS", 1) = EnvToken
    BY <1>5, ConfiguredKnown DEF EnvToken
  <2> QED
    BY <1>6, <2>1, <2>2, <2>3 DEF TokenAtStart, FromConfig
<1> DEFINE slot == [NoSlots EXCEPT !.token = TokenAtStart(s),
                                   !.store = IF s.store = "written" THEN 2 ELSE 0]
           started == IF s.net = "env" THEN rpc ELSE s.net
<1>8. /\ slot \in [Slots -> Known] /\ slot["vault"] = 0 /\ slot["token"] = TokenAtStart(s)
      /\ s.token = "written" => slot["token"] = 1 /\ slot["store"] = 2
  <2>1. NoSlots \in [Slots -> Known] /\ NoSlots["vault"] = 0
    BY <1>6 DEF NoSlots, Slots
  <2> QED
    BY <1>4, <1>6, <1>7, <2>1 DEF Slots, SoundScript, TokenAtStart
<1>9. started \in NetNames
  BY <1>4, <1>5 DEF SoundScript, ScriptNets, StandingTypes, NetNames
<1>10. s.steps \in Seq(Steps) /\ s.steps # <<>> /\ SoundSteps(s.steps)
  BY <1>4 DEF SoundScript, SoundSteps
<1>11. job' = [net |-> started, slot |-> slot, steps |-> s.steps]
  BY <1>1
<1> HIDE DEF slot, started
<1>12. job' \in [net : NetNames, slot : [Slots -> Known'], steps : Seq(Steps)]
  BY <1>3, <1>8, <1>9, <1>10, <1>11
<1>13. SoundJob(slot, s.steps, chain, files["deploy_info.sh"].token, EnvToken)
  <2>1. VaultIsLast(slot, s.steps) /\ VaultHolds(slot, chain)
    BY <1>5, <1>8 DEF VaultIsLast, VaultHolds
  <2>2. AppendsToOwn(slot, s.steps, files["deploy_info.sh"].token)
    BY <1>4, <1>7, <1>8 DEF AppendsToOwn, SoundScript, Serves
  <2>3. PrintsMade(slot, s.steps, chain, EnvToken)
    BY <1>5, <1>8 DEF PrintsMade
  <2>4. PrintsNext(slot, s.steps, EnvToken)
    <3> SUFFICES ASSUME NEW i \in DOMAIN s.steps, Prints(s.steps[i]),
                        ~ (s.token = "written" /\ \A j \in DOMAIN s.steps : Written(s.steps[j]))
                 PROVE  /\ NamesToken(s.steps[i]) \/ slot["token"] = EnvToken
                        /\ NamesStore(s.steps[i]) \/ \A j \in DOMAIN s.steps :
                             Deploys(s.steps[j], "vault") => ~ Takes(s.steps[j], "store")
      BY <1>8 DEF PrintsNext
    <3>1. NamesToken(s.steps[i]) \/ s.token \in FromConfig
      BY <1>4 DEF SoundScript, Serves
    <3>2. NamesStore(s.steps[i]) \/ \A j \in DOMAIN s.steps :
            Deploys(s.steps[j], "vault") => ~ Takes(s.steps[j], "store")
      BY <1>4 DEF SoundScript, Serves
    <3> QED
      BY <1>7, <1>8, <3>1, <3>2
  <2> QED
    BY <1>10, <2>1, <2>2, <2>3, <2>4 DEF SoundJob
<1>14. JobIsSound'
  BY <1>2, <1>3, <1>10, <1>11, <1>13 DEF JobIsSound
<1> QED
  <2>1. DeploymentTypes'
    BY <1>3, <1>12 DEF StandingTypes, DeploymentTypes
  <2> QED
    BY <1>3, <1>14, <2>1 DEF DeploymentInv

\* A step that changes only the job's place.
LEMMA OnlyGoesOn ==
  ASSUME DeploymentInv, job # Idle, GoOn(job.slot),
         UNCHANGED <<chain, next, env, rpc, files, printed, backend>>
  PROVE  DeploymentInv'
<1>1. /\ StandingTypes' /\ EnvMatches' /\ PrintedMatches'
      /\ FilesNameOneDeployment' /\ OnlyWrittenVaultsMismatch'
      /\ EnvToken' = EnvToken /\ Known' = Known
  BY StandingKeeps
<1>2. /\ job.steps # <<>> /\ job.slot \in [Slots -> Known]
      /\ SoundJob(job.slot, job.steps, chain, files["deploy_info.sh"].token, EnvToken)
  BY AtStep
<1>3. SoundJob(job.slot, Tail(job.steps), chain, files["deploy_info.sh"].token, EnvToken)
  BY <1>2, TailJob
<1>4. 0 \notin DOMAIN chain' /\ next' \in Nat /\ next' > 3
  BY <1>1 DEF StandingTypes
<1>5. /\ job' \in [net : NetNames, slot : [Slots -> Known'], steps : Seq(Steps)]
      /\ JobIsSound'
  BY <1>1, <1>2, <1>3, <1>4, GoesOn
<1>6. DeploymentTypes'
  BY <1>1, <1>5 DEF StandingTypes, DeploymentTypes
<1> QED
  BY <1>1, <1>5, <1>6 DEF DeploymentInv

\* Declarations are not addresses.
LEMMA DeclarationsKeep == DeploymentInv /\ (DeclareClass \/ DeclareFails) => DeploymentInv'
  BY OnlyGoesOn DEF DeclareClass, DeclareFails, At

\* A deployment that works.
LEMMA DeployContractKeeps == DeploymentInv /\ DeployContract => DeploymentInv'
<1> SUFFICES ASSUME DeploymentInv, DeployContract PROVE DeploymentInv'
  OBVIOUS
<1>1. /\ job # Idle /\ Step.op = "deploy" /\ NewContract
      /\ GoOn([job.slot EXCEPT ![Step.class] = next])
      /\ UNCHANGED <<env, rpc, files, printed, backend>>
  BY DEF DeployContract, At, Step
<1>2. /\ Grows /\ next' = next + 1
      /\ chain'[next].args = Len(Step.args)
      /\ chain'[next].token = IF Takes(Step, "token") THEN job.slot["token"] ELSE 0
      /\ chain'[next].store = IF Takes(Step, "store") THEN job.slot["store"] ELSE 0
  BY <1>1, AddedContract
<1>3. next \in Known'
  BY <1>2 DEF Known, DeploymentInv, DeploymentTypes
<1> QED
  BY <1>1, <1>2, <1>3, DeployedKeeps

\* An address without a contract, or none.
LEMMA EmptyAddressKeeps ==
  ASSUME DeploymentInv, job # Idle, Step.op = "deploy", NEW address \in {0, next},
         GoOn([job.slot EXCEPT ![Step.class] = address]),
         next' = IF address = 0 THEN next ELSE next + 1,
         UNCHANGED <<chain, env, rpc, files, printed, backend>>
  PROVE  DeploymentInv'
<1>1. next \in Nat /\ next > 3 /\ \A a \in DOMAIN chain : a \in Known \ {0}
  BY DEF DeploymentInv, DeploymentTypes
<1>2. address \notin DOMAIN chain' /\ address \in Known'
  BY <1>1 DEF Known
<1>3. Grows
  BY <1>1 DEF Grows, Known
<1> QED
  BY <1>2, <1>3, DeployedKeeps

\* Reverted deployments, hidden failures and misread errors leave addresses
\* at which there is nothing to contradict.
LEMMA FailedDeploysKeep == DeploymentInv /\ (DeployReverts \/ DeployFailsUnseen) => DeploymentInv'
<1> SUFFICES ASSUME DeploymentInv, DeployReverts \/ DeployFailsUnseen PROVE DeploymentInv'
  OBVIOUS
<1>1. /\ job # Idle /\ Step.op = "deploy"
      /\ UNCHANGED <<chain, env, rpc, files, printed, backend>>
      /\ \/ next' = next + 1 /\ GoOn([job.slot EXCEPT ![Step.class] = next])
         \/ next' = next /\ GoOn([job.slot EXCEPT ![Step.class] = 0])
  BY DEF DeployReverts, DeployFailsUnseen, At, Step
<1>2. next \in Nat /\ next # 0
  BY DEF DeploymentInv, DeploymentTypes
<1>3. CASE next' = next + 1 /\ GoOn([job.slot EXCEPT ![Step.class] = next])
  BY <1>1, <1>2, <1>3, EmptyAddressKeeps
<1>4. CASE next' = next /\ GoOn([job.slot EXCEPT ![Step.class] = 0])
  BY <1>1, <1>4, EmptyAddressKeeps
<1> QED
  BY <1>1, <1>3, <1>4

\* A first attempt whose contract the script forgets.
LEMMA RetryKeeps == DeploymentInv /\ DeployRetries => DeploymentInv'
<1> SUFFICES ASSUME DeploymentInv, DeployRetries PROVE DeploymentInv'
  OBVIOUS
<1> DEFINE again == <<[Step EXCEPT !.tries = 1]>> \o Tail(job.steps)
<1>1. /\ job # Idle /\ Step.op = "deploy"
      /\ UNCHANGED <<env, rpc, files, printed, backend>>
      /\ UNCHANGED <<chain, next>> \/ NewContract
      /\ job' = [job EXCEPT !.steps = again]
  BY DEF DeployRetries, At, Step
<1>2. Grows
  <2>1. CASE NewContract
    BY <1>1, <2>1, AddedContract
  <2>2. CASE UNCHANGED <<chain, next>>
    BY <1>1, <2>2, StandingKeeps
  <2> QED
    BY <1>1, <2>1, <2>2
<1>3. /\ StandingTypes' /\ EnvMatches' /\ PrintedMatches'
      /\ FilesNameOneDeployment' /\ OnlyWrittenVaultsMismatch'
  BY <1>1, <1>2, GrowthKeeps
<1>4. /\ job.steps # <<>> /\ Step \in DeploySteps /\ job.slot \in [Slots -> Known]
      /\ SoundJob(job.slot, job.steps, chain, files["deploy_info.sh"].token, EnvToken)
  BY <1>1, AtStep
<1>5. /\ SoundJob(job.slot, again, chain, files["deploy_info.sh"].token, EnvToken)
      /\ again # <<>>
  BY <1>4, RetriedJob DEF Step
<1> HIDE DEF again
<1>6. SoundJob(job.slot, again, chain', files["deploy_info.sh"].token, EnvToken)
  <2>1. job.slot["vault"] \in Known
    BY <1>4 DEF Slots
  <2> QED
    BY <1>2, <1>5, <2>1, GrownJob DEF Grows
<1>7. again \in Seq(Steps)
  BY <1>5 DEF SoundJob, SoundSteps
<1>8. /\ job' \in [net : NetNames, slot : [Slots -> Known'], steps : Seq(Steps)]
      /\ job'.slot = job.slot /\ job'.steps = again
  <2>1. job \in [net : NetNames, slot : [Slots -> Known], steps : Seq(Steps)]
    BY DEF DeploymentInv, DeploymentTypes
  <2>2. next \in Nat /\ next' \in Nat /\ next <= next'
    BY <1>2 DEF Grows, DeploymentInv, DeploymentTypes
  <2>3. \A a \in Known : a \in Known'
    BY <2>2 DEF Known
  <2>4. job.slot \in [Slots -> Known']
    BY <1>4, <2>3
  <2> QED
    BY <1>1, <1>7, <2>1, <2>4
<1>9. EnvToken' = EnvToken /\ files' = files
  BY <1>1 DEF EnvToken, Configured
<1>10. JobIsSound'
  BY <1>5, <1>6, <1>8, <1>9 DEF JobIsSound
<1>11. DeploymentTypes'
  BY <1>3, <1>8 DEF StandingTypes, DeploymentTypes
<1> QED
  BY <1>3, <1>10, <1>11 DEF DeploymentInv

\* A block is sound to paste as long as .env does not change, and while a
\* script runs nobody pastes another.
LEMMA PrintKeeps == DeploymentInv /\ PrintBlock => DeploymentInv'
<1> SUFFICES ASSUME DeploymentInv, PrintBlock PROVE DeploymentInv'
  OBVIOUS
<1>1. /\ job # Idle /\ Step.op = "print" /\ GoOn(job.slot)
      /\ printed' = [n \in Step.names |-> job.slot[Names[n]]]
      /\ UNCHANGED <<chain, next, env, rpc, files, backend>>
  BY DEF PrintBlock, At, Step
<1>2. /\ job.steps # <<>> /\ job.slot \in [Slots -> Known] /\ Step \in PrintSteps /\ SoundStep(Step)
      /\ SoundJob(job.slot, job.steps, chain, files["deploy_info.sh"].token, EnvToken)
  BY <1>1, AtStep
<1>3. Step = job.steps[1] /\ 1 \in DOMAIN job.steps
  BY <1>2, TailIndexed DEF Step, SoundJob, SoundSteps
<1>4. Step.names \subseteq DOMAIN Names
  BY <1>2 DEF PrintSteps
<1>5. \A n \in Step.names : printed'[n] = job.slot[Names[n]] /\ Names[n] \in Slots
  <2>1. \A n \in DOMAIN Names : Names[n] \in Slots
    BY DEF Names, Slots
  <2> QED
    BY <1>1, <1>4, <2>1
<1>6. DOMAIN printed' = Step.names
  BY <1>1
<1>7. EnvToken' = EnvToken /\ EnvVault' = EnvVault /\ EnvStore' = EnvStore /\ Known' = Known
  BY <1>1 DEF EnvToken, EnvVault, EnvStore, Configured, Known
<1>8. StandingTypes'
  <2>1. StandingTypes
    BY TypesSplit DEF DeploymentInv
  <2>2. \A n \in DOMAIN printed' : printed'[n] \in Known'
    BY <1>2, <1>5, <1>6, <1>7
  <2> QED
    BY <1>1, <1>7, <2>1, <2>2 DEF StandingTypes
<1>9. /\ Names["MOCKBTC_CONTRACT_ADDRESS"] = "token" /\ Names["VAULT_CONTRACT_ADDRESS"] = "vault"
      /\ Names["HEADER_STORE_CONTRACT_ADDRESS"] = "store"
  BY DEF Names
<1>10. PrintedMatches'
  <2>1. CASE Prints(Step)
    <3>1. printed'["VAULT_CONTRACT_ADDRESS"] = job.slot["vault"]
          /\ "VAULT_CONTRACT_ADDRESS" \in DOMAIN printed'
      BY <1>5, <1>6, <1>9, <2>1 DEF Prints
    <3>2. PastedToken' = IF NamesToken(Step) THEN job.slot["token"] ELSE EnvToken
      BY <1>5, <1>6, <1>7, <1>9 DEF PastedToken, NamesToken
    <3>3. PastedStore' = IF NamesStore(Step) THEN job.slot["store"] ELSE EnvStore
      BY <1>5, <1>6, <1>7, <1>9 DEF PastedStore, NamesStore
    <3>4. ASSUME job.slot["vault"] \in DOMAIN chain, ~ HoldsWritten(chain[job.slot["vault"]])
          PROVE  /\ chain[job.slot["vault"]].token = PastedToken'
                 /\ chain[job.slot["vault"]].store \in {0, PastedStore'}
      <4>1. /\ chain[job.slot["vault"]].token = job.slot["token"]
            /\ chain[job.slot["vault"]].store \in {0, job.slot["store"]}
        BY <1>2, <3>4 DEF SoundJob, VaultHolds
      <4>2. /\ NamesToken(Step) \/ job.slot["token"] = EnvToken
            /\ NamesStore(Step) \/ chain[job.slot["vault"]].store = 0
        BY <1>2, <1>3, <2>1, <3>4 DEF SoundJob, PrintsMade
      <4> QED
        BY <3>2, <3>3, <4>1, <4>2
    <3> QED
      BY <1>1, <3>1, <3>4 DEF PrintedMatches, Matches
  <2>2. CASE ~ Prints(Step)
    <3>1. Step.names \subseteq LegacyNames
      BY <1>2, <2>2 DEF SoundStep
    <3> QED
      BY <1>2, <1>6, <2>2, <3>1 DEF PrintedMatches, Prints
  <2> QED
    BY <2>1, <2>2
<1>11. EnvMatches' /\ FilesNameOneDeployment' /\ OnlyWrittenVaultsMismatch'
  BY <1>1, <1>7 DEF DeploymentInv, EnvMatches, FilesNameOneDeployment, OnlyWrittenVaultsMismatch
<1>12. SoundJob(job.slot, Tail(job.steps), chain, files["deploy_info.sh"].token, EnvToken)
  BY <1>2, TailJob
<1>13. /\ job' \in [net : NetNames, slot : [Slots -> Known'], steps : Seq(Steps)]
       /\ JobIsSound'
  <2>1. 0 \notin DOMAIN chain' /\ next' \in Nat /\ next' > 3
    BY <1>8 DEF StandingTypes
  <2> QED
    BY <1>1, <1>2, <1>7, <1>12, <2>1, GoesOn
<1>14. DeploymentTypes'
  BY <1>8, <1>13 DEF StandingTypes, DeploymentTypes
<1> QED
  BY <1>10, <1>11, <1>13, <1>14 DEF DeploymentInv

\* The scripts edit only the names they call by, which the backend does not read.
LEMMA UpdateEnvKeeps == DeploymentInv /\ UpdateEnv => DeploymentInv'
<1> SUFFICES ASSUME DeploymentInv, UpdateEnv PROVE DeploymentInv'
  OBVIOUS
<1> DEFINE edited == IF Step.append THEN Step.names ELSE Step.names \cap DOMAIN env
           edits == [n \in edited |-> job.slot[Names[n]]]
<1>1. /\ job # Idle /\ Step.op = "env" /\ GoOn(job.slot)
      /\ env' = Overlay(edits, env)
      /\ rpc' = IF Step.net = "env" THEN rpc ELSE Step.net
      /\ UNCHANGED <<chain, next, files, printed, backend>>
  BY DEF UpdateEnv, At, Step
<1>2. /\ job.steps # <<>> /\ job.slot \in [Slots -> Known] /\ Step \in EnvSteps
      /\ SoundJob(job.slot, job.steps, chain, files["deploy_info.sh"].token, EnvToken)
  BY <1>1, AtStep
<1>3. DOMAIN edits = edited /\ edited \subseteq LegacyNames /\ Step.net \in {"env", "devnet"}
  BY <1>2 DEF EnvSteps
<1>4. \A n \in edited : edits[n] \in Known
  <2>1. \A n \in LegacyNames : Names[n] \in Slots
    BY DEF Names, Slots, LegacyNames
  <2> QED
    BY <1>2, <1>3, <2>1
<1> HIDE DEF edits, edited
<1>5. /\ DOMAIN env' = edited \cup DOMAIN env
      /\ \A n \in edited : env'[n] = edits[n]
      /\ \A n \in DOMAIN env : n \notin edited => env'[n] = env[n]
  <2>1. /\ DOMAIN Overlay(edits, env) = DOMAIN edits \cup DOMAIN env
        /\ \A x \in DOMAIN edits : Overlay(edits, env)[x] = edits[x]
        /\ \A x \in DOMAIN env : x \notin DOMAIN edits => Overlay(edits, env)[x] = env[x]
    BY Overlaid
  <2> QED
    BY <1>1, <1>3, <2>1
<1>6. /\ "MOCKBTC_CONTRACT_ADDRESS" \notin edited /\ "VAULT_CONTRACT_ADDRESS" \notin edited
      /\ "HEADER_STORE_CONTRACT_ADDRESS" \notin edited
  BY <1>3 DEF LegacyNames
<1>7. EnvToken' = EnvToken /\ EnvVault' = EnvVault /\ EnvStore' = EnvStore /\ Known' = Known
  BY <1>1, <1>5, <1>6 DEF EnvToken, EnvVault, EnvStore, Configured, Known
<1>8. StandingTypes'
  <2>1. StandingTypes
    BY TypesSplit DEF DeploymentInv
  <2>2. \A n \in DOMAIN env' : env'[n] \in Known'
    BY <1>4, <1>5, <1>7, <2>1 DEF StandingTypes
  <2>3. rpc' \in NetNames
    BY <1>1, <1>3, <2>1 DEF StandingTypes, NetNames
  <2> QED
    BY <1>1, <1>7, <2>1, <2>2, <2>3 DEF StandingTypes
<1>9. EnvMatches' /\ PrintedMatches' /\ FilesNameOneDeployment' /\ OnlyWrittenVaultsMismatch'
  <2>1. PastedToken' = PastedToken /\ PastedStore' = PastedStore
    BY <1>1, <1>7 DEF PastedToken, PastedStore
  <2> QED
    BY <1>1, <1>7, <2>1 DEF DeploymentInv, EnvMatches, PrintedMatches, FilesNameOneDeployment,
                            OnlyWrittenVaultsMismatch
<1>10. SoundJob(job.slot, Tail(job.steps), chain, files["deploy_info.sh"].token, EnvToken)
  BY <1>2, TailJob
<1>11. /\ job' \in [net : NetNames, slot : [Slots -> Known'], steps : Seq(Steps)]
       /\ JobIsSound'
  <2>1. 0 \notin DOMAIN chain' /\ next' \in Nat /\ next' > 3
    BY <1>8 DEF StandingTypes
  <2> QED
    BY <1>1, <1>2, <1>7, <1>10, <2>1, GoesOn
<1>12. DeploymentTypes'
  BY <1>8, <1>11 DEF StandingTypes, DeploymentTypes
<1> QED
  BY <1>9, <1>11, <1>12 DEF DeploymentInv

\* A file gets the script's own pair, or the vault for the token it has.
LEMMA WriteFileKeeps == DeploymentInv /\ WriteFile => DeploymentInv'
<1> SUFFICES ASSUME DeploymentInv, WriteFile PROVE DeploymentInv'
  OBVIOUS
<1> DEFINE entry == [s \in {"token", "vault"} |-> IF s \in Step.slots THEN job.slot[s]
                                                  ELSE IF Step.keep THEN files[Step.file][s] ELSE 0]
<1>1. /\ job # Idle /\ Step.op = "file" /\ GoOn(job.slot)
      /\ UNCHANGED <<chain, next, env, rpc, printed, backend>>
      /\ files' = [files EXCEPT ![Step.file] = entry]
  BY DEF WriteFile, At, Step
<1>2. /\ job.steps # <<>> /\ job.slot \in [Slots -> Known] /\ Step \in FileSteps /\ SoundStep(Step)
      /\ SoundJob(job.slot, job.steps, chain, files["deploy_info.sh"].token, EnvToken)
  BY <1>1, AtStep
<1>3. Step = job.steps[1] /\ 1 \in DOMAIN job.steps
  BY <1>2, TailIndexed DEF Step, SoundJob, SoundSteps
<1>4. Step.file \in AddressFiles
  BY <1>2 DEF FileSteps
<1>5. StandingTypes /\ 0 \in Known /\ 0 \notin DOMAIN chain
  <2>1. StandingTypes
    BY TypesSplit DEF DeploymentInv
  <2> QED
    BY <2>1 DEF StandingTypes, Known
<1>6. files[Step.file] \in [{"token", "vault"} -> Known]
  BY <1>4, <1>5 DEF StandingTypes
<1>7. entry \in [{"token", "vault"} -> Known]
  BY <1>2, <1>5, <1>6 DEF Slots
<1>8. IF Step.keep
      THEN Step.file = "deploy_info.sh" /\ entry["token"] = files["deploy_info.sh"]["token"]
           /\ entry["vault"] = job.slot["vault"]
      ELSE entry["token"] \in {0, job.slot["token"]} /\ entry["vault"] \in {0, job.slot["vault"]}
  BY <1>2 DEF SoundStep
<1> HIDE DEF entry
<1>9. /\ files'[Step.file] = entry
      /\ \A f \in AddressFiles : f # Step.file => files'[f] = files[f]
      /\ files' \in [AddressFiles -> [{"token", "vault"} -> Known]]
  BY <1>1, <1>4, <1>5, <1>7 DEF StandingTypes
<1>10. EnvToken' = EnvToken /\ EnvVault' = EnvVault /\ EnvStore' = EnvStore /\ Known' = Known
       /\ PastedToken' = PastedToken /\ PastedStore' = PastedStore
  BY <1>1 DEF EnvToken, EnvVault, EnvStore, PastedToken, PastedStore, Configured, Known
<1>11. StandingTypes'
  BY <1>1, <1>5, <1>9, <1>10 DEF StandingTypes
<1>12. EnvMatches' /\ PrintedMatches' /\ OnlyWrittenVaultsMismatch'
  BY <1>1, <1>10 DEF DeploymentInv, EnvMatches, PrintedMatches, OnlyWrittenVaultsMismatch
<1>13. entry["token"] # 0 /\ entry["vault"] \in DOMAIN chain => chain[entry["vault"]].token = entry["token"]
  <2> SUFFICES ASSUME entry["token"] # 0, entry["vault"] \in DOMAIN chain
               PROVE  chain[entry["vault"]].token = entry["token"]
    OBVIOUS
  <2>1. entry["vault"] = job.slot["vault"]
    BY <1>5, <1>8
  <2>2. chain[job.slot["vault"]].token = job.slot["token"]
    BY <1>2, <2>1 DEF SoundJob, VaultHolds
  <2>3. Step.keep => files["deploy_info.sh"]["token"] = job.slot["token"]
    BY <1>2, <1>3 DEF SoundJob, AppendsToOwn, Keeps
  <2> QED
    BY <1>8, <2>1, <2>2, <2>3
<1>14. FilesNameOneDeployment'
  <2> SUFFICES ASSUME NEW f \in AddressFiles, files'[f].token # 0, files'[f].vault \in DOMAIN chain
               PROVE  chain[files'[f].vault].token = files'[f].token
    BY <1>1 DEF FilesNameOneDeployment
  <2>1. CASE f = Step.file
    BY <1>9, <1>13, <2>1
  <2>2. CASE f # Step.file
    BY <1>9, <2>2 DEF DeploymentInv, FilesNameOneDeployment
  <2> QED
    BY <2>1, <2>2
<1>15. SoundJob(job.slot, Tail(job.steps), chain, files'["deploy_info.sh"].token, EnvToken)
  <2>1. Keeps(Step) => files'["deploy_info.sh"].token = files["deploy_info.sh"].token
    BY <1>8, <1>9 DEF Keeps
  <2> QED
    BY <1>2, <2>1, FiledJob DEF Step
<1>16. /\ job' \in [net : NetNames, slot : [Slots -> Known'], steps : Seq(Steps)]
       /\ JobIsSound'
  <2>1. 0 \notin DOMAIN chain' /\ next' \in Nat /\ next' > 3
    BY <1>11 DEF StandingTypes
  <2> QED
    BY <1>1, <1>2, <1>10, <1>15, <2>1, GoesOn
<1>17. DeploymentTypes'
  BY <1>11, <1>16 DEF StandingTypes, DeploymentTypes
<1> QED
  BY <1>12, <1>14, <1>16, <1>17 DEF DeploymentInv

\* A script that stops leaves its contracts behind, unnamed.
LEMMA StopKeeps == DeploymentInv /\ ScriptStops => DeploymentInv'
<1> SUFFICES ASSUME DeploymentInv, ScriptStops PROVE DeploymentInv'
  OBVIOUS
<1>1. job' = Idle /\ UNCHANGED <<chain, next, env, rpc, files, printed, backend>>
  BY DEF ScriptStops
<1>2. /\ StandingTypes' /\ EnvMatches' /\ PrintedMatches'
      /\ FilesNameOneDeployment' /\ OnlyWrittenVaultsMismatch' /\ Known' = Known
  BY <1>1, StandingKeeps
<1>3. 0 \in Known /\ 0 \notin DOMAIN chain
  BY DEF DeploymentInv, DeploymentTypes, Known
<1>4. Idle \in [net : NetNames, slot : [Slots -> Known'], steps : Seq(Steps)]
  <2>1. NoSlots \in [Slots -> Known']
    BY <1>2, <1>3 DEF NoSlots
  <2>2. <<>> \in Seq(Steps) /\ "none" \in NetNames
    BY DEF NetNames
  <2> QED
    BY <2>1, <2>2 DEF Idle
<1>5. JobIsSound'
  BY <1>1, <1>3, IdleJob DEF JobIsSound
<1>6. DeploymentTypes'
  BY <1>1, <1>2, <1>4 DEF StandingTypes, DeploymentTypes
<1> QED
  BY <1>2, <1>5, <1>6 DEF DeploymentInv

\* Pasting the whole block brings the configuration to what was printed.
LEMMA PasteKeeps == DeploymentInv /\ PasteBlock => DeploymentInv'
<1> SUFFICES ASSUME DeploymentInv, PasteBlock PROVE DeploymentInv'
  OBVIOUS
<1>1. job = Idle /\ env' = Overlay(printed, env)
      /\ UNCHANGED <<chain, next, job, rpc, files, printed, backend>>
  BY DEF PasteBlock
<1>2. StandingTypes /\ 0 \notin DOMAIN chain
  BY TypesSplit DEF DeploymentInv, StandingTypes
<1>3. /\ DOMAIN env' = DOMAIN printed \cup DOMAIN env
      /\ \A n \in DOMAIN printed : env'[n] = printed[n]
      /\ \A n \in DOMAIN env : n \notin DOMAIN printed => env'[n] = env[n]
  <2>1. /\ DOMAIN Overlay(printed, env) = DOMAIN printed \cup DOMAIN env
        /\ \A x \in DOMAIN printed : Overlay(printed, env)[x] = printed[x]
        /\ \A x \in DOMAIN env : x \notin DOMAIN printed => Overlay(printed, env)[x] = env[x]
    BY Overlaid
  <2> QED
    BY <1>1, <2>1
<1>4. EnvToken' = PastedToken /\ EnvStore' = PastedStore
  BY <1>3 DEF EnvToken, EnvStore, PastedToken, PastedStore, Configured
<1>5. EnvVault' = IF "VAULT_CONTRACT_ADDRESS" \in DOMAIN printed
                  THEN printed["VAULT_CONTRACT_ADDRESS"] ELSE EnvVault
  BY <1>3 DEF EnvVault, Configured
<1>6. PastedToken' = PastedToken /\ PastedStore' = PastedStore
  BY <1>1, <1>4 DEF PastedToken, PastedStore
<1>7. EnvMatches' /\ PrintedMatches'
  <2>1. CASE "VAULT_CONTRACT_ADDRESS" \in DOMAIN printed
    BY <1>1, <1>4, <1>5, <1>6, <2>1 DEF DeploymentInv, EnvMatches, PrintedMatches
  <2>2. CASE "VAULT_CONTRACT_ADDRESS" \notin DOMAIN printed
    <3>1. DOMAIN printed \subseteq LegacyNames
      BY <2>2 DEF DeploymentInv, PrintedMatches
    <3>2. PastedToken = EnvToken /\ PastedStore = EnvStore
      BY <3>1 DEF PastedToken, PastedStore, LegacyNames
    <3> QED
      BY <1>1, <1>4, <1>5, <2>2, <3>1, <3>2 DEF DeploymentInv, EnvMatches, PrintedMatches
  <2> QED
    BY <2>1, <2>2
<1>8. Known' = Known
  BY <1>1 DEF Known
<1>9. DeploymentTypes'
  <2>1. \A n \in DOMAIN env' : env'[n] \in Known'
    BY <1>2, <1>3, <1>8 DEF StandingTypes
  <2> QED
    BY <1>1, <1>8, <2>1 DEF DeploymentInv, DeploymentTypes
<1>10. JobIsSound'
  BY <1>1, <1>2, IdleJob DEF JobIsSound
<1>11. FilesNameOneDeployment' /\ OnlyWrittenVaultsMismatch'
  BY <1>1 DEF DeploymentInv, FilesNameOneDeployment, OnlyWrittenVaultsMismatch
<1> QED
  BY <1>7, <1>9, <1>10, <1>11 DEF DeploymentInv

\* The backend reads a configuration whose names match.
LEMMA RestartKeeps == DeploymentInv /\ RestartBackend => DeploymentInv'
<1> SUFFICES ASSUME DeploymentInv, RestartBackend PROVE DeploymentInv'
  OBVIOUS
<1>1. /\ backend' = IF rpc # "sepolia" THEN Down
                    ELSE [token |-> EnvToken, vault |-> EnvVault, store |-> EnvStore]
      /\ UNCHANGED <<chain, next, job, env, rpc, files, printed>>
  BY DEF RestartBackend, EnvToken, EnvVault, EnvStore
<1>2. StandingTypes /\ 0 \notin DOMAIN chain /\ 0 \in Known
  BY TypesSplit DEF DeploymentInv, StandingTypes, Known
<1>3. Known' = Known /\ EnvToken' = EnvToken /\ EnvVault' = EnvVault /\ EnvStore' = EnvStore
      /\ PastedToken' = PastedToken /\ PastedStore' = PastedStore
  BY <1>1 DEF Known, EnvToken, EnvVault, EnvStore, PastedToken, PastedStore, Configured
<1>4. backend'.vault \in Known'
  BY <1>1, <1>2, <1>3, ConfiguredKnown DEF Down
<1>5. OnlyWrittenVaultsMismatch'
  <2>1. CASE rpc = "sepolia"
    <3>1. backend'.token = EnvToken /\ backend'.vault = EnvVault /\ backend'.store = EnvStore
      BY <1>1, <2>1
    <3> QED
      BY <1>1, <3>1 DEF DeploymentInv, EnvMatches, Matches, OnlyWrittenVaultsMismatch
  <2>2. CASE rpc # "sepolia"
    BY <1>1, <1>2, <2>2 DEF Down, OnlyWrittenVaultsMismatch
  <2> QED
    BY <2>1, <2>2
<1>6. DeploymentTypes'
  BY <1>1, <1>3, <1>4 DEF DeploymentInv, DeploymentTypes
<1>7. EnvMatches' /\ PrintedMatches' /\ JobIsSound' /\ FilesNameOneDeployment'
  BY <1>1, <1>3 DEF DeploymentInv, EnvMatches, PrintedMatches, JobIsSound, FilesNameOneDeployment
<1> QED
  BY <1>5, <1>6, <1>7 DEF DeploymentInv

\* Neither a new build nor a step of nothing is seen by the invariant.
LEMMA StillKeeps ==
  DeploymentInv /\ UNCHANGED <<chain, next, job, env, rpc, files, printed, backend>> => DeploymentInv'
<1> SUFFICES ASSUME DeploymentInv,
                    UNCHANGED <<chain, next, job, env, rpc, files, printed, backend>>
             PROVE  DeploymentInv'
  OBVIOUS
<1>1. /\ StandingTypes' /\ EnvMatches' /\ PrintedMatches'
      /\ FilesNameOneDeployment' /\ OnlyWrittenVaultsMismatch'
      /\ EnvToken' = EnvToken /\ Known' = Known
  BY StandingKeeps
<1>2. JobIsSound'
  BY <1>1 DEF DeploymentInv, JobIsSound
<1>3. DeploymentTypes'
  BY <1>1 DEF DeploymentInv, DeploymentTypes, StandingTypes
<1> QED
  BY <1>1, <1>2, <1>3 DEF DeploymentInv

\* Every step keeps the invariant.
LEMMA StepsKeep == DeploymentInv /\ [Next]_vars => DeploymentInv'
<1> SUFFICES ASSUME DeploymentInv, [Next]_vars PROVE DeploymentInv'
  OBVIOUS
<1>1. CASE StartScript
  BY <1>1, StartKeeps
<1>2. CASE DeclareClass \/ DeclareFails
  BY <1>2, DeclarationsKeep
<1>3. CASE DeployContract
  BY <1>3, DeployContractKeeps
<1>4. CASE DeployReverts \/ DeployFailsUnseen
  BY <1>4, FailedDeploysKeep
<1>5. CASE DeployRetries
  BY <1>5, RetryKeeps
<1>6. CASE PrintBlock
  BY <1>6, PrintKeeps
<1>7. CASE UpdateEnv
  BY <1>7, UpdateEnvKeeps
<1>8. CASE WriteFile
  BY <1>8, WriteFileKeeps
<1>9. CASE ScriptStops
  BY <1>9, StopKeeps
<1>10. CASE PasteBlock
  BY <1>10, PasteKeeps
<1>11. CASE Rebuild
  BY <1>11, StillKeeps DEF Rebuild
<1>12. CASE RestartBackend
  BY <1>12, RestartKeeps
<1>13. CASE UNCHANGED vars
  BY <1>13, StillKeeps DEF vars
<1> QED
  BY <1>1, <1>2, <1>3, <1>4, <1>5, <1>6, <1>7, <1>8, <1>9, <1>10, <1>11, <1>12, <1>13 DEF Next

\* The invariant holds in every reachable state, whatever is run.
THEOREM DeploymentInvariance == Spec => []DeploymentInv
  BY InvAtFirst, StepsKeep, PTL DEF Spec

\* A file that names a token and a vault names two that belong together,
\* whatever failed before (deploy_sepolia_fixed.ts:203-222, deploy_fresh.ts).
THEOREM FilesNamePairs == Spec => []FilesNameOneDeployment
<1>1. DeploymentInv => FilesNameOneDeployment
  BY DEF DeploymentInv
<1> QED
  BY <1>1, DeploymentInvariance, PTL

\* The backend mints with the token its vault holds, and relays into the
\* store its vault reads (config/env.ts:13-14, index.ts:160), or its vault is
\* one of deploy_p2tr_vault.sh and holds the token and store written there.
THEOREM OnlyTheWrittenVaultMismatches == Spec => []OnlyWrittenVaultsMismatch
<1>1. DeploymentInv => OnlyWrittenVaultsMismatch
  BY DEF DeploymentInv
<1> QED
  BY <1>1, DeploymentInvariance, PTL
=============================================================================
