------------------------------ MODULE SpvProof ------------------------------
(***************************************************************************)
(* The proof of a Bitcoin payment: BitcoinProofService builds it from what *)
(* a block explorer answers, and deposit() of the vault checks it with the *)
(* functions of bitcoin_spv.cairo.  Nothing here has a state; the module   *)
(* relates the two algorithms over small transactions and blocks.          *)
(*                                                                         *)
(* A buffer is a sequence of units.  Every fixed-width field takes one     *)
(* unit (two for the SegWit marker and flag), a script takes its length,   *)
(* and a varint takes one unit or, from Wide on, two.  A hash is what it   *)
(* was computed from and its byte order: hashing is injective.             *)
(***************************************************************************)
EXTENDS Naturals, Sequences

CONSTANTS
    Transactions,   \* the transactions that pay the vault, or somebody else
    MaxBlock,       \* transactions in a block
    SmallBlock      \* transactions in a block whose proofs are all enumerated

Wide == 3                                   \* 0xfd
VaultScript == <<8, 8>>                     \* what vault_tapkey expects
OtherScript == <<9, 9, 9>>                  \* long enough for a wide varint

-----------------------------------------------------------------------------
(* Reference: transactions, blocks and what the explorer sends.            *)

VarInt(n) == IF n < Wide THEN <<n>> ELSE <<Wide, n>>

\* The concatenations of the sequences f[1], ..., f[i], and of them all.
Prefixes(f) ==
    LET upTo[i \in 0 .. Len(f)] == IF i = 0 THEN <<>> ELSE upTo[i - 1] \o f[i]
    IN  upTo
Concat(f) == Prefixes(f)[Len(f)]

Field == <<5>>                              \* version, outpoint, sequence, locktime
Marker == <<0, 1>>

ScriptBytes(s) == VarInt(Len(s)) \o s
InputItem(input) == Field \o ScriptBytes(input) \o Field
OutputItem(output) == <<output.sats>> \o ScriptBytes(output.script)
WitnessItem(stack) ==
    VarInt(Len(stack)) \o Concat([j \in DOMAIN stack |-> ScriptBytes(stack[j])])

InputBytes(tx) ==
    VarInt(Len(tx.inputs)) \o Concat([i \in DOMAIN tx.inputs |-> InputItem(tx.inputs[i])])
OutputBytes(tx) ==
    VarInt(Len(tx.outputs)) \o Concat([i \in DOMAIN tx.outputs |-> OutputItem(tx.outputs[i])])
WitnessBytes(tx) == Concat([i \in DOMAIN tx.witness |-> WitnessItem(tx.witness[i])])

\* The format a txid is computed from, and the one the network passes on.
Legacy(tx) == Field \o InputBytes(tx) \o OutputBytes(tx) \o Field
Raw(tx) ==
    IF tx.witness = <<>> THEN Legacy(tx)
    ELSE Field \o Marker \o InputBytes(tx) \o OutputBytes(tx) \o WitnessBytes(tx) \o Field

double_sha256(bytes) == [of |-> bytes, reversed |-> FALSE]
Display(h) == [h EXCEPT !.reversed = ~@]
hash_pair(left, right) == double_sha256(<<left, right>>)

\* One level of the tree up; the last hash of an odd level is paired with
\* itself.
Paired(s, i) == IF 2 * i <= Len(s) THEN s[2 * i] ELSE s[2 * i - 1]
Parents(s) == [i \in 1 .. (Len(s) + 1) \div 2 |-> hash_pair(s[2 * i - 1], Paired(s, i))]

\* The levels of the tree above a block, and the first that is one hash.
TxHash(tx) == double_sha256(Legacy(tx))
Leaves(block) == [i \in DOMAIN block |-> TxHash(block[i])]
Levels(block) ==
    LET level[d \in 0 .. Len(block)] ==
            IF d = 0 THEN Leaves(block) ELSE Parents(level[d - 1])
    IN  level
Depth(block) ==
    CHOOSE d \in 0 .. Len(block) :
        /\ Len(Levels(block)[d]) = 1
        /\ \A e \in 0 .. d - 1 : Len(Levels(block)[e]) # 1
MerkleRoot(block) == Levels(block)[Depth(block)][1]

\* GET /tx/<txid>/merkle-proof: the hash beside the path at every level, as
\* it is displayed.  pos counts from 0.
Sibling(s, i) ==
    LET j == IF i % 2 = 0 THEN i + 1 ELSE i - 1
    IN  IF j < Len(s) THEN s[j + 1] ELSE s[i + 1]
Path(pos, depth) ==
    LET place[d \in 0 .. depth] == IF d = 0 THEN pos ELSE place[d - 1] \div 2
    IN  place
MerkleAnswer(block, pos) ==
    LET depth == Depth(block)
    IN  [d \in 1 .. depth |->
           Display(Sibling(Levels(block)[d - 1], Path(pos, depth)[d - 1]))]

-----------------------------------------------------------------------------
(* BitcoinProofService.  Offsets count from 0, as in a Buffer.             *)

At(buf, offset) == buf[offset + 1]
Slice(buf, from, to) == SubSeq(buf, from + 1, to)

\* Faulty variant: the hash is taken in the order in which it came.
HashAsDisplayed(h) == h

\* hexHashToWords reverses the bytes.
hexHashToWords(h) == Display(h)

readVarInt(buf, offset) ==
    IF At(buf, offset) < Wide THEN [value |-> At(buf, offset), size |-> 1]
    ELSE [value |-> At(buf, offset + 1), size |-> 2]

IsSegWit(buf) == At(buf, 1) = 0 /\ At(buf, 2) = 1

\* The cursor after n items, each of which moves it from c to past[c].
SkipTimes(n, start, past) ==
    LET cursor[i \in 0 .. n] == IF i = 0 THEN start ELSE past[cursor[i - 1]]
    IN  cursor[n]

PastVarInt(buf, cursor) == cursor + readVarInt(buf, cursor).size
PastScript(buf, cursor) ==
    LET len == readVarInt(buf, cursor) IN cursor + len.size + len.value
PastInput(buf, cursor) == PastScript(buf, cursor + 1) + 1
PastOutput(buf, cursor) == PastScript(buf, cursor + 1)

\* The items that follow a count.
PastItems(buf, cursor, past) ==
    SkipTimes(readVarInt(buf, cursor).value, PastVarInt(buf, cursor), past)
PastInputs(buf, cursor) == PastItems(buf, cursor, [c \in 0 .. Len(buf) |-> PastInput(buf, c)])
PastOutputs(buf, cursor) == PastItems(buf, cursor, [c \in 0 .. Len(buf) |-> PastOutput(buf, c)])
PastWitness(buf, cursor) == PastItems(buf, cursor, [c \in 0 .. Len(buf) |-> PastScript(buf, c)])

\* Faulty variant: the witness of one input only is skipped.
StripFirstWitness(buf) ==
    IF ~IsSegWit(buf) THEN buf
    ELSE LET outputs == PastInputs(buf, 3)
             witness == PastOutputs(buf, outputs)
             locktime == PastWitness(buf, witness)
         IN  Slice(buf, 0, 1) \o Slice(buf, 3, witness)
               \o Slice(buf, locktime, locktime + 1)

\* Version, inputs, outputs and locktime, without marker, flag and witness.
stripWitnessData(buf) ==
    IF ~IsSegWit(buf) THEN buf
    ELSE LET outputs == PastInputs(buf, 3)
             witness == PastOutputs(buf, outputs)
             locktime == SkipTimes(readVarInt(buf, 3).value, witness,
                                   [c \in 0 .. Len(buf) |-> PastWitness(buf, c)])
         IN  Slice(buf, 0, 1) \o Slice(buf, 3, witness)
               \o Slice(buf, locktime, locktime + 1)

\* Where the outputs begin, for a buffer of either format.
OutputsAt(buf) == PastInputs(buf, IF IsSegWit(buf) THEN 3 ELSE 1)
OutputAt(buf, vout) ==
    SkipTimes(vout, PastVarInt(buf, OutputsAt(buf)),
              [c \in 0 .. Len(buf) |-> PastOutput(buf, c)])
ScriptAt(buf, vout) ==
    LET cursor == OutputAt(buf, vout) + 1
    IN  Slice(buf, PastVarInt(buf, cursor), PastScript(buf, cursor))

\* The outputs whose script is the vault's; findVaultOutput throws when there
\* is none and takes the first otherwise.
VaultOutputs(buf) ==
    {vout \in 0 .. readVarInt(buf, OutputsAt(buf)).value - 1 :
        ScriptAt(buf, vout) = VaultScript}
findVaultOutput(buf) ==
    LET first == CHOOSE v \in VaultOutputs(buf) : \A w \in VaultOutputs(buf) : v <= w
    IN  [voutIndex |-> first, amountSats |-> At(buf, OutputAt(buf, first))]

\* buildSpvProof, for the transaction at a position of a block.
buildSpvProof(block, pos) ==
    LET raw == Raw(block[pos + 1])
        siblings == MerkleAnswer(block, pos)
    IN  [txPos |-> pos,
         rawTx |-> stripWitnessData(raw),
         merkleProof |-> [i \in DOMAIN siblings |-> hexHashToWords(siblings[i])],
         output |-> findVaultOutput(raw)]

-----------------------------------------------------------------------------
(* bitcoin_spv.cairo                                                       *)

\* Faulty variant: the order of the pair does not depend on the position.
VerifyUnordered(txid, proof, pos, root) ==
    LET current[i \in 0 .. Len(proof)] ==
            IF i = 0 THEN txid ELSE hash_pair(current[i - 1], proof[i])
    IN  current[Len(proof)] = root

\* One turn of the loop: idx says on which side of the pair the current hash
\* is.
Combine(at, sibling) ==
    [current |-> IF at.idx % 2 = 0 THEN hash_pair(at.current, sibling)
                 ELSE hash_pair(sibling, at.current),
     idx |-> at.idx \div 2]
Walk(txid, proof, pos) ==
    LET at[i \in 0 .. Len(proof)] ==
            IF i = 0 THEN [current |-> txid, idx |-> pos]
            ELSE Combine(at[i - 1], proof[i])
    IN  at
verify_merkle_proof(txid, proof, pos, root) ==
    Walk(txid, proof, pos)[Len(proof)].current = root

\* parse_output walks the buffer like findVaultOutput, to a given output.
parse_output(buf, vout) ==
    [sats |-> At(buf, OutputAt(buf, vout)), script |-> ScriptAt(buf, vout)]

\* deposit(): steps 3, 5, 6 and 7.
DepositAccepts(p, root) ==
    LET txid == double_sha256(p.rawTx)
        output == parse_output(p.rawTx, p.output.voutIndex)
    IN  /\ verify_merkle_proof(txid, p.merkleProof, p.txPos, root)
        /\ output.sats > 0
        /\ output.script = VaultScript

-----------------------------------------------------------------------------
(* Bounded inputs                                                          *)

\* A transaction has an input, and no witness or a stack for each input.
IsTransaction(tx) ==
    /\ tx \in [inputs : Seq(Seq(Nat)),
               outputs : Seq([sats : Nat, script : Seq(Nat)]),
               witness : Seq(Seq(Seq(Nat)))]
    /\ tx.inputs # <<>>
    /\ tx.witness = <<>> \/ Len(tx.witness) = Len(tx.inputs)

ASSUME SpvConstants ==
    /\ \A tx \in Transactions : IsTransaction(tx)
    /\ MaxBlock \in Nat /\ SmallBlock \in Nat

\* What is left to the vault is not nothing.
PaysVault(output) == output.script = VaultScript
Paying ==
    {tx \in Transactions :
        /\ \E i \in DOMAIN tx.outputs : PaysVault(tx.outputs[i])
        /\ \A i \in DOMAIN tx.outputs : PaysVault(tx.outputs[i]) => tx.outputs[i].sats > 0}

\* Other transactions of a block; the k-th differs from all others.
Keep == [sats |-> 4, script |-> OtherScript]
Filler(k) == [inputs |-> <<<<k>>>>, outputs |-> <<Keep>>, witness |-> <<>>]
FillerBlock(n) == [i \in 1 .. n |-> Filler(10 + i)]
BlockOf(n, pos, tx) == [FillerBlock(n) EXCEPT ![pos + 1] = tx]

\* The hashes a proof for a block could be put together from, and the proofs
\* one level shorter to one level longer than the tree.
Nodes(block) == UNION {{Levels(block)[d][i] : i \in DOMAIN Levels(block)[d]} :
                          d \in 0 .. Depth(block)}
Proofs(block) == UNION {[1 .. n -> Nodes(block)] : n \in 0 .. Depth(block) + 1}

\* The leaves of a tree whose levels are all even.
Span(depth) ==
    LET span[d \in 0 .. depth] == IF d = 0 THEN 1 ELSE 2 * span[d - 1]
    IN  span[depth]

-----------------------------------------------------------------------------
(***************************************************************************)
(* The block sizes for which, wherever a payment to the vault stands and   *)
(* with or without witnesses, the proof buildSpvProof makes of it passes   *)
(* the checks of deposit() against the root of the block, and the amount   *)
(* the service reports is the amount the contract reads.                   *)
(***************************************************************************)
SizesWithAcceptedProofs ==
    {n \in 1 .. MaxBlock : \A pos \in 0 .. n - 1 : \A tx \in Paying :
        LET block == BlockOf(n, pos, tx)
            p == buildSpvProof(block, pos)
        IN  /\ DepositAccepts(p, MerkleRoot(block))
            /\ p.output.amountSats = parse_output(p.rawTx, p.output.voutIndex).sats}

(***************************************************************************)
(* The block sizes for which, whatever proof and position are presented,   *)
(* verify_merkle_proof accepts them only for a transaction of the block,   *)
(* the one at that position modulo the width of the tree if the block      *)
(* reaches so far.  Positions past the width are accepted as well; those   *)
(* between the block and the width stand for one of its last transactions. *)
(***************************************************************************)
SizesWithExactProofs ==
    {n \in 1 .. SmallBlock :
        LET block == FillerBlock(n)
            depth == Depth(block)
            width == Span(depth)
            root == MerkleRoot(block)
        IN  \A proof \in Proofs(block), pos \in 0 .. 2 * width - 1, k \in 1 .. n + 1 :
              verify_merkle_proof(TxHash(Filler(10 + k)), proof, pos, root) =>
                 /\ Len(proof) = depth
                 /\ k <= n
                 /\ pos % width < n => k = (pos % width) + 1}
=============================================================================
