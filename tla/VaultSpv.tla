------------------------------ MODULE VaultSpv ------------------------------
(***************************************************************************)
(* The contracts beside the proofs they are given.  VaultContract takes a  *)
(* Merkle root for the set of transactions it commits to; here every root  *)
(* the header store holds is one that buildSpvProof and                    *)
(* verify_merkle_proof treat so, whatever else its block holds.            *)
(***************************************************************************)
EXTENDS VaultContract, SpvProof

\* The sizes a block may have whose deposits are `set`: it also holds its
\* coinbase and any number of other transactions.
Sizes(set, max) == (Cardinality(set) + 1) .. max

(***************************************************************************)
(* For every root the header store holds, whatever else its block holds:   *)
(* the proofs BitcoinProofService builds pass the checks of deposit()      *)
(* (BitcoinProofService.ts:199-290, vault.cairo:105-170).                  *)
(***************************************************************************)
BuiltProofsAreAccepted ==
    \A h \in Heights : roots[h].stored =>
        Sizes(roots[h].set, MaxBlock) \subseteq SizesWithAcceptedProofs

(***************************************************************************)
(* For every root the header store holds: verify_merkle_proof accepts a    *)
(* transaction only if it is in the block, at the position named.  This is *)
(* what MerkleIncluded of VaultContract takes from bitcoin_spv.cairo:87.   *)
(***************************************************************************)
AcceptedProofsNameTheirLeaf ==
    \A h \in Heights : roots[h].stored =>
        Sizes(roots[h].set, SmallBlock) \subseteq SizesWithExactProofs
=============================================================================
