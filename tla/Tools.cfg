\* Any two hashes, of short texts with bars in them; or up to four proofs, of
\* any circuits and batches.
CONSTANTS
  Modulus = 5
  Texts <- MCTexts
  Numbers <- MCNumbers
  MaxComputed = 2
  Batches <- MCBatches
  MaxProved = 4
SPECIFICATION Spec
INVARIANTS
  HashesSeparate
  PartsMakeTheWhole
  WholeHasItsParts
