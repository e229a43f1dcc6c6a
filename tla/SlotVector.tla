----------------------------- MODULE SlotVector ----------------------------
(***************************************************************************)
(* The slots of one ciphertext and what CKKS can do to them: rotate them   *)
(* cyclically, add two ciphertexts, multiply by a plaintext mask.  A slot  *)
(* holds a formal sum, a bag of terms, so that two slots are equal exactly *)
(* if they are equal for every input and every weight.  A term is a        *)
(* sequence of factors: multiplying by a weight puts it in front.          *)
(***************************************************************************)
EXTENDS Integers, FiniteSets, Bags, Sequences, FiniteSetsExt

One == <<>>   \* the weight 1.0: no factor

Slots(batch) == 0 .. batch - 1

SumOf(terms) == SetToBag(terms)

\* Input k in the leading slots, zero in the padding.
Encrypted(k, size, batch) ==
  [p \in Slots(batch) |-> IF p < size THEN SumOf({<<k, p>>}) ELSE EmptyBag]

\* Left for a positive offset: EvalRotate, numpy.roll(v, -offset).
Rotate(v, offset) ==
  LET batch == Cardinality(DOMAIN v)
  IN  [p \in DOMAIN v |-> v[(p + offset) % batch]]

Plus(v, w) == [p \in DOMAIN v |-> v[p] (+) w[p]]

\* A mask is a set of slots with their weights; a slot it does not name is 0,
\* and the weights of a slot named twice are added.
Ones(chosen) == {<<p, One>> : p \in chosen}
RotateMask(mask, right, batch) == {<<(e[1] + right) % batch, e[2]>> : e \in mask}

Scaled(weight, sum) ==
  [t \in {weight \o s : s \in DOMAIN sum} |->
     sum[SubSeq(t, Len(weight) + 1, Len(t))]]

Times(v, mask) ==
  [p \in DOMAIN v |-> FoldSet(LAMBDA e, total : total (+) Scaled(e[2], v[p]), EmptyBag,
                             {e \in mask : e[1] = p})]
=============================================================================
