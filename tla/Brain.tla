-------------------------------- MODULE Brain --------------------------------
(***************************************************************************)
(* The network of a learned bot: backend/pkg/brain/mlp.go.  A network is   *)
(* its layer sizes and the number of its weights; what is modelled is      *)
(* which networks are accepted and which weights Forward reads, not what   *)
(* it computes from them.  Layers are numbered from 1, neurons and weights *)
(* from 0.                                                                 *)
(***************************************************************************)
EXTENDS Integers, SequencesExt

\* The weights of layer l: a row for each neuron, then the biases.
LayerCount(sizes, l) == sizes[l] * sizes[l + 1] + sizes[l + 1]

\* The sum over the layers: where each begins, and in the end how many weights there are.
Idx(sizes) ==
    LET idx[l \in 1 .. Len(sizes)] == IF l = 1 THEN 0 ELSE idx[l - 1] + LayerCount(sizes, l - 1)
    IN  idx

ParamCount(sizes) == Idx(sizes)[Len(sizes)]

\* FromFlat accepts a network.
FromFlat(sizes, count) == Len(sizes) >= 2 /\ count = ParamCount(sizes)

\* WeightsFromBytes: four bytes are a weight, and nothing may be left over.
WeightsFromBytes(bytes) == IF bytes % 4 = 0 THEN {bytes \div 4} ELSE {}

\* DecodeWeightsB64 and FromFlat: can this encoding be played with these sizes?
Decodes(encoded, sizes) ==
    encoded.base64 /\ \E count \in WeightsFromBytes(encoded.bytes) : FromFlat(sizes, count)

\* Forward: what neuron j of layer l reads.
TransposedRow(sizes, l, j) ==                                       \* mutant of Row
    {Idx(sizes)[l] + i * sizes[l] + j : i \in 0 .. sizes[l] - 1}
Row(sizes, l, j) == {Idx(sizes)[l] + j * sizes[l] + i : i \in 0 .. sizes[l] - 1}

Bias(sizes, l, j) == Idx(sizes)[l] + sizes[l] * sizes[l + 1] + j

\* Each neuron, and the set of weights it reads.
Neurons(sizes) == UNION {{l} \X (0 .. sizes[l + 1] - 1) : l \in 1 .. Len(sizes) - 1}

Reads(sizes, neuron) ==
    Row(sizes, neuron[1], neuron[2]) \cup {Bias(sizes, neuron[1], neuron[2])}

\* No two neurons share a weight and none is left out or beyond the end.
WeightsPartitioned(sizes, count) ==
    /\ UNION {Reads(sizes, n) : n \in Neurons(sizes)} = 0 .. count - 1
    /\ \A m, n \in Neurons(sizes) : m # n => Reads(sizes, m) \cap Reads(sizes, n) = {}
    /\ \A n \in Neurons(sizes) : Cardinality(Reads(sizes, n)) = sizes[n[1]] + 1
=============================================================================
