----------------------------- MODULE MCWeights ------------------------------
(***************************************************************************)
(* A small adapter in one file over a base in two shards.                   *)
(***************************************************************************)
EXTENDS Weights, TLC

AdapterAndBase == <<"adapter", "base">>
TwoShards == "adapter" :> {} @@ "base" :> {"shard1", "shard2"}

Network(reach, huggingface, modelscope) ==
    [reach |-> reach, holds |-> [h \in Hubs |-> IF h = "huggingface" THEN huggingface ELSE modelscope]]

\* Open networks with every mirror; Hugging Face blocked or missing a
\* repository; each repository on a hub of its own; and no network at all.
MCNetworks ==
    {Network(Hubs, Specs, mirror) : mirror \in SUBSET Specs} \union
    {Network({"modelscope"}, Specs, mirror) : mirror \in {{"adapter"}, Specs}} \union
    {Network(Hubs, {"adapter"}, {"base"}), Network({}, Specs, Specs)}
=============================================================================
