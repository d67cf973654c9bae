---------------------------- MODULE MCProtobufKdb ----------------------------
(***************************************************************************)
(* One q process, one file for messages, and one .proto file of which two  *)
(* versions appear: both define a type, one shadows a compiled in type.    *)
(***************************************************************************)
EXTENDS ProtobufKdbProps, TLC

Proto(ts) == [deps |-> {}, types |-> ts, uses |-> {}]
Old == Proto(("T" :> "T v1") @@ ("C" :> "C imported"))
New == Proto("T" :> "T v2")

MCProtos == {Old, New}
MCCompiled == "C" :> "C compiled"

(* A message is the sequence of records it serializes to; they name the
   definition they were made with. *)
MCKObj == {"object", "ill_typed"}
MCKToMessage(ty, k, nm) == IF k = "object" THEN <<ty>> ELSE Failed
MCMessageToK(ty, m, nm) == IF m = <<>> THEN "empty" ELSE m
MCSerialize(ty, m) == m
MCParse(ty, b) == b
MCCharArrays == {<<>>}

(* No guard looks at what the last call returned, nor, between calls, at
   whether a load was disturbed. *)
Disturbed == pc[Self] = "load_reading" /\ dirty[Self]
WithoutResults == <<disk, source_tree, importing, read, pool, desc_pool,
    imported_files, files, pc, job, buf, pos, last, Disturbed, told, called, wrote>>
=============================================================================
