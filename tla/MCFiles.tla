------------------------------- MODULE MCFiles -------------------------------
(***************************************************************************)
(* MessageParser with several q processes and shared files.  The           *)
(* conversions are stand-ins: a message is the sequence of records it      *)
(* serializes to, and any input without a hole parses, as input made of    *)
(* whole protobuf records does.  What matters here is which records reach  *)
(* a file, and in which order the steps of several processes touch it.     *)
(***************************************************************************)
EXTENDS MessageParserProps

Text == [short |-> <<"a1">>, long |-> <<"b1", "b2">>,
         huge |-> <<"c1", "c2", "c3">>]

MCKObj == DOMAIN Text \cup {"ill_typed"}
MCKToMessage(ty, k, nm) == IF k \in DOMAIN Text THEN Text[k] ELSE Failed
MCMessageToK(ty, m, nm) == IF m = <<>> THEN "empty" ELSE m
MCSerialize(ty, m) == m
MCParse(ty, b) ==
    IF \E i \in DOMAIN b : b[i] = Hole THEN Failed ELSE b
MCModes == {FALSE}
=============================================================================
