----------------------------- MODULE TypeRegistry -----------------------------
(***************************************************************************)
(* What a caller of MessageFactory may rely on: a growing table of message *)
(* types.  A type keeps the definition it was first known by, imports only *)
(* ever add to the list of imported types, and every listed type is known. *)
(***************************************************************************)
CONSTANTS MessageTypes, \* names of message types
          Compiled      \* [message types compiled in -> their definitions]

VARIABLES known,        \* [types that can be created -> their definitions]
          listed,       \* imported types
          answer        \* result of the last call that returned

vars == <<known, listed, answer>>

Init == known = Compiled /\ listed = {} /\ answer = <<"none">>

Extends(f, g) == \A t \in DOMAIN g : t \in DOMAIN f /\ f[t] = g[t]

(* A file of definitions was built; types of its own, not yet listed. *)
Learn == Extends(known', known) /\ UNCHANGED <<listed, answer>>

Import == /\ answer' \in {<<"imported">>, <<"import error">>}
          /\ listed \subseteq listed' /\ listed' \subseteq DOMAIN known
          /\ answer' # <<"imported">> => listed' = listed
          /\ UNCHANGED known

CreateMessage(t) ==
    /\ answer' = IF t \in DOMAIN known THEN <<"created", known[t]>>
                                    ELSE <<"unknown">>
    /\ UNCHANGED <<known, listed>>

ListImportedMessageTypes == answer' = <<"types", listed>> /\ UNCHANGED <<known, listed>>

Next == \/ Learn \/ Import \/ ListImportedMessageTypes
        \/ \E t \in MessageTypes : CreateMessage(t)

Spec == Init /\ [][Next]_vars
=============================================================================
