------------------------------ MODULE Singletons ------------------------------
(***************************************************************************)
(* MessageFactory::Instance() when more than one thread of a q process     *)
(* calls the library (peach).  The other singletons are created the same   *)
(* way; this one has state, so that it matters which is used.              *)
(*                                                                         *)
(* No lock is taken.  A thread may be stopped between any two accesses of  *)
(* the static pointer, and as they are not ordered, a thread may see the   *)
(* pointer before it sees what it points to.                               *)
(***************************************************************************)
CONSTANTS
    Threads,        \* threads of q
    Addresses,      \* memory for factories
    nullptr,        \* the null pointer
    Types           \* message types that are imported

ASSUME AddressAssumption == nullptr \notin Addresses

VARIABLES
    instance,       \* MessageFactory::instance
    built,          \* factories whose construction is visible to all threads
    types,          \* what was imported into each factory
    pc,             \* where each thread is
    mine,           \* the factory it is creating, or has been given
    known,          \* (history) types some call has imported
    missed,         \* (history) a call did not find such a type
    raced           \* (history) the first call was not over when another began
vars == <<instance, built, types, pc, mine, known, missed, raced>>
factory == <<built, types, known, missed>>

At(t, here, there) == pc[t] = here /\ pc' = [pc EXCEPT ![t] = there]

(* There is a factory that all threads see. *)
Created == instance # nullptr /\ instance \in built

(* A call of the library. *)
Enter(t) ==
    /\ At(t, "q", "test")
    /\ raced' = (raced \/ (~Created /\ \E u \in Threads : pc[u] # "q"))
    /\ UNCHANGED <<instance, mine, factory>>

(* Mutant: a factory is created without the test. *)
TestNothing(t) == At(t, "test", "new") /\ UNCHANGED <<instance, mine, factory, raced>>

(* if (instance == nullptr) *)
Test(t) ==
    /\ At(t, "test", IF instance = nullptr THEN "new" ELSE "return")
    /\ UNCHANGED <<instance, mine, factory, raced>>

(* new MessageFactory(): memory no other factory has. *)
New(t) ==
    /\ At(t, "new", "publish")
    /\ \E a \in Addresses \ (built \cup {mine[u] : u \in Threads} \cup {instance}) :
          mine' = [mine EXCEPT ![t] = a]
    /\ UNCHANGED <<instance, factory, raced>>

(* The constructor has run, and others see it; before or after instance. *)
Construct(t) ==
    /\ pc[t] \in {"publish", "construct"} /\ mine[t] \notin built
    /\ built' = built \cup {mine[t]}
    /\ pc' = [pc EXCEPT ![t] = IF @ = "construct" THEN "return" ELSE @]
    /\ UNCHANGED <<instance, mine, types, known, missed, raced>>

(* instance = *)
Publish(t) ==
    /\ At(t, "publish", IF mine[t] \in built THEN "return" ELSE "construct")
    /\ instance' = mine[t]
    /\ UNCHANGED <<mine, factory, raced>>

(* Mutant: a thread keeps the factory it was given first, or created. *)
ReturnKept(t) ==
    /\ At(t, "return", "use")
    /\ mine' = [mine EXCEPT ![t] = IF @ = nullptr THEN instance ELSE @]
    /\ UNCHANGED <<instance, factory, raced>>

(* return instance, which is read again. *)
Return(t) ==
    /\ At(t, "return", "use")
    /\ mine' = [mine EXCEPT ![t] = instance]
    /\ UNCHANGED <<instance, factory, raced>>

(* The call: a type is imported, *)
ImportProtoFile(t, ty) ==
    /\ At(t, "use", "q")
    /\ types' = [types EXCEPT ![mine[t]] = @ \cup {ty}]
    /\ known' = known \cup {ty}
    /\ UNCHANGED <<instance, mine, built, missed, raced>>

(* or looked up. *)
CreateMessage(t, ty) ==
    /\ At(t, "use", "q")
    /\ missed' = (missed \/ (ty \in known /\ ty \notin types[mine[t]]))
    /\ UNCHANGED <<instance, mine, built, types, known, raced>>

Init ==
    /\ instance = nullptr /\ built = {}
    /\ types = [a \in Addresses |-> {}]
    /\ pc = [t \in Threads |-> "q"]
    /\ mine = [t \in Threads |-> nullptr]
    /\ known = {} /\ missed = FALSE /\ raced = FALSE

(* A call that has begun goes on. *)
Step(t) ==
    \/ Test(t) \/ New(t) \/ Construct(t) \/ Publish(t) \/ Return(t)
    \/ \E ty \in Types : ImportProtoFile(t, ty) \/ CreateMessage(t, ty)

Next == \E t \in Threads : Enter(t) \/ Step(t)

Spec == Init /\ [][Next]_vars

(* A thread that runs keeps running: nothing in a call waits. *)
FairSpec == Spec /\ \A t \in Threads : WF_vars(Step(t))
=============================================================================
