--------------------------- MODULE SingletonsProps ---------------------------
(***************************************************************************)
(* What the callers of MessageFactory::Instance() rely on.  It holds if    *)
(* the first call was over when the next began: if it was the only one     *)
(* until the factory it created was there for all threads.  If it was not, *)
(* several factories are created and what was imported into one is not     *)
(* found in another; but that comes to an end.                             *)
(***************************************************************************)
EXTENDS Singletons

(* Then a thread that is given a factory is given the one, constructed
   (MessageFactory::Instance). *)
OneFactory ==
    ~raced => \A t \in Threads : pc[t] = "use" => mine[t] \in built /\ mine[t] = instance

(* Then no type that a call has imported is unknown to a later call, in
   whichever thread (ImportProtoFile and CreateMessage use the same factory). *)
NothingForgotten == ~raced => ~missed

(* However many threads race for the first call, and in whatever order the
   pointers of the factories they create, and the factories, come to be seen:
   from some time on all of them use the same one, constructed, and keep
   doing so.  No thread that finds a pointer creates another factory, and one
   that is there is not replaced by a later call (MessageFactory::Instance). *)
Settled ==
    /\ Created
    /\ \A t \in Threads : /\ pc[t] \notin {"new", "publish", "construct"}
                           /\ pc[t] = "use" => mine[t] = instance
RaceIsOver == instance # nullptr ~> []Settled

TypeOK ==
    /\ instance \in Addresses \cup {nullptr}
    /\ built \in SUBSET Addresses /\ types \in [Addresses -> SUBSET Types]
    /\ pc \in [Threads -> {"q", "test", "new", "publish", "construct", "return", "use"}]
    /\ mine \in [Threads -> Addresses \cup {nullptr}]
    /\ known \in SUBSET Types /\ missed \in BOOLEAN /\ raced \in BOOLEAN
    /\ \A t \in Threads : pc[t] \in {"publish", "construct"} => mine[t] \in Addresses

(* Before there is a factory for all, one thread is in the library: first it
   creates the factory, then others come to see it. *)
Alone == \A t, u \in Threads : pc[t] # "q" /\ pc[u] # "q" => t = u
Creating ==
    instance = nullptr =>
        \A t \in Threads : pc[t] \in {"q", "test", "new", "publish"}
Appearing ==
    instance # nullptr /\ instance \notin built =>
        /\ \A t \in Threads : pc[t] \in {"q", "construct"}
        /\ \E t \in Threads : pc[t] = "construct" /\ mine[t] = instance
InUse ==
    Created =>
        /\ \A t \in Threads : pc[t] \in {"q", "test", "return", "use"}
        /\ known \subseteq types[instance]

(* The inductive invariant of MessageFactory::Instance. *)
Inv ==
    /\ TypeOK /\ OneFactory /\ NothingForgotten
    /\ ~raced => /\ ~Created => Alone /\ known = {}
                 /\ Creating /\ Appearing /\ InUse
=============================================================================
