--------------------------- MODULE SingletonsProofs ---------------------------
(* Proofs of the properties of Singletons, for any number of threads. *)
EXTENDS SingletonsProps, TLAPS

(* What Inv says of a first call that was over in time. *)
Safe ==
    /\ \A t \in Threads : pc[t] = "use" => mine[t] \in built /\ mine[t] = instance
    /\ ~missed
    /\ ~Created => Alone /\ known = {}
    /\ Creating /\ Appearing /\ InUse

LEMMA InvIsSafe == Inv <=> TypeOK /\ (~raced => Safe)
  BY DEF Inv, Safe, OneFactory, NothingForgotten

LEMMA InvIsSafeNext == Inv' <=> TypeOK' /\ (~raced' => Safe')
  BY DEF Inv, Safe, OneFactory, NothingForgotten

LEMMA InitInv == ASSUME Init PROVE Inv
  BY AddressAssumption DEF Init, Inv, TypeOK, OneFactory, NothingForgotten, Created,
     Alone, Creating, Appearing, InUse

LEMMA EnterInv == ASSUME Inv, NEW t \in Threads, Enter(t) PROVE Inv'
<1>1. TypeOK'
  BY DEF Inv, TypeOK, Enter, At, factory
<1>2. ASSUME ~raced' PROVE Safe'
  <2>1. Safe /\ (Created \/ \A u \in Threads : pc[u] = "q")
    BY <1>2, InvIsSafe DEF Enter, Inv, TypeOK
  <2>2. TypeOK
    BY DEF Inv
  <2>3. pc[t] = "q" /\ pc' = [pc EXCEPT ![t] = "test"]
        /\ UNCHANGED <<instance, mine, built, types, known, missed>>
    BY DEF Enter, At, factory
  <2>4. Created' <=> Created
    BY <2>3 DEF Created
  <2>6. CASE Created
    BY <2>1, <2>2, <2>3, <2>4, <2>6 DEF Safe, TypeOK, Created, Creating, Appearing, InUse
  <2>7. CASE ~Created
    <3>1. \A u \in Threads : pc[u] = "q"
      BY <2>1, <2>7
    <3>2. instance = nullptr
      BY <2>1, <2>7, <3>1 DEF Safe, Created, Appearing
    <3> QED
      BY <2>1, <2>2, <2>3, <2>4, <2>7, <3>1, <3>2
         DEF Safe, TypeOK, Created, Alone, Creating, Appearing, InUse
  <2> QED
    BY <2>6, <2>7
<1> QED
  BY <1>1, <1>2, InvIsSafeNext

LEMMA TestInv == ASSUME Inv, NEW t \in Threads, Test(t) PROVE Inv'
<1>1. TypeOK'
  BY DEF Inv, TypeOK, Test, At, factory
<1>2. ASSUME ~raced' PROVE Safe'
  <2>1. Safe /\ TypeOK
    BY <1>2, InvIsSafe DEF Test
  <2> QED
    BY <2>1, AddressAssumption DEF Safe, TypeOK, Test, At, factory, Created,
       Alone, Creating, Appearing, InUse
<1> QED
  BY <1>1, <1>2, InvIsSafeNext

LEMMA NewInv == ASSUME Inv, NEW t \in Threads, New(t) PROVE Inv'
<1>1. TypeOK'
  BY DEF Inv, TypeOK, New, At, factory
<1>2. ASSUME ~raced' PROVE Safe'
  <2>1. Safe /\ TypeOK
    BY <1>2, InvIsSafe DEF New
  <2> QED
    BY <2>1, AddressAssumption DEF Safe, TypeOK, New, At, factory, Created,
       Alone, Creating, Appearing, InUse
<1> QED
  BY <1>1, <1>2, InvIsSafeNext

LEMMA ConstructInv == ASSUME Inv, NEW t \in Threads, Construct(t) PROVE Inv'
<1>1. TypeOK'
  BY DEF Inv, TypeOK, Construct
<1>2. ASSUME ~raced' PROVE Safe'
  <2>1. Safe /\ TypeOK
    BY <1>2, InvIsSafe DEF Construct
  <2>2. ~Created
    BY <2>1 DEF Safe, InUse, Construct
  <2>3. \A u \in Threads : u # t => pc[u] = "q"
    BY <2>1, <2>2 DEF Safe, Alone, Construct
  <2>4. mine[t] \in Addresses /\ mine[t] # nullptr
    BY <2>1, AddressAssumption DEF TypeOK, Construct
  <2>5. CASE pc[t] = "publish"
    BY <2>1, <2>2, <2>3, <2>4, <2>5 DEF Safe, TypeOK, Construct, Created,
       Alone, Creating, Appearing, InUse
  <2>6. CASE pc[t] = "construct"
    BY <2>1, <2>2, <2>3, <2>4, <2>6 DEF Safe, TypeOK, Construct, Created,
       Alone, Creating, Appearing, InUse
  <2> QED
    BY <2>5, <2>6 DEF Construct
<1> QED
  BY <1>1, <1>2, InvIsSafeNext

LEMMA PublishInv == ASSUME Inv, NEW t \in Threads, Publish(t) PROVE Inv'
<1>1. TypeOK'
  BY DEF Inv, TypeOK, Publish, At, factory
<1>2. ASSUME ~raced' PROVE Safe'
  <2>1. Safe /\ TypeOK
    BY <1>2, InvIsSafe DEF Publish
  <2>2. ~Created
    BY <2>1 DEF Safe, InUse, Publish, At
  <2>3. \A u \in Threads : u # t => pc[u] = "q"
    BY <2>1, <2>2 DEF Safe, Alone, Publish, At
  <2>4. mine[t] \in Addresses /\ mine[t] # nullptr
    BY <2>1, AddressAssumption DEF TypeOK, Publish, At
  <2>5. CASE mine[t] \in built
    BY <2>1, <2>2, <2>3, <2>4, <2>5 DEF Safe, TypeOK, Publish, At, factory, Created,
       Alone, Creating, Appearing, InUse
  <2>6. CASE mine[t] \notin built
    BY <2>1, <2>2, <2>3, <2>4, <2>6 DEF Safe, TypeOK, Publish, At, factory, Created,
       Alone, Creating, Appearing, InUse
  <2> QED
    BY <2>5, <2>6
<1> QED
  BY <1>1, <1>2, InvIsSafeNext

(* A thread that returns from Instance() finds a factory for all. *)
LEMMA ReturnInv == ASSUME Inv, NEW t \in Threads, Return(t) PROVE Inv'
<1>1. TypeOK'
  BY DEF Inv, TypeOK, Return, At, factory
<1>2. ASSUME ~raced' PROVE Safe'
  <2>1. Safe /\ TypeOK
    BY <1>2, InvIsSafe DEF Return
  <2>2. Created
    BY <2>1 DEF Safe, Created, Creating, Appearing, Return, At
  <2> QED
    BY <2>1, <2>2 DEF Safe, TypeOK, Return, At, factory, Created,
       Alone, Creating, Appearing, InUse
<1> QED
  BY <1>1, <1>2, InvIsSafeNext

LEMMA ImportInv ==
    ASSUME Inv, NEW t \in Threads, NEW ty \in Types, ImportProtoFile(t, ty)
    PROVE  Inv'
<1>1. TypeOK'
  BY DEF Inv, TypeOK, ImportProtoFile, At
<1>2. ASSUME ~raced' PROVE Safe'
  <2>1. Safe /\ TypeOK
    BY <1>2, InvIsSafe DEF ImportProtoFile
  <2>2. Created /\ mine[t] = instance /\ instance \in Addresses
    BY <2>1 DEF Safe, TypeOK, Created, Creating, Appearing, ImportProtoFile, At
  <2> QED
    BY <2>1, <2>2 DEF Safe, TypeOK, ImportProtoFile, At, Created,
       Alone, Creating, Appearing, InUse
<1> QED
  BY <1>1, <1>2, InvIsSafeNext

LEMMA CreateInv ==
    ASSUME Inv, NEW t \in Threads, NEW ty \in Types, CreateMessage(t, ty)
    PROVE  Inv'
<1>1. TypeOK'
  BY DEF Inv, TypeOK, CreateMessage, At
<1>2. ASSUME ~raced' PROVE Safe'
  <2>1. Safe /\ TypeOK
    BY <1>2, InvIsSafe DEF CreateMessage
  <2>2. Created /\ mine[t] = instance
    BY <2>1 DEF Safe, TypeOK, Created, Creating, Appearing, CreateMessage, At
  <2>3. ~missed'
    <3>1. ~(ty \in known /\ ty \notin types[mine[t]])
      BY <2>1, <2>2 DEF Safe, InUse
    <3>2. missed' = (missed \/ (ty \in known /\ ty \notin types[mine[t]]))
      BY DEF CreateMessage
    <3>3. ~missed
      BY <2>1 DEF Safe
    <3> QED
      BY <3>1, <3>2, <3>3, Zenon
  <2> QED
    BY <2>1, <2>2, <2>3 DEF Safe, TypeOK, CreateMessage, At, Created,
       Alone, Creating, Appearing, InUse
<1> QED
  BY <1>1, <1>2, InvIsSafeNext

LEMMA NextInv == ASSUME Inv, [Next]_vars PROVE Inv'
<1>1. CASE UNCHANGED vars
  BY <1>1 DEF vars, Inv, TypeOK, OneFactory, NothingForgotten, Created,
     Alone, Creating, Appearing, InUse
<1>2. CASE Next
  BY <1>2, EnterInv, TestInv, NewInv, ConstructInv, PublishInv, ReturnInv, ImportInv,
     CreateInv DEF Next, Step
<1> QED
  BY <1>1, <1>2

(* Instance() is safe for any number of threads, if the first call is over
   when the next begins. *)
THEOREM FirstCallFirst == Spec => []Inv
<1> QED
  BY InitInv, NextInv, PTL DEF Spec

(* Then every thread uses the one factory, which is constructed. *)
THEOREM OneFactoryForAll == Spec => []OneFactory
<1>1. ASSUME Inv PROVE OneFactory
  BY <1>1 DEF Inv
<1> QED
  BY FirstCallFirst, <1>1, PTL

(* Then what one thread imports, no thread misses. *)
THEOREM ImportsAreShared == Spec => []NothingForgotten
<1>1. ASSUME Inv PROVE NothingForgotten
  BY <1>1 DEF Inv
<1> QED
  BY FirstCallFirst, <1>1, PTL
=============================================================================
