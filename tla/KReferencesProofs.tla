-------------------------- MODULE KReferencesProofs --------------------------
(***************************************************************************)
(* Proofs of the properties of KReferences, for any number of objects and  *)
(* calls of any depth and length.                                          *)
(***************************************************************************)
EXTENDS KReferencesProps, TLAPS

LEMMA InitInv == ASSUME Init PROVE Inv
<1>1. 0 \in 0..MaxDepth /\ 0 \in 0..MaxItems /\ 0..1 \subseteq Nat
  BY SizeAssumption
<1>2. NoFrame \in Frames
  BY <1>1 DEF NoFrame, Frame, Frames, Kinds
<1>3. TypeOK
  BY <1>1, <1>2 DEF Init, TypeOK
<1> QED
  BY <1>3 DEF Init, Inv, OwnedOnce, NothingLeft, ArgumentKept, TypeOK

----------------------------------------------------------------------------
(* What the changes of the stack do to ownership. *)

LEMMA TopExists ==
    ASSUME Inv, phase \in {"set", "get"}
    PROVE  depth \in 1..MaxDepth /\ Top \in Frames /\ depth \in Nat
  BY SizeAssumption DEF Inv, TypeOK, Top

(* The top frame becomes f: what it owned and f does not is given up. *)
LEMMA BecomesOwn ==
    ASSUME Inv, phase \in {"set", "get"}, NEW f \in Frames, Becomes(f)
    PROVE  /\ depth' = depth
           /\ frames' \in [1..MaxDepth -> Frames]
           /\ \A i \in 1..MaxDepth : frames'[i] = IF i = depth THEN f ELSE frames[i]
           /\ \A o \in Objects : Owned(o)' <=> (Owned(o) /\ o \notin Top.own) \/ o \in f.own
<1>1. depth \in 1..MaxDepth
  BY TopExists
<1>2. frames \in [1..MaxDepth -> Frames]
  BY DEF Inv, TypeOK
<1>3. frames' \in [1..MaxDepth -> Frames] /\ depth' = depth
  BY <1>2 DEF Becomes
<1>4. \A i \in 1..MaxDepth : frames'[i] = IF i = depth THEN f ELSE frames[i]
  BY <1>1, <1>2 DEF Becomes
<1>5. \A j \in 1..MaxDepth : j # depth => frames[j].own \cap frames[depth].own = {}
  BY <1>1 DEF Inv, OwnedOnce
<1>6. \A o \in Objects : Owned(o)' <=> (Owned(o) /\ o \notin Top.own) \/ o \in f.own
  BY <1>1, <1>4, <1>5 DEF Owned, Top
<1> QED
  BY <1>3, <1>4, <1>6

(* A function is called: it adds what it owns. *)
LEMMA EnterOwn ==
    ASSUME Inv, phase \in {"set", "get"}, NEW top \in Frames, NEW f \in Frames,
           Enter(top, f), top.own = Top.own
    PROVE  /\ depth' = depth + 1 /\ depth' \in 1..MaxDepth
           /\ frames' \in [1..MaxDepth -> Frames]
           /\ \A i \in 1..MaxDepth : frames'[i] =
                IF i = depth THEN top ELSE IF i = depth + 1 THEN f ELSE frames[i]
           /\ \A i \in 1..MaxDepth : frames'[i].own =
                IF i = depth + 1 THEN f.own ELSE frames[i].own
           /\ \A o \in Objects : Owned(o)' <=> Owned(o) \/ o \in f.own
<1>1. depth \in 1..MaxDepth /\ depth + 1 \in 1..MaxDepth /\ depth' = depth + 1
  BY TopExists, SizeAssumption DEF Enter
<1>2. frames \in [1..MaxDepth -> Frames] /\ frames[depth + 1] = NoFrame
  BY <1>1 DEF Inv, TypeOK
<1>3. frames' \in [1..MaxDepth -> Frames]
  BY <1>2 DEF Enter
<1>4. \A i \in 1..MaxDepth : frames'[i] =
         IF i = depth THEN top ELSE IF i = depth + 1 THEN f ELSE frames[i]
  BY <1>1, <1>2 DEF Enter
<1>5. \A i \in 1..MaxDepth : frames'[i].own =
         IF i = depth + 1 THEN f.own ELSE frames[i].own
  BY <1>1, <1>4 DEF Top
<1>6. frames[depth + 1].own = {}
  BY <1>2 DEF NoFrame, Frame
<1>7. \A o \in Objects : Owned(o)' <=> Owned(o) \/ o \in f.own
  BY <1>1, <1>5, <1>6 DEF Owned
<1> QED
  BY <1>1, <1>3, <1>4, <1>5, <1>7

(* A function returns: what it owned is given up. *)
LEMMA LeaveOwn ==
    ASSUME Inv, phase \in {"set", "get"}, Leave
    PROVE  /\ depth' = depth - 1 /\ depth' \in 0..MaxDepth
           /\ frames' \in [1..MaxDepth -> Frames]
           /\ \A i \in 1..MaxDepth : frames'[i] = IF i = depth THEN NoFrame ELSE frames[i]
           /\ \A i \in 1..MaxDepth : i > depth' => frames'[i] = NoFrame
           /\ \A o \in Objects : Owned(o)' <=> Owned(o) /\ o \notin Top.own
<1>1. depth \in 1..MaxDepth
  BY TopExists
<1>2. /\ frames \in [1..MaxDepth -> Frames]
      /\ \A i \in 1..MaxDepth : i > depth => frames[i] = NoFrame
  BY DEF Inv, TypeOK
<1>3. NoFrame \in Frames /\ NoFrame.own = {}
  BY SizeAssumption DEF NoFrame, Frame, Frames, Kinds
<1>4. frames' \in [1..MaxDepth -> Frames]
  BY <1>2, <1>3 DEF Leave
<1>5. \A i \in 1..MaxDepth : frames'[i] = IF i = depth THEN NoFrame ELSE frames[i]
  BY <1>1, <1>2 DEF Leave
<1>6. depth' = depth - 1 /\ depth' \in 0..MaxDepth
  BY <1>1, SizeAssumption DEF Leave
<1>7. \A i \in 1..MaxDepth : i > depth' => frames'[i] = NoFrame
  BY <1>1, <1>2, <1>5, <1>6
<1>8. \A j \in 1..MaxDepth : j # depth => frames[j].own \cap frames[depth].own = {}
  BY <1>1 DEF Inv, OwnedOnce
<1>9. \A o \in Objects : Owned(o)' <=> Owned(o) /\ o \notin Top.own
  BY <1>1, <1>3, <1>5, <1>8 DEF Owned, Top
<1> QED
  BY <1>4, <1>5, <1>6, <1>7, <1>9

----------------------------------------------------------------------------
(* The invariant through each of these changes. *)

LEMMA FreshFree ==
    ASSUME Inv, phase \in {"set", "get"}, NEW o \in Fresh
    PROVE  o \in Objects /\ refs[o] = 0 /\ held[o] = 0 /\ ~Owned(o)
  BY DEF Inv, OwnedOnce, TypeOK, Fresh, Added

(* During a call the counters follow from ownership. *)
LEMMA RunningInv ==
    ASSUME TypeOK', phase' \in {"set", "get"}, OwnedOnce', result' = None, depth' > 0,
           phase' = "set" => \A i \in 1..depth' : Reading(i)',
           phase' = "get" => \A i \in 1..depth' : Building(i)'
    PROVE  Inv'
<1>1. ArgumentKept'
  BY DEF ArgumentKept, OwnedOnce, TypeOK, Added
<1> QED
  BY <1>1 DEF Inv, NothingLeft

Shape(f) ==
    /\ phase = "set" =>
          \/ f.fn \in {"message", "items", "rows"} /\ f.own = {}
          \/ f.fn \in {"row", "read"} /\ \E o \in Objects : f.own = {o}
    /\ phase = "get" =>
          /\ f.on = None /\ f.fn \in {"message", "items", "map"}
          /\ f.fn = "message" => \E o \in Objects : f.own = {o}

LEMMA EnterInv ==
    ASSUME Inv, phase \in {"set", "get"}, Same,
           NEW top \in Frames, NEW f \in Frames, Enter(top, f),
           top.own = Top.own, top.on = Top.on, Shape(top), Shape(f),
           phase = "get" => top.fn = Top.fn, f.own \subseteq Fresh,
           phase = "set" => f.on \in Objects /\ (held[f.on] > 0 \/ Owned(f.on)),
           refs' \in [Objects -> Nat],
           \A o \in Objects : refs'[o] = IF o \in f.own THEN 1 ELSE refs[o]
    PROVE  Inv'
<1>1. /\ depth' = depth + 1 /\ depth' \in 1..MaxDepth /\ depth \in 1..MaxDepth
      /\ frames' \in [1..MaxDepth -> Frames]
      /\ \A i \in 1..MaxDepth : frames'[i] =
            IF i = depth THEN top ELSE IF i = depth + 1 THEN f ELSE frames[i]
      /\ \A i \in 1..MaxDepth : frames'[i].own =
            IF i = depth + 1 THEN f.own ELSE frames[i].own
      /\ \A o \in Objects : Owned(o)' <=> Owned(o) \/ o \in f.own
  BY EnterOwn, TopExists
<1>2. TypeOK
  BY DEF Inv
<1>3. TypeOK'
  <2>1. \A i \in 1..MaxDepth : i > depth' => frames'[i] = NoFrame
    <3>1. \A i \in 1..MaxDepth : i > depth => frames[i] = NoFrame
      BY <1>2 DEF TypeOK
    <3> QED
      BY <1>1, <3>1, SizeAssumption
  <2> QED
    BY <1>1, <1>2, <2>1, SizeAssumption DEF TypeOK, Same
<1>4. \A o \in f.own : o \in Objects /\ refs[o] = 0 /\ held[o] = 0 /\ ~Owned(o)
  BY FreshFree
<1>5. OwnedOnce'
  <2>1. \A o \in Objects : refs'[o] = held'[o] + Added(o)'
    BY <1>1, <1>2, <1>4 DEF Inv, OwnedOnce, Same, Added, TypeOK
  <2>2. \A o \in Objects : Owned(o)' => held'[o] = 0
    BY <1>1, <1>4 DEF Inv, OwnedOnce, Same
  <2>3. \A i \in 1..MaxDepth : frames[i].own \subseteq Objects
    BY <1>2 DEF TypeOK, Frames
  <2>4. \A i, j \in 1..MaxDepth : i # j => frames'[i].own \cap frames'[j].own = {}
    BY <1>1, <1>4, <2>3 DEF Inv, OwnedOnce, Owned
  <2> QED
    BY <2>1, <2>2, <2>4 DEF OwnedOnce
<1>6. ASSUME phase' = "set", NEW i \in 1..depth' PROVE Reading(i)'
  <2>1. phase = "set" /\ i \in 1..MaxDepth /\ held' = held
    BY <1>1, <1>6, SizeAssumption DEF Same, TypeOK
  <2>2. CASE i = depth + 1
    <3>1. frames'[i] = f
      BY <1>1, <2>1, <2>2
    <3>2. ASSUME Owned(f.on)
          PROVE  \E j \in 1..MaxDepth : j < i /\ f.on \in frames'[j].own
      <4>1. PICK j \in 1..MaxDepth : f.on \in frames[j].own
        BY <3>2 DEF Owned
      <4>2. frames[j] # NoFrame
        BY <4>1 DEF NoFrame, Frame
      <4>3. j <= depth
        BY <1>1, <1>2, <4>2, SizeAssumption DEF TypeOK
      <4> QED
        BY <1>1, <2>2, <4>1, <4>3
    <3> QED
      BY <2>1, <3>1, <3>2 DEF Reading, Readable, Shape
  <2>3. CASE i # depth + 1
    <3>1. i \in 1..depth /\ Reading(i)
      BY <1>1, <2>1, <2>3 DEF Inv
    <3>2. frames'[i].on = frames[i].on
      BY <1>1, <2>1, <2>3 DEF Top
    <3>3. Readable(i)'
      BY <1>1, <2>1, <3>1, <3>2 DEF Reading, Readable
    <3> QED
      BY <1>1, <2>1, <2>3, <3>1, <3>2, <3>3 DEF Reading, Shape
  <2> QED
    BY <2>2, <2>3
<1>7. ASSUME phase' = "get", NEW i \in 1..depth' PROVE Building(i)'
  <2>1. phase = "get" /\ i \in 1..MaxDepth
    BY <1>1, <1>7, SizeAssumption DEF Same, TypeOK
  <2>2. i \in 1..depth => Building(i)
    BY <2>1 DEF Inv
  <2> QED
    BY <1>1, <2>1, <2>2 DEF Building, Shape, Top
<1> QED
  BY <1>1, <1>3, <1>5, <1>6, <1>7, RunningInv DEF Same, Inv

LEMMA BecomesInv ==
    ASSUME Inv, phase \in {"set", "get"}, Same,
           NEW f \in Frames, Becomes(f), f.on = Top.on, Shape(f),
           phase = "get" => f.fn = Top.fn,
           f.own \subseteq Top.own \cup Fresh,
           refs' \in [Objects -> Nat],
           \A o \in Objects : refs'[o] =
              IF o \in f.own THEN 1 + held[o]
              ELSE IF o \in Top.own THEN 0 ELSE refs[o]
    PROVE  Inv'
<1>1. /\ depth' = depth /\ depth \in 1..MaxDepth
      /\ frames' \in [1..MaxDepth -> Frames]
      /\ \A i \in 1..MaxDepth : frames'[i] = IF i = depth THEN f ELSE frames[i]
      /\ \A o \in Objects : Owned(o)' <=> (Owned(o) /\ o \notin Top.own) \/ o \in f.own
  BY BecomesOwn, TopExists
<1>2. TypeOK /\ OwnedOnce
  BY DEF Inv
<1>3. TypeOK'
  <2>1. \A i \in 1..MaxDepth : i > depth' => frames'[i] = NoFrame
    <3>1. \A i \in 1..MaxDepth : i > depth => frames[i] = NoFrame
      BY <1>2 DEF TypeOK
    <3> QED
      BY <1>1, <3>1, SizeAssumption
  <2> QED
    BY <1>1, <1>2, <2>1 DEF TypeOK, Same
<1>4. \A o \in Fresh : o \in Objects /\ refs[o] = 0 /\ held[o] = 0 /\ ~Owned(o)
  BY FreshFree
<1>5. \A o \in Top.own : o \in Objects /\ Owned(o) /\ held[o] = 0
  BY <1>1, <1>2 DEF OwnedOnce, Owned, Top, TypeOK, Frames
<1>6. OwnedOnce'
  <2>1. \A o \in Objects : refs'[o] = held'[o] + Added(o)'
    <3>1. SUFFICES ASSUME NEW o \in Objects PROVE refs'[o] = held[o] + Added(o)'
      BY DEF Same
    <3>2. refs[o] \in Nat /\ held[o] \in Nat /\ refs[o] = held[o] + Added(o)
      BY <1>2 DEF TypeOK, OwnedOnce
    <3>3. CASE o \in f.own
      BY <1>1, <3>2, <3>3 DEF Added
    <3>4. CASE o \notin f.own /\ o \in Top.own
      BY <1>1, <1>5, <3>2, <3>4 DEF Added
    <3>5. CASE o \notin f.own /\ o \notin Top.own
      BY <1>1, <3>2, <3>5 DEF Added
    <3> QED
      BY <3>3, <3>4, <3>5
  <2>2. \A o \in Objects : Owned(o)' => held'[o] = 0
    BY <1>1, <1>2, <1>4, <1>5 DEF OwnedOnce, Same
  <2>3. \A j \in 1..MaxDepth : j # depth => frames[j].own \cap f.own = {}
    <3>1. \A j \in 1..MaxDepth : j # depth => frames[j].own \cap Top.own = {}
      BY <1>1, <1>2 DEF OwnedOnce, Top
    <3>2. \A j \in 1..MaxDepth : frames[j].own \cap Fresh = {}
      BY <1>4 DEF Owned
    <3> QED
      BY <3>1, <3>2
  <2>4. \A i, j \in 1..MaxDepth : i # j => frames'[i].own \cap frames'[j].own = {}
    BY <1>1, <1>2, <2>3 DEF OwnedOnce
  <2> QED
    BY <2>1, <2>2, <2>4 DEF OwnedOnce
<1>7. ASSUME phase' = "set", NEW i \in 1..depth' PROVE Reading(i)'
  <2>1. phase = "set" /\ i \in 1..MaxDepth /\ i \in 1..depth /\ held' = held
    BY <1>1, <1>7, SizeAssumption DEF Same, TypeOK
  <2>2. Reading(i) /\ frames'[i].on = frames[i].on
    BY <1>1, <2>1 DEF Inv, Top
  <2>3. \A j \in 1..MaxDepth : j < i => frames'[j] = frames[j]
    BY <1>1, <2>1
  <2>4. Readable(i)'
    BY <2>1, <2>2, <2>3 DEF Reading, Readable
  <2> QED
    BY <1>1, <2>1, <2>2, <2>4 DEF Reading, Shape
<1>8. ASSUME phase' = "get", NEW i \in 1..depth' PROVE Building(i)'
  <2>1. phase = "get" /\ i \in 1..MaxDepth /\ i \in 1..depth
    BY <1>1, <1>8, SizeAssumption DEF Same, TypeOK
  <2> QED
    BY <1>1, <2>1 DEF Inv, Building, Shape, Top
<1> QED
  BY <1>1, <1>3, <1>6, <1>7, <1>8, RunningInv DEF Same, Inv

LEMMA LeaveInv ==
    ASSUME Inv, phase \in {"set", "get"}, Leave, Same, depth # 1,
           refs' \in [Objects -> Nat],
           \A o \in Objects : refs'[o] = IF o \in Top.own THEN 0 ELSE refs[o]
    PROVE  Inv'
<1>1. /\ depth' = depth - 1 /\ depth' \in 0..MaxDepth /\ depth \in 1..MaxDepth
      /\ frames' \in [1..MaxDepth -> Frames]
      /\ \A i \in 1..MaxDepth : frames'[i] = IF i = depth THEN NoFrame ELSE frames[i]
      /\ \A i \in 1..MaxDepth : i > depth' => frames'[i] = NoFrame
      /\ \A o \in Objects : Owned(o)' <=> Owned(o) /\ o \notin Top.own
  BY LeaveOwn, TopExists
<1>2. TypeOK /\ OwnedOnce
  BY DEF Inv
<1>3. TypeOK'
  BY <1>1, <1>2 DEF TypeOK, Same
<1>4. \A o \in Top.own : o \in Objects /\ Owned(o) /\ held[o] = 0
  BY <1>1, <1>2 DEF OwnedOnce, Owned, Top, TypeOK, Frames
<1>5. OwnedOnce'
  <2>1. \A o \in Objects : refs'[o] = held'[o] + Added(o)'
    <3>1. SUFFICES ASSUME NEW o \in Objects PROVE refs'[o] = held[o] + Added(o)'
      BY DEF Same
    <3>2. refs[o] \in Nat /\ held[o] \in Nat /\ refs[o] = held[o] + Added(o)
      BY <1>2 DEF TypeOK, OwnedOnce
    <3>3. CASE o \in Top.own
      BY <1>1, <1>4, <3>2, <3>3 DEF Added
    <3>4. CASE o \notin Top.own
      BY <1>1, <3>2, <3>4 DEF Added
    <3> QED
      BY <3>3, <3>4
  <2>2. \A i, j \in 1..MaxDepth : i # j => frames'[i].own \cap frames'[j].own = {}
    BY <1>1, <1>2 DEF OwnedOnce, NoFrame, Frame
  <2> QED
    BY <1>1, <1>2, <2>1, <2>2 DEF OwnedOnce, Same
<1>6. ASSUME phase' = "set", NEW i \in 1..depth' PROVE Reading(i)'
  <2>1. phase = "set" /\ i \in 1..MaxDepth /\ i \in 1..depth /\ i < depth /\ held' = held
    BY <1>1, <1>6, SizeAssumption DEF Same, TypeOK
  <2>2. Reading(i) /\ frames'[i] = frames[i]
    BY <1>1, <2>1 DEF Inv
  <2>3. \A j \in 1..MaxDepth : j < i => frames'[j] = frames[j]
    BY <1>1, <2>1
  <2> QED
    BY <2>1, <2>2, <2>3 DEF Reading, Readable
<1>7. ASSUME phase' = "get", NEW i \in 1..depth' PROVE Building(i)'
  <2>1. phase = "get" /\ i \in 1..MaxDepth /\ i \in 1..depth /\ i < depth
    BY <1>1, <1>7, SizeAssumption DEF Same, TypeOK
  <2> QED
    BY <1>1, <2>1 DEF Inv, Building
<1> QED
  BY <1>1, <1>3, <1>5, <1>6, <1>7, RunningInv DEF Same, Inv

----------------------------------------------------------------------------
(* Each action keeps the invariant. *)

LEMMA FrameTypes ==
    ASSUME NEW fn \in Kinds, NEW on \in Objects \cup {None}, NEW own \in SUBSET Objects,
           NEW n \in 0..MaxItems
    PROVE  /\ Frame(fn, on, own, n) \in Frames
           /\ Frame(fn, on, own, n).fn = fn /\ Frame(fn, on, own, n).on = on
           /\ Frame(fn, on, own, n).own = own
  BY DEF Frame, Frames

LEMMA TopLess ==
    ASSUME Inv, phase \in {"set", "get"}, Top.left > 0
    PROVE  /\ Less \in Frames /\ Less.fn = Top.fn /\ Less.on = Top.on /\ Less.own = Top.own
           /\ Shape(Top)
           /\ phase = "set" => Top.on \in Objects /\ (held[Top.on] > 0 \/ Owned(Top.on))
<1>1. depth \in 1..MaxDepth /\ Top \in Frames /\ depth \in 1..depth
  BY TopExists
<1>2. Less \in Frames /\ Less.fn = Top.fn /\ Less.on = Top.on /\ Less.own = Top.own
  BY <1>1, SizeAssumption DEF Less, Frames
<1>3. phase = "set" => Reading(depth)
  BY <1>1 DEF Inv
<1>4. phase = "get" => Building(depth)
  BY <1>1 DEF Inv
<1>5. Shape(Top)
  BY <1>3, <1>4 DEF Shape, Reading, Building, Top
<1>6. phase = "set" => Top.on \in Objects /\ (held[Top.on] > 0 \/ Owned(Top.on))
  BY <1>3 DEF Reading, Readable, Owned, Top
<1> QED
  BY <1>2, <1>5, <1>6

LEMMA RefsType ==
    ASSUME Inv
    PROVE  /\ refs \in [Objects -> Nat] /\ held \in [Objects -> Nat]
           /\ \A o \in Fresh : o \in Objects /\ refs[o] = 0
  BY DEF Inv, TypeOK, Fresh

(* While a call runs, what the top function owns has one reference. *)
LEMMA TopOwns ==
    ASSUME Inv, phase \in {"set", "get"}
    PROVE  \A o \in Top.own : o \in Objects /\ refs[o] = 1 /\ held[o] = 0
<1>1. depth \in 1..MaxDepth /\ Top \in Frames
  BY TopExists
<1>2. \A o \in Top.own : o \in Objects /\ Owned(o)
  BY <1>1 DEF Owned, Top, Frames
<1>3. OwnedOnce
  BY DEF Inv
<1>4. \A o \in Objects : Owned(o) => held[o] = 0 /\ refs[o] = 1
  BY <1>3 DEF OwnedOnce, Added
<1> QED
  BY <1>2, <1>4

LEMMA SetScalarInv == ASSUME Inv, Scalar PROVE Inv'
<1>1. phase \in {"set", "get"} /\ Top.left > 0 /\ Becomes(Less) /\ Same /\ refs' = refs
  BY DEF Scalar, Doing
<1>2. Shape(Less)
  BY <1>1, TopLess DEF Shape
<1>3. \A o \in Objects : refs'[o] =
         IF o \in Less.own THEN 1 + held[o] ELSE IF o \in Top.own THEN 0 ELSE refs[o]
  BY <1>1, TopLess, TopOwns, RefsType
<1> QED
  BY <1>1, <1>2, <1>3, TopLess, RefsType, BecomesInv

(* Functions that only read: they own nothing. *)
LEMMA SetEnterInv ==
    ASSUME Inv, NEW n \in 0..MaxItems, NEW fn \in {"message", "items", "rows"},
           NEW on \in Objects, held[on] > 0 \/ Owned(on),
           phase = "set", Top.left > 0, NEW top \in Frames, Shape(top),
           top.own = Top.own, top.on = Top.on,
           Enter(top, Frame(fn, on, {}, n)), Same, refs' = refs
    PROVE  Inv'
<1> DEFINE f == Frame(fn, on, {}, n)
<1>1. f \in Frames /\ f.fn = fn /\ f.on = on /\ f.own = {}
  BY FrameTypes DEF Kinds
<1>2. Shape(f)
  BY <1>1 DEF Shape
<1> HIDE DEF f
<1>3. Enter(top, f)
  BY DEF f
<1> QED
  BY <1>1, <1>2, <1>3, RefsType, EnterInv

LEMMA SetMessageInv == ASSUME Inv, NEW n \in 0..MaxItems, SetMessage(n) PROVE Inv'
<1>1. /\ phase = "set" /\ Top.left > 0 /\ Same /\ refs' = refs
      /\ Enter(Less, Frame("message", Top.on, {}, n))
  BY DEF SetMessage, Doing
<1>2. Shape(Less)
  BY <1>1, TopLess DEF Shape
<1> QED
  BY <1>1, <1>2, TopLess, SetEnterInv

LEMMA SetItemsInv == ASSUME Inv, NEW n \in 0..MaxItems, SetItems(n) PROVE Inv'
<1>1. /\ phase = "set" /\ Top.left > 0 /\ Same /\ refs' = refs
      /\ Enter(Less, Frame("items", Top.on, {}, n))
  BY DEF SetItems, Doing
<1>2. Shape(Less)
  BY <1>1, TopLess DEF Shape
<1> QED
  BY <1>1, <1>2, TopLess, SetEnterInv

LEMMA SetTableInv ==
    ASSUME Inv, NEW t \in Objects, NEW n \in 0..MaxItems, SetTable(t, n) PROVE Inv'
<1>1. /\ phase = "set" /\ Top.left > 0 /\ Same /\ refs' = refs /\ held[t] > 0
      /\ Enter(Less, Frame("rows", t, {}, n))
  BY DEF SetTable, Doing
<1>2. Shape(Less)
  BY <1>1, TopLess DEF Shape
<1> QED
  BY <1>1, <1>2, TopLess, SetEnterInv

LEMMA SliceInv == ASSUME Inv, NEW d \in Objects, Slice(d) PROVE Inv'
<1> DEFINE f == [Top EXCEPT !.fn = "row", !.own = {d}]
<1>1. /\ phase = "set" /\ Top.left > 0 /\ Top.fn = "rows" /\ Same /\ d \in Fresh
      /\ refs' = K(R1(refs, Top.on), Top.on, d) /\ Becomes(f)
  BY DEF Slice, Doing
<1>2. f \in Frames /\ f.fn = "row" /\ f.own = {d} /\ f.on = Top.on
  BY <1>1, TopExists DEF Frames, Kinds
<1>3. Top.own = {} /\ Top.on \in Objects
  BY <1>1, TopLess DEF Shape
<1>4. Shape(f)
  BY <1>1, <1>2 DEF Shape
<1>5. refs[d] = 0 /\ held[d] = 0
  BY <1>1, FreshFree
<1>6. refs' \in [Objects -> Nat] /\ \A o \in Objects : refs'[o] = IF o = d THEN 1 ELSE refs[o]
  BY <1>1, <1>3, <1>5, RefsType DEF K, R1, R0
<1> HIDE DEF f
<1>7. \A o \in Objects : refs'[o] =
         IF o \in f.own THEN 1 + held[o] ELSE IF o \in Top.own THEN 0 ELSE refs[o]
  BY <1>2, <1>3, <1>5, <1>6
<1> QED
  BY <1>1, <1>2, <1>4, <1>6, <1>7, BecomesInv

LEMMA SetRowInv == ASSUME Inv, NEW n \in 0..MaxItems, SetRow(n) PROVE Inv'
<1> DEFINE top == [Top EXCEPT !.fn = "read"]
<1>1. /\ phase = "set" /\ Top.left > 0 /\ Top.fn = "row" /\ Same /\ refs' = refs
  BY DEF SetRow, Doing
<1>2. PICK dict \in Top.own : Enter(top, Frame("message", dict, {}, n))
  BY DEF SetRow
<1>3. top \in Frames /\ top.fn = "read" /\ top.own = Top.own /\ top.on = Top.on
  BY <1>1, TopExists DEF Frames, Kinds
<1>4. Shape(top)
  BY <1>1, <1>3, TopLess DEF Shape
<1>5. dict \in Objects /\ Owned(dict)
  BY <1>1, TopExists DEF Owned, Top, Frames
<1> HIDE DEF top
<1> QED
  BY <1>1, <1>2, <1>3, <1>4, <1>5, SetEnterInv

LEMMA FreeSliceInv == ASSUME Inv, FreeSlice PROVE Inv'
<1> DEFINE f == [Less EXCEPT !.fn = "rows", !.own = {}]
<1>1. /\ phase = "set" /\ Top.left > 0 /\ Same /\ refs' = Taken(refs, Top.own) /\ Becomes(f)
  BY DEF FreeSlice, Doing
<1>2. f \in Frames /\ f.fn = "rows" /\ f.own = {} /\ f.on = Top.on
  BY <1>1, TopLess DEF Frames, Kinds
<1>3. Shape(f)
  BY <1>1, <1>2 DEF Shape
<1>4. refs' \in [Objects -> Nat]
      /\ \A o \in Objects : refs'[o] = IF o \in Top.own THEN 0 ELSE refs[o]
  BY <1>1, TopOwns, RefsType DEF Taken
<1> HIDE DEF f
<1> QED
  BY <1>1, <1>2, <1>3, <1>4, BecomesInv

(* Functions that begin a new object: one, or two for a map. *)
LEMMA GetEnterInv ==
    ASSUME Inv, NEW n \in 0..MaxItems, NEW fn \in {"message", "items", "map"},
           NEW own \in SUBSET Fresh, fn = "message" => \E o \in Objects : own = {o},
           phase = "get", Top.left > 0, Enter(Less, Frame(fn, None, own, n)), Same,
           refs' \in [Objects -> Nat],
           \A o \in Objects : refs'[o] = IF o \in own THEN 1 ELSE refs[o]
    PROVE  Inv'
<1> DEFINE f == Frame(fn, None, own, n)
<1>1. own \in SUBSET Objects
  BY DEF Fresh
<1>2. f \in Frames /\ f.fn = fn /\ f.on = None /\ f.own = own
  BY <1>1, FrameTypes DEF Kinds
<1>3. Shape(f)
  BY <1>2 DEF Shape
<1>4. Shape(Less)
  BY TopLess DEF Shape
<1> HIDE DEF f
<1>5. Enter(Less, f)
  BY DEF f
<1> QED
  BY <1>2, <1>3, <1>4, <1>5, TopLess, EnterInv

LEMMA GetMessageInv ==
    ASSUME Inv, NEW o \in Objects, NEW n \in 0..MaxItems, GetMessage(o, n) PROVE Inv'
<1>1. /\ phase = "get" /\ Top.left > 0 /\ o \in Fresh /\ Same /\ refs' = R1(refs, o)
      /\ Enter(Less, Frame("message", None, {o}, n))
  BY DEF GetMessage, Doing
<1>2. refs' \in [Objects -> Nat] /\ \A x \in Objects : refs'[x] = IF x \in {o} THEN 1 ELSE refs[x]
  BY <1>1, RefsType DEF R1
<1> QED
  BY <1>1, <1>2, GetEnterInv

LEMMA GetItemsInv ==
    ASSUME Inv, NEW o \in Objects, NEW n \in 0..MaxItems, GetItems(o, n) PROVE Inv'
<1>1. /\ phase = "get" /\ Top.left > 0 /\ o \in Fresh /\ Same /\ refs' = R1(refs, o)
      /\ Enter(Less, Frame("items", None, {o}, n))
  BY DEF GetItems, Doing
<1>2. refs' \in [Objects -> Nat] /\ \A x \in Objects : refs'[x] = IF x \in {o} THEN 1 ELSE refs[x]
  BY <1>1, RefsType DEF R1
<1> QED
  BY <1>1, <1>2, GetEnterInv

LEMMA GetMapInv ==
    ASSUME Inv, NEW k \in Objects, NEW v \in Objects, NEW n \in 0..MaxItems, GetMap(k, v, n)
    PROVE  Inv'
<1>1. /\ phase = "get" /\ Top.left > 0 /\ {k, v} \subseteq Fresh /\ k # v /\ Same
      /\ refs' = R1(R1(refs, k), v) /\ Enter(Less, Frame("map", None, {k, v}, n))
  BY DEF GetMap, Doing
<1>2. refs' \in [Objects -> Nat] /\ \A x \in Objects : refs'[x] = IF x \in {k, v} THEN 1 ELSE refs[x]
  BY <1>1, RefsType DEF R1
<1> QED
  BY <1>1, <1>2, GetEnterInv

(* What is left of a list that becomes part of another object. *)
LEMMA TakenRefs ==
    ASSUME Inv, phase \in {"set", "get"}, refs' = Taken(refs, Top.own)
    PROVE  /\ refs' \in [Objects -> Nat]
           /\ \A o \in Objects : refs'[o] = IF o \in Top.own THEN 0 ELSE refs[o]
  BY TopOwns, RefsType DEF Taken

LEMMA BuiltInv == ASSUME Inv, NEW t \in Objects, Built(t) PROVE Inv'
<1>1. /\ phase = "get" /\ Top.fn \in {"items", "map"} /\ Leave /\ Same
      /\ \/ refs' = Taken(refs, Top.own)
         \/ \E list \in Top.own :
              /\ t \in Fresh
              /\ refs' = Taken(K(refs, list, t), (Top.own \ {list}) \cup {t})
  BY DEF Built, Done
<1>2. depth # 1
  <2>1. depth \in 1..MaxDepth
    BY <1>1, TopExists
  <2> QED
    BY <1>1, <2>1 DEF Inv, Building, Top
<1>3. /\ refs' \in [Objects -> Nat]
      /\ \A o \in Objects : refs'[o] = IF o \in Top.own THEN 0 ELSE refs[o]
  <2>1. CASE refs' = Taken(refs, Top.own)
    BY <1>1, <2>1, TakenRefs
  <2>2. ASSUME NEW list \in Top.own, t \in Fresh,
               refs' = Taken(K(refs, list, t), (Top.own \ {list}) \cup {t})
        PROVE  /\ refs' \in [Objects -> Nat]
               /\ \A o \in Objects : refs'[o] = IF o \in Top.own THEN 0 ELSE refs[o]
    <3>1. /\ \A o \in Top.own : o \in Objects /\ refs[o] = 1
          /\ t \in Objects /\ refs[t] = 0 /\ t \notin Top.own
      BY <1>1, <2>2, TopOwns, RefsType
    <3>2. \A o \in Objects : K(refs, list, t)[o] =
             IF o = list THEN 0 ELSE IF o = t THEN 1 ELSE refs[o]
      BY <3>1, RefsType DEF K, R1, R0
    <3>3. \A o \in Objects : refs'[o] = IF o \in Top.own THEN 0 ELSE refs[o]
      BY <2>2, <3>1, <3>2 DEF Taken
    <3> QED
      BY <2>2, <3>1, <3>3, RefsType DEF Taken
  <2> QED
    BY <1>1, <2>1, <2>2
<1> QED
  BY <1>1, <1>2, <1>3, LeaveInv

LEMMA MessageBuiltInv == ASSUME Inv, MessageBuilt PROVE Inv'
<1>1. phase = "get" /\ Top.fn = "message" /\ Leave
  BY DEF MessageBuilt, Done
<1>2. CASE depth # 1
  <2>1. refs' = Taken(refs, Top.own) /\ Same
    BY <1>2 DEF MessageBuilt
  <2> QED
    BY <1>1, <1>2, <2>1, TakenRefs, LeaveInv
<1>3. CASE depth = 1
  <2>1. /\ phase' = "returned" /\ result' \in Top.own
        /\ refs' = refs /\ names' = names /\ held' = held
    BY <1>3 DEF MessageBuilt
  <2>2. /\ depth' = 0 /\ frames' \in [1..MaxDepth -> Frames] /\ 1 \in 1..MaxDepth
        /\ \A i \in 1..MaxDepth : i > depth' => frames'[i] = NoFrame
    BY <1>1, <1>3, LeaveOwn, TopExists
  <2>3. TypeOK /\ OwnedOnce /\ ArgumentKept /\ Building(1)
    BY <1>1, <1>3, <2>2 DEF Inv
  <2>4. Top.own = {result'} /\ result' \in Objects
    BY <1>1, <1>3, <2>1, <2>3 DEF Building, Top
  <2>5. \A o \in Objects : Owned(o) <=> o = result'
    <3>1. \A i \in 1..MaxDepth : i # 1 => frames[i].own = {}
      BY <1>3, <2>3, SizeAssumption DEF TypeOK, NoFrame, Frame
    <3> QED
      BY <1>3, <2>2, <2>4, <3>1 DEF Owned, Top
  <2>6. NothingLeft'
    BY <1>1, <2>1, <2>3, <2>5 DEF NothingLeft, OwnedOnce, Added
  <2>7. TypeOK'
    BY <2>1, <2>2, <2>3, <2>4, SizeAssumption DEF TypeOK
  <2>8. ArgumentKept'
    BY <2>1, <2>3 DEF ArgumentKept
  <2> QED
    BY <2>1, <2>2, <2>6, <2>7, <2>8 DEF Inv, OwnedOnce
<1> QED
  BY <1>2, <1>3

LEMMA SetReturnsInv == ASSUME Inv, SetReturns PROVE Inv'
<1>1. /\ phase = "set" /\ Top.fn \in {"message", "items", "rows"} /\ Leave /\ refs' = refs
      /\ names' = names /\ result' = result /\ held' = held
  BY DEF SetReturns, Done
<1>2. depth \in 1..MaxDepth /\ Reading(depth)
  BY <1>1, TopExists DEF Inv
<1>3. Top.own = {}
  BY <1>1, <1>2 DEF Reading, Top
<1>4. CASE depth # 1
  <2>1. phase' = phase
    BY <1>1, <1>4 DEF SetReturns
  <2> QED
    BY <1>1, <1>3, <1>4, <2>1, RefsType, LeaveInv DEF Same
<1>5. CASE depth = 1
  <2>1. phase' = "returned" /\ result = None
    BY <1>1, <1>5 DEF SetReturns, Inv
  <2>2. /\ depth' = 0 /\ frames' \in [1..MaxDepth -> Frames] /\ 1 \in 1..MaxDepth
        /\ \A i \in 1..MaxDepth : i > depth' => frames'[i] = NoFrame
    BY <1>1, <1>5, LeaveOwn, TopExists
  <2>3. TypeOK /\ OwnedOnce /\ ArgumentKept
    BY DEF Inv
  <2>4. \A o \in Objects : ~Owned(o)
    <3>1. \A i \in 1..MaxDepth : i # 1 => frames[i].own = {}
      BY <1>5, <2>3, SizeAssumption DEF TypeOK, NoFrame, Frame
    <3> QED
      BY <1>3, <1>5, <3>1 DEF Owned, Top
  <2>5. NothingLeft'
    BY <1>1, <2>1, <2>3, <2>4, SizeAssumption DEF NothingLeft, OwnedOnce, Added, TypeOK
  <2>6. TypeOK'
    BY <1>1, <2>1, <2>2, <2>3, SizeAssumption DEF TypeOK
  <2>7. ArgumentKept'
    BY <1>1, <2>3 DEF ArgumentKept
  <2> QED
    BY <2>1, <2>2, <2>5, <2>6, <2>7 DEF Inv, OwnedOnce
<1> QED
  BY <1>4, <1>5

(* A call that ends where it is, whatever it owns. *)
LEMMA AbandonInv ==
    ASSUME Inv, phase \in {"set", "get"}, phase' \in {"rejected", "failed", "ended"},
           depth' = 0, frames' = [i \in 1..MaxDepth |-> NoFrame],
           UNCHANGED <<refs, names, result, held>>
    PROVE  Inv'
<1>1. NoFrame \in Frames
  BY SizeAssumption DEF NoFrame, Frame, Frames, Kinds
<1>2. TypeOK /\ ArgumentKept /\ result = None
  BY DEF Inv
<1>3. TypeOK'
  BY <1>1, <1>2, SizeAssumption DEF TypeOK
<1>4. ArgumentKept'
  BY <1>2 DEF ArgumentKept
<1> QED
  BY <1>2, <1>3, <1>4 DEF Inv, OwnedOnce, NothingLeft

LEMMA ThrowInv == ASSUME Inv, Throw PROVE Inv'
  BY AbandonInv DEF Throw, Doing

LEMMA ExhaustedInv == ASSUME Inv, Exhausted PROVE Inv'
  BY AbandonInv DEF Exhausted

(* The first frame of a call. *)
LEMMA CallInv ==
    ASSUME Inv, NEW p \in {"set", "get"}, NEW nm \in BOOLEAN, NEW n \in 0..MaxItems,
           NEW on \in Objects \cup {None}, NEW own \in SUBSET Fresh,
           Call(p, nm, Frame("message", on, own, n)),
           p = "set" => refs[on] > 0 /\ on \in Objects /\ own = {},
           p = "get" => on = None /\ \E o \in Objects : own = {o},
           refs' \in [Objects -> Nat],
           \A o \in Objects : refs'[o] = IF o \in own THEN 1 ELSE refs[o]
    PROVE  Inv'
<1> DEFINE f == Frame("message", on, own, n)
<1>1. /\ phase = "idle" /\ phase' = p /\ names' = nm /\ held' = refs
      /\ depth' = 1 /\ frames' = [frames EXCEPT ![1] = f] /\ result' = result
  BY DEF Call
<1>2. TypeOK /\ refs = held /\ result = None /\ depth = 0 /\ 1 \in 1..MaxDepth
  BY <1>1, SizeAssumption DEF Inv
<1>3. own \in SUBSET Objects /\ \A o \in own : refs[o] = 0
  BY DEF Fresh
<1>4. f \in Frames /\ f.fn = "message" /\ f.on = on /\ f.own = own
  BY <1>3, FrameTypes DEF Kinds
<1> HIDE DEF f
<1>5. /\ frames' \in [1..MaxDepth -> Frames]
      /\ \A i \in 1..MaxDepth : frames'[i] = IF i = 1 THEN f ELSE NoFrame
  BY <1>1, <1>2, <1>4, SizeAssumption DEF TypeOK
<1>6. TypeOK'
  BY <1>1, <1>2, <1>5, SizeAssumption DEF TypeOK
<1>7. \A i \in 1..MaxDepth : frames'[i].own = IF i = 1 THEN own ELSE {}
  <2>1. NoFrame.own = {}
    BY DEF NoFrame, Frame
  <2> QED
    BY <1>4, <1>5, <2>1
<1>8. \A o \in Objects : Owned(o)' <=> o \in own
  BY <1>2, <1>7 DEF Owned
<1>9. OwnedOnce'
  <2>1. \A o \in Objects : refs'[o] = held'[o] + Added(o)'
    BY <1>1, <1>2, <1>3, <1>8 DEF Added, TypeOK
  <2> QED
    BY <1>1, <1>3, <1>7, <1>8, <2>1 DEF OwnedOnce
<1>10. \A i \in 1..depth' : i = 1
  BY <1>1
<1>11. ASSUME p = "set" PROVE Reading(1)'
  BY <1>1, <1>2, <1>4, <1>5, <1>11 DEF Reading, Readable
<1>12. ASSUME p = "get" PROVE Building(1)'
  BY <1>1, <1>2, <1>4, <1>5, <1>12 DEF Building
<1> QED
  BY <1>1, <1>2, <1>6, <1>9, <1>10, <1>11, <1>12, RunningInv

LEMMA SerializeArrayInv ==
    ASSUME Inv, NEW k \in Objects, NEW nm \in BOOLEAN, NEW n \in 0..MaxItems,
           SerializeArray(k, nm, n)
    PROVE  Inv'
<1>1. refs[k] > 0 /\ Call("set", nm, Frame("message", k, {}, n)) /\ refs' = refs
  BY DEF SerializeArray
<1> QED
  BY <1>1, RefsType, CallInv

LEMMA ParseArrayInv ==
    ASSUME Inv, NEW o \in Objects, NEW nm \in BOOLEAN, NEW n \in 0..MaxItems,
           ParseArray(o, nm, n)
    PROVE  Inv'
<1>1. /\ o \in Fresh /\ refs' = R1(refs, o)
      /\ Call("get", nm, Frame("message", None, {o}, n))
  BY DEF ParseArray
<1>2. refs' \in [Objects -> Nat] /\ \A x \in Objects : refs'[x] = IF x \in {o} THEN 1 ELSE refs[x]
  BY <1>1, RefsType DEF R1
<1> QED
  BY <1>1, <1>2, CallInv

LEMMA NextInv == ASSUME Inv, [Next]_vars PROVE Inv'
<1>1. CASE UNCHANGED vars
  BY <1>1 DEF vars, Inv, TypeOK, OwnedOnce, NothingLeft, ArgumentKept, Reading, Readable,
              Building, Owned, Added
<1>2. ASSUME NEW o \in Objects, NEW n \in 0..MaxItems,
             \/ \E nm \in BOOLEAN : SerializeArray(o, nm, n) \/ ParseArray(o, nm, n)
             \/ SetTable(o, n) \/ GetMessage(o, n) \/ GetItems(o, n)
             \/ \E v \in Objects : GetMap(o, v, n)
      PROVE  Inv'
  BY <1>2, SerializeArrayInv, ParseArrayInv, SetTableInv, GetMessageInv, GetItemsInv, GetMapInv
<1>3. ASSUME NEW n \in 0..MaxItems, SetMessage(n) \/ SetItems(n) \/ SetRow(n) PROVE Inv'
  BY <1>3, SetMessageInv, SetItemsInv, SetRowInv
<1>4. ASSUME NEW o \in Objects, Slice(o) \/ Built(o) PROVE Inv'
  BY <1>4, SliceInv, BuiltInv
<1>5. CASE Scalar
  BY <1>5, SetScalarInv
<1>6. CASE FreeSlice
  BY <1>6, FreeSliceInv
<1>7. CASE SetReturns
  BY <1>7, SetReturnsInv
<1>8. CASE MessageBuilt
  BY <1>8, MessageBuiltInv
<1>9. CASE Throw \/ Exhausted
  BY <1>9, ThrowInv, ExhaustedInv
<1>10. CASE Return
  BY <1>1, <1>10 DEF Return
<1> QED
  BY <1>1, <1>2, <1>3, <1>4, <1>5, <1>6, <1>7, <1>8, <1>9, <1>10 DEF Next

(* Every reference a conversion adds is accounted for, whatever is converted. *)
THEOREM EveryReferenceCounted == Spec => []Inv
<1> QED
  BY InitInv, NextInv, PTL DEF Spec

(* What a function reads is q's, or a slice that is still owned. *)
LEMMA InvReadsLive == ASSUME Inv PROVE ReadsLive
<1>1. SUFFICES ASSUME NEW i \in 1..MaxDepth, frames[i].on # None
               PROVE  refs[frames[i].on] > 0
  BY DEF ReadsLive
<1>2. TypeOK /\ OwnedOnce /\ ArgumentKept
  BY DEF Inv
<1>3. frames[i] # NoFrame
  BY <1>1 DEF NoFrame, Frame
<1>4. i <= depth /\ i \in 1..depth
  BY <1>2, <1>3, SizeAssumption DEF TypeOK
<1>5. phase = "set" /\ Reading(i)
  BY <1>1, <1>4 DEF Inv, Building
<1>6. frames[i].on \in Objects /\ (held[frames[i].on] > 0 \/ Owned(frames[i].on))
  BY <1>5 DEF Reading, Readable, Owned
<1>7. \A o \in Objects : refs[o] \in Nat /\ held[o] \in Nat /\ refs[o] = held[o] + Added(o)
  BY <1>2, <1>5 DEF TypeOK, OwnedOnce
<1> QED
  BY <1>6, <1>7 DEF Added

(* Nothing is read after it was freed. *)
THEOREM NoUseAfterFree == Spec => []ReadsLive
<1> QED
  BY EveryReferenceCounted, InvReadsLive, PTL

(* Every reference added is in a local variable of exactly one function. *)
THEOREM AddedIsOwned == Spec => []OwnedOnce
<1>1. ASSUME Inv PROVE OwnedOnce
  BY <1>1 DEF Inv
<1> QED
  BY EveryReferenceCounted, <1>1, PTL

(* q's own references survive every call, also one that fails. *)
THEOREM CallerKeepsItsObjects == Spec => []ArgumentKept
<1>1. ASSUME Inv PROVE ArgumentKept
  BY <1>1 DEF Inv
<1> QED
  BY EveryReferenceCounted, <1>1, PTL

(* A call that succeeds leaves nothing but its result. *)
THEOREM SuccessLeavesNothing == Spec => []NothingLeft
<1>1. ASSUME Inv PROVE NothingLeft
  BY <1>1 DEF Inv
<1> QED
  BY EveryReferenceCounted, <1>1, PTL
=============================================================================
