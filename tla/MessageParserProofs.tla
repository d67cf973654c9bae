------------------------- MODULE MessageParserProofs -------------------------
(***************************************************************************)
(* Proofs that the guarantees of MessageParserProps hold for any number of *)
(* processes and files, any messages and any conversions.                  *)
(***************************************************************************)
EXTENDS MessageParserProps, SequenceTheorems, TLAPS

(* What an accepted object serializes to is a sequence of bytes. *)
LEMMA OutputType ==
    \A x \in Accepted : Output(x) \in Seq(Chunk) /\ Output(x) \in Seq(Byte)
<1>1. SUFFICES ASSUME NEW x \in Accepted
               PROVE  Output(x) \in Seq(Chunk) /\ Output(x) \in Seq(Byte)
  OBVIOUS
<1> DEFINE D == {Output(x)[i] : i \in DOMAIN Output(x)}
<1>2. Output(x) \in Seq(D)
  BY ConversionAssumption
<1>3. D \subseteq Chunk
  BY DEF Chunk
<1>4. Output(x) \in Seq(Chunk)
  BY <1>2, <1>3, SeqMonotonic
<1>5. Chunk \subseteq Byte
  BY DEF Byte
<1>6. QED
  BY <1>4, <1>5, SeqMonotonic

(* A write leaves the bytes before and after its offset where they are. *)
LEMMA WriteAtProperties ==
    ASSUME NEW b \in Seq(Byte), NEW n \in Nat, NEW c \in Byte
    PROVE  /\ WriteAt(b, n, c) \in Seq(Byte)
           /\ Len(WriteAt(b, n, c)) = IF n < Len(b) THEN Len(b) ELSE n + 1
           /\ \A i \in 1 .. Len(WriteAt(b, n, c)) :
                 WriteAt(b, n, c)[i] =
                     IF i = n + 1 THEN c ELSE IF i <= Len(b) THEN b[i] ELSE Hole
<1> DEFINE L == IF n < Len(b) THEN Len(b) ELSE n + 1
           w == WriteAt(b, n, c)
<1>1. Len(b) \in Nat /\ L \in Nat
  BY LenProperties
<1>2. \A i \in 1 .. Len(b) : b[i] \in Byte
  BY ElementOfSeq
<1>3. Hole \in Byte
  BY DEF Byte
<1>4. w = [i \in 1 .. L |->
             IF i = n + 1 THEN c ELSE IF i <= Len(b) THEN b[i] ELSE Hole]
  BY DEF WriteAt
<1>5. w \in [1 .. L -> Byte]
  BY <1>1, <1>2, <1>3, <1>4
<1>6. w \in Seq(Byte)
  BY <1>1, <1>5, SeqDef
<1>7. Len(w) = L
  BY <1>1, <1>5, <1>6, LenProperties
<1>8. QED
  BY <1>4, <1>6, <1>7

----------------------------------------------------------------------------
(* Type correctness.                                                       *)

(* An operation that only returns a result keeps every type. *)
LEMMA ReturnedType ==
    ASSUME TypeOK, Stay, NEW p \in Procs, NEW r, r.status \in Statuses, Return(p, r)
    PROVE  TypeOK'
BY DEF TypeOK, Stay, Return

(* So does one that ends. *)
LEMMA FinishedType ==
    ASSUME TypeOK, NEW p \in Procs, NEW r, r.status \in Statuses, Finish(p, r),
           files' = files, dirty' \in [Procs -> BOOLEAN], last' \in [Files -> LastType]
    PROVE  TypeOK'
<1>1. /\ pc' = [pc EXCEPT ![p] = "idle"]
      /\ job' = [job EXCEPT ![p] = None]
      /\ buf' = [buf EXCEPT ![p] = <<>>]
      /\ pos' = [pos EXCEPT ![p] = 0]
      /\ result' = [result EXCEPT ![p] = r]
  BY DEF Finish, Goto, Return
<1>2. <<>> \in Seq(Byte) /\ Len(<<>>) = 0 /\ 0 \in 0 .. MaxLen
  BY EmptySeq, BoundAssumption
<1>3. pc' \in [Procs -> Pcs] /\ job' \in [Procs -> JobType \cup {None}]
  BY <1>1 DEF TypeOK, Pcs
<1>4. buf' \in [Procs -> Seq(Byte)] /\ pos' \in [Procs -> 0 .. MaxLen]
  BY <1>1, <1>2 DEF TypeOK
<1>5. /\ result' = [q \in Procs |-> result'[q]]
      /\ \A q \in Procs : result'[q].status \in Statuses
  BY <1>1 DEF TypeOK
<1>6. ASSUME NEW q \in Procs
      PROVE  /\ pos'[q] <= Len(buf'[q]) /\ Len(buf'[q]) <= MaxLen
             /\ pc'[q] = "idle" => job'[q] = None
             /\ pc'[q] \in {"idle", "save_opened"} => buf'[q] = <<>>
             /\ pc'[q] # "idle" => job'[q] \in JobType /\ files'[job'[q].file] # NoFile
             /\ pc'[q] = "load_reading" => pos'[q] = Len(buf'[q])
             /\ pc'[q] = "save_opened" => job'[q].obj \in KObj /\ job'[q].names \in Modes
  <2>1. CASE q = p
    BY <1>1, <1>2, <2>1, BoundAssumption DEF TypeOK
  <2>2. CASE q # p
    BY <1>1, <2>2 DEF TypeOK
  <2>3. QED
    BY <2>1, <2>2
<1>7. QED
  BY <1>3, <1>4, <1>5, <1>6 DEF TypeOK

LEMMA OutcomeType ==
    ASSUME TypeOK, NEW p \in Procs, pc[p] # "idle", NEW d \in Outcomes, Outcome(p, d)
    PROVE  last' \in [Files -> LastType]
<1> DEFINE f == job[p].file
           l == [last[f] EXCEPT !.done = d]
<1>1. f \in Files
  BY DEF TypeOK, JobType
<1>2. last[f] \in LastType
  BY <1>1 DEF TypeOK
<1>3. l \in LastType
  BY <1>2 DEF LastType
<1>4. last' = IF last[f].owner = p THEN [last EXCEPT ![f] = l] ELSE last
  BY DEF Outcome
<1> HIDE DEF f, l
<1>5. QED
  BY <1>1, <1>3, <1>4 DEF TypeOK

(* Opening a file starts an operation of p on file f. *)
LEMMA BegunType ==
    ASSUME TypeOK, NEW p \in Procs, NEW l \in {"save_opened", "load_reading"},
           NEW ty \in KnownTypes, NEW f \in Files, NEW k \in KObj \cup {None, "debug"},
           NEW nm \in BOOLEAN, Idle(p), Begin(p, l, ty, f, k, nm),
           l = "save_opened" => k \in KObj /\ nm \in Modes,
           files' \in [Files -> Seq(Byte) \cup {NoFile}], files'[f] # NoFile,
           \A g \in Files : files'[g] = IF g = f THEN files'[f] ELSE files[g],
           Len(files'[f]) <= MaxLen,
           dirty' \in [Procs -> BOOLEAN], last' \in [Files -> LastType],
           buf' = buf, pos' = pos
    PROVE  TypeOK'
<1> DEFINE j == [type |-> ty, file |-> f, obj |-> k, names |-> nm]
<1>1. /\ pc' = [pc EXCEPT ![p] = l] /\ job' = [job EXCEPT ![p] = j]
      /\ result' = [result EXCEPT ![p] = Answer("none")]
  BY DEF Begin, Goto, Return
<1>2. j \in JobType /\ j.file = f /\ j.obj = k /\ j.names = nm
  BY DEF JobType
<1> HIDE DEF j
<1>3. pc' \in [Procs -> Pcs] /\ job' \in [Procs -> JobType \cup {None}]
  BY <1>1, <1>2 DEF TypeOK, Pcs, SavePcs
<1>4. /\ result' = [q \in Procs |-> result'[q]]
      /\ \A q \in Procs : result'[q].status \in Statuses
  BY <1>1 DEF TypeOK, Answer, Statuses
<1>5. \A g \in Files : files'[g] # NoFile => Len(files'[g]) <= MaxLen
  BY DEF TypeOK
<1>6. buf[p] = <<>> /\ pos[p] = 0
  BY EmptySeq DEF TypeOK, Idle
<1>7. ASSUME NEW q \in Procs
      PROVE  /\ pos'[q] <= Len(buf'[q]) /\ Len(buf'[q]) <= MaxLen
             /\ pc'[q] = "idle" => job'[q] = None
             /\ pc'[q] \in {"idle", "save_opened"} => buf'[q] = <<>>
             /\ pc'[q] # "idle" => job'[q] \in JobType /\ files'[job'[q].file] # NoFile
             /\ pc'[q] = "load_reading" => pos'[q] = Len(buf'[q])
             /\ pc'[q] = "save_opened" => job'[q].obj \in KObj /\ job'[q].names \in Modes
  <2>1. CASE q = p
    BY <1>1, <1>2, <1>6, <2>1, EmptySeq, BoundAssumption DEF TypeOK
  <2>2. CASE q # p
    <3>1. pc'[q] = pc[q] /\ job'[q] = job[q]
      BY <1>1, <2>2 DEF TypeOK
    <3>2. pc[q] # "idle" => job[q].file \in Files /\ files'[job[q].file] # NoFile
      BY DEF TypeOK, JobType
    <3>3. QED
      BY <3>1, <3>2 DEF TypeOK
  <2>3. QED
    BY <2>1, <2>2
<1>8. QED
  BY <1>3, <1>4, <1>5, <1>7 DEF TypeOK

LEMMA SaveMessageType ==
    ASSUME TypeOK, NEW p \in Procs, NEW ty, NEW f \in Files, NEW k \in KObj,
           NEW nm \in Modes, SaveMessage(p, ty, f, k, nm)
    PROVE  TypeOK'
<1>1. CASE Stay /\ Return(p, Answer("Invalid message type"))
  BY <1>1, ReturnedType DEF Answer, Statuses, Errors
<1>2. CASE Stay /\ Return(p, Answer("Cannot open file"))
  BY <1>2, ReturnedType DEF Answer, Statuses, Errors
<1>3. CASE /\ ty \in KnownTypes /\ Begin(p, "save_opened", ty, f, k, nm)
           /\ Update(f, Truncated(files[f]))
           /\ last' = [last EXCEPT ![f] =
                [owner |-> p, done |-> "open", bytes |-> <<>>,
                 had |-> files[f] \notin {NoFile, <<>>},
                 contended |-> \E q \in Procs : Writing(q, f)]]
           /\ UNCHANGED <<buf, pos>>
  <2>1. /\ files' = [files EXCEPT ![f] = <<>>] /\ dirty' \in [Procs -> BOOLEAN]
    BY <1>3 DEF Update, Truncated, TypeOK, Reading
  <2>2. <<>> \in Seq(Byte) /\ <<>> \in Seq(Chunk) /\ Len(<<>>) = 0 /\ <<>> # NoFile
    BY EmptySeq, NameAssumption
  <2>3. last' \in [Files -> LastType]
    <3> DEFINE had == files[f] \notin {NoFile, <<>>}
               contended == \E q \in Procs : Writing(q, f)
    <3>1. had \in BOOLEAN /\ contended \in BOOLEAN
      OBVIOUS
    <3> HIDE DEF had, contended
    <3>2. [owner |-> p, done |-> "open", bytes |-> <<>>, had |-> had,
           contended |-> contended] \in LastType
      BY <2>2, <3>1 DEF LastType, Outcomes
    <3>3. QED
      BY <1>3, <3>2 DEF TypeOK, had, contended
  <2>4. /\ files' \in [Files -> Seq(Byte) \cup {NoFile}] /\ files'[f] = <<>>
        /\ \A g \in Files : files'[g] = IF g = f THEN files'[f] ELSE files[g]
    BY <2>1, <2>2 DEF TypeOK
  <2>5. /\ nm \in BOOLEAN /\ files'[f] # NoFile /\ Len(files'[f]) <= MaxLen
        /\ k \in KObj \cup {None, "debug"} /\ buf' = buf /\ pos' = pos
    BY <1>3, <2>2, <2>4, BoundAssumption
  <2>6. Idle(p)
    BY DEF SaveMessage
  <2>7. QED
    BY <1>3, <2>1, <2>3, <2>4, <2>5, <2>6, BegunType
<1>4. QED
  BY <1>1, <1>2, <1>3 DEF SaveMessage

LEMMA SaveConvertType ==
    ASSUME TypeOK, NEW p \in Procs, SaveConvert(p)
    PROVE  TypeOK'
<1> DEFINE j == job[p]
           m == KToMessage(j.type, j.obj, j.names)
           b == Serialize(j.type, m)
<1>1. /\ pc[p] = "save_opened" /\ UNCHANGED <<files, dirty>>
      /\ j \in JobType /\ files[j.file] # NoFile /\ j.obj \in KObj /\ j.names \in Modes
  BY DEF SaveConvert, TypeOK
<1>2. ASSUME NEW s \in Errors, Finish(p, Answer(s)), Outcome(p, "rejected")
      PROVE  TypeOK'
  <2>1. last' \in [Files -> LastType]
    BY <1>1, <1>2, OutcomeType DEF Outcomes
  <2>2. Answer(s).status \in Statuses
    BY DEF Answer, Statuses
  <2>3. QED
    BY <1>1, <1>2, <2>1, <2>2, FinishedType DEF TypeOK
<1>3. CASE /\ m # Failed /\ Fits(b)
           /\ Goto(p, "save_stream")
           /\ buf' = [buf EXCEPT ![p] = b]
           /\ last' = IF last[j.file].owner = p
                      THEN [last EXCEPT ![j.file].bytes = b] ELSE last
           /\ UNCHANGED <<job, pos, result>>
  <2> DEFINE x == <<j.type, j.obj, j.names>>
             l == [last[j.file] EXCEPT !.bytes = b]
  <2>1. x \in Accepted /\ b = Output(x)
    BY <1>1, <1>3 DEF Accepted, Output, JobType
  <2>2. b \in Seq(Chunk) /\ b \in Seq(Byte) /\ Len(b) <= MaxLen /\ Len(b) \in Nat
    BY <1>3, <2>1, OutputType, LenProperties DEF Fits
  <2> HIDE DEF b
  <2>3. j.file \in Files /\ last[j.file] \in LastType
    BY <1>1 DEF TypeOK, JobType
  <2>4. l \in LastType
    BY <2>2, <2>3 DEF LastType
  <2>5. last' = IF last[j.file].owner = p THEN [last EXCEPT ![j.file] = l] ELSE last
    BY <1>3
  <2> HIDE DEF l
  <2>6. last' \in [Files -> LastType]
    BY <2>3, <2>4, <2>5 DEF TypeOK
  <2>7. pc' = [pc EXCEPT ![p] = "save_stream"] /\ pc' \in [Procs -> Pcs]
    BY <1>3 DEF TypeOK, Goto, Pcs, SavePcs
  <2>8. buf' = [buf EXCEPT ![p] = b] /\ buf' \in [Procs -> Seq(Byte)]
    BY <1>3, <2>2 DEF TypeOK
  <2>9. pos[p] <= Len(b)
    BY <1>1, <2>2, EmptySeq DEF TypeOK
  <2>10. QED
    BY <1>1, <1>3, <2>2, <2>6, <2>7, <2>8, <2>9 DEF TypeOK
<1>4. QED
  BY <1>2, <1>3 DEF SaveConvert, Errors

LEMMA SaveChunkType ==
    ASSUME TypeOK, NEW p \in Procs, SaveChunk(p)
    PROVE  TypeOK'
<1> DEFINE f == job[p].file
           c == buf[p][pos[p] + 1]
           w == WriteAt(files[f], pos[p], c)
<1>1. /\ pc[p] \in {"save_stream", "save_close"} /\ pos[p] < Len(buf[p])
      /\ Update(f, w) /\ pos' = [pos EXCEPT ![p] = pos[p] + 1]
      /\ UNCHANGED <<pc, job, buf, result, last>>
  BY DEF SaveChunk, ReadAt
<1>2. /\ f \in Files /\ files[f] \in Seq(Byte) /\ files[f] # NoFile
      /\ Len(files[f]) <= MaxLen
  BY <1>1 DEF TypeOK, JobType
<1>3. /\ pos[p] \in Nat /\ buf[p] \in Seq(Byte) /\ Len(buf[p]) \in Nat
      /\ Len(buf[p]) <= MaxLen /\ MaxLen \in Nat
  BY LenProperties, BoundAssumption DEF TypeOK
<1>4. c \in Byte
  BY <1>1, <1>3, ElementOfSeq
<1> HIDE DEF c
<1>5. /\ w \in Seq(Byte)
      /\ Len(w) = IF pos[p] < Len(files[f]) THEN Len(files[f]) ELSE pos[p] + 1
  <2>1. ASSUME NEW n \in Nat, n = pos[p], NEW b \in Seq(Byte), b = files[f]
        PROVE  /\ WriteAt(b, n, c) \in Seq(Byte)
               /\ Len(WriteAt(b, n, c)) = IF n < Len(b) THEN Len(b) ELSE n + 1
    BY <1>4, WriteAtProperties
  <2>2. QED
    BY <1>2, <1>3, <2>1
<1>6. Len(w) <= MaxLen /\ w # NoFile
  BY <1>1, <1>2, <1>3, <1>5, NameAssumption
<1> HIDE DEF w
<1>7. files' = [files EXCEPT ![f] = w] /\ dirty' \in [Procs -> BOOLEAN]
  BY <1>1 DEF Update, Reading, TypeOK
<1> HIDE DEF f
<1>8. /\ files' \in [Files -> Seq(Byte) \cup {NoFile}]
      /\ \A g \in Files : files'[g] # NoFile => Len(files'[g]) <= MaxLen
      /\ \A g \in Files : files[g] # NoFile => files'[g] # NoFile
  BY <1>2, <1>5, <1>6, <1>7 DEF TypeOK
<1>9. pos' \in [Procs -> 0 .. MaxLen]
  BY <1>1, <1>3 DEF TypeOK
<1>10. ASSUME NEW q \in Procs
       PROVE  /\ pos'[q] <= Len(buf[q])
              /\ pc[q] # "idle" => files'[job[q].file] # NoFile
              /\ pc[q] = "load_reading" => pos'[q] = Len(buf[q])
  <2>1. pos'[q] = IF q = p THEN pos[p] + 1 ELSE pos[q]
    BY <1>1, <1>3 DEF TypeOK
  <2>2. pos'[q] <= Len(buf[q]) /\ (pc[q] = "load_reading" => pos'[q] = Len(buf[q]))
    BY <1>1, <1>3, <2>1 DEF TypeOK
  <2>3. pc[q] # "idle" => job[q].file \in Files /\ files[job[q].file] # NoFile
    BY DEF TypeOK, JobType
  <2>4. QED
    BY <1>8, <2>2, <2>3
<1>11. QED
  BY <1>1, <1>7, <1>8, <1>9, <1>10 DEF TypeOK

LEMMA SaveStreamedType ==
    ASSUME TypeOK, NEW p \in Procs, SaveStreamed(p)
    PROVE  TypeOK'
BY DEF TypeOK, SaveStreamed, Goto, Pcs, SavePcs

(* What the end of a load returns. *)
LEMMA ResultStatus ==
    \A ty, k, b, nm : /\ Serialized(ty, k, nm).status \in Statuses
                      /\ Converted(ty, b, nm).status \in Statuses
                      /\ Parsed(ty, b, nm).status \in Statuses
                      /\ Described(ty, b).status \in Statuses
                      /\ ParsedDebug(ty, b).status \in Statuses
BY DEF Serialized, Converted, Parsed, Described, ParsedDebug, Object, Array,
       Answer, Statuses, Errors

LEMMA LoadMessageType ==
    ASSUME TypeOK, NEW p \in Procs, NEW ty, NEW f \in Files,
           NEW k \in {None, "debug"}, NEW nm \in BOOLEAN, LoadMessage(p, ty, f, k, nm)
    PROVE  TypeOK'
<1>1. CASE Stay /\ Return(p, Answer("Invalid message type"))
  BY <1>1, ReturnedType DEF Answer, Statuses, Errors
<1>2. CASE Stay /\ Return(p, Answer("Cannot open file"))
  BY <1>2, ReturnedType DEF Answer, Statuses, Errors
<1>3. CASE /\ ty \in KnownTypes /\ files[f] # NoFile
           /\ Begin(p, "load_reading", ty, f, k, nm)
           /\ dirty' = [dirty EXCEPT ![p] = FALSE]
           /\ UNCHANGED <<files, buf, pos, last>>
  <2>1. /\ dirty' \in [Procs -> BOOLEAN] /\ last' \in [Files -> LastType]
        /\ files' \in [Files -> Seq(Byte) \cup {NoFile}] /\ files'[f] # NoFile
        /\ Len(files'[f]) <= MaxLen /\ buf' = buf /\ pos' = pos
        /\ \A g \in Files : files'[g] = IF g = f THEN files'[f] ELSE files[g]
    BY <1>3 DEF TypeOK
  <2>2. Idle(p) /\ k \in KObj \cup {None, "debug"}
    BY DEF LoadMessage
  <2>3. Begin(p, "load_reading", ty, f, k, nm) /\ ty \in KnownTypes
    BY <1>3
  <2>4. "load_reading" = "save_opened" => k \in KObj /\ nm \in Modes
    OBVIOUS
  <2>5. QED
    BY <2>1, <2>2, <2>3, <2>4, BegunType
<1>4. QED
  BY <1>1, <1>2, <1>3 DEF LoadMessage

LEMMA LoadChunkType ==
    ASSUME TypeOK, NEW p \in Procs, LoadChunk(p)
    PROVE  TypeOK'
<1> DEFINE f == job[p].file
           c == files[f][pos[p] + 1]
           b == Append(buf[p], c)
<1>1. /\ pc[p] = "load_reading" /\ pos[p] < Len(files[f])
      /\ buf' = [buf EXCEPT ![p] = b] /\ pos' = [pos EXCEPT ![p] = pos[p] + 1]
      /\ UNCHANGED <<files, pc, job, result, last, dirty>>
  BY DEF LoadChunk, ReadAt
<1>2. /\ f \in Files /\ files[f] \in Seq(Byte) /\ files[f] # NoFile
      /\ Len(files[f]) <= MaxLen
  BY <1>1 DEF TypeOK, JobType
<1>3. /\ pos[p] \in Nat /\ pos[p] = Len(buf[p]) /\ buf[p] \in Seq(Byte)
      /\ Len(files[f]) \in Nat /\ MaxLen \in Nat
  BY <1>1, <1>2, LenProperties, BoundAssumption DEF TypeOK
<1>4. c \in Byte
  BY <1>1, <1>2, <1>3, ElementOfSeq
<1> HIDE DEF c
<1>5. b \in Seq(Byte) /\ Len(b) = pos[p] + 1
  BY <1>3, <1>4
<1> HIDE DEF b
<1>6. buf' \in [Procs -> Seq(Byte)] /\ pos' \in [Procs -> 0 .. MaxLen]
  BY <1>1, <1>2, <1>3, <1>5 DEF TypeOK
<1> HIDE DEF f
<1>7. ASSUME NEW q \in Procs
      PROVE  /\ pos'[q] <= Len(buf'[q]) /\ Len(buf'[q]) <= MaxLen
             /\ pc[q] \in {"idle", "save_opened"} => buf'[q] = <<>>
             /\ pc[q] = "load_reading" => pos'[q] = Len(buf'[q])
  <2>1. CASE q = p
    BY <1>1, <1>2, <1>3, <1>5, <2>1 DEF TypeOK
  <2>2. CASE q # p
    BY <1>1, <2>2 DEF TypeOK
  <2>3. QED
    BY <2>1, <2>2
<1>8. QED
  BY <1>1, <1>6, <1>7 DEF TypeOK

LEMMA InitType == Init => TypeOK
<1> SUFFICES ASSUME Init PROVE TypeOK
  OBVIOUS
<1>1. <<>> \in Seq(Byte) /\ <<>> \in Seq(Chunk) /\ Len(<<>>) = 0
  BY EmptySeq
<1>2. last \in [Files -> LastType]
  BY <1>1 DEF Init, LastType, Outcomes
<1>3. 0 \in 0 .. MaxLen
  BY BoundAssumption
<1>4. /\ result = [p \in Procs |-> result[p]]
      /\ \A p \in Procs : result[p].status \in Statuses
  BY DEF Init, Answer, Statuses
<1>5. /\ files \in [Files -> Seq(Byte) \cup {NoFile}]
      /\ \A f \in Files : files[f] = NoFile
  BY DEF Init
<1>6. /\ pc \in [Procs -> Pcs] /\ job \in [Procs -> JobType \cup {None}]
      /\ buf \in [Procs -> Seq(Byte)] /\ pos \in [Procs -> 0 .. MaxLen]
      /\ dirty \in [Procs -> BOOLEAN]
  BY <1>1, <1>3 DEF Init, Pcs
<1>7. \A p \in Procs : pc[p] = "idle" /\ job[p] = None /\ buf[p] = <<>> /\ pos[p] = 0
  BY DEF Init
<1>8. QED
  BY <1>1, <1>2, <1>3, <1>4, <1>5, <1>6, <1>7 DEF TypeOK

(* What is between the call of an operation and its end: the disjuncts of
   the next-state relation in the terms of the lemmas. *)
LEMMA CallCases ==
    ASSUME NEW p \in Procs, Call(p)
    PROVE  \/ /\ Stay
              /\ \E r : r.status \in Statuses /\ Return(p, r)
           \/ \E ty \in MessageTypes, k \in KObj, nm \in Modes, f \in Files :
                 SaveMessage(p, ty, f, k, nm)
           \/ \E ty \in MessageTypes, k \in {None, "debug"}, nm \in BOOLEAN, f \in Files :
                 LoadMessage(p, ty, f, k, nm)
<1>1. PICK ty \in MessageTypes :
        \/ \E k \in KObj, nm \in Modes :
              \/ SerializeArray(p, ty, k, nm)
              \/ \E f \in Files : SaveMessage(p, ty, f, k, nm)
        \/ \E b \in CharArrays :
              \/ \E nm \in Modes : ParseArray(p, ty, b, nm)
              \/ ParseArrayDebug(p, ty, b)
        \/ \E f \in Files :
              \/ \E nm \in Modes : LoadMessage(p, ty, f, None, nm)
              \/ LoadMessage(p, ty, f, "debug", FALSE)
  BY DEF Call
<1>2. CASE \E k \in KObj, nm \in Modes : SerializeArray(p, ty, k, nm)
  BY <1>2, ResultStatus DEF SerializeArray
<1>3. CASE \E b \in CharArrays, nm \in Modes : ParseArray(p, ty, b, nm)
  BY <1>3, ResultStatus DEF ParseArray
<1>4. CASE \E b \in CharArrays : ParseArrayDebug(p, ty, b)
  BY <1>4, ResultStatus DEF ParseArrayDebug
<1>5. CASE \E f \in Files, nm \in Modes : LoadMessage(p, ty, f, None, nm)
  BY <1>5, BoundAssumption
<1>6. CASE \E f \in Files : LoadMessage(p, ty, f, "debug", FALSE)
  BY <1>6
<1>7. QED
  BY <1>1, <1>2, <1>3, <1>4, <1>5, <1>6

(* The ways an operation on a file ends. *)
LEMMA EndCases ==
    ASSUME NEW p \in Procs,
           SaveStreamFails(p) \/ SaveClose(p) \/ LoadParse(p) \/ LoadStreamFails(p)
             \/ Crash(p)
    PROVE  \E r : /\ r.status \in Statuses /\ Finish(p, r)
                  /\ pc[p] # "idle" /\ files' = files
                  /\ dirty' = dirty \/ dirty' = [dirty EXCEPT ![p] = TRUE]
                  /\ \/ last' = last
                     \/ /\ pc[p] \in SavePcs
                        /\ \E d \in Outcomes \ {"never", "open"} :
                              /\ Outcome(p, d)
                              /\ d = "saved" => pc[p] = "save_close" /\ pos[p] = Len(buf[p])
<1>1. CASE SaveStreamFails(p)
  <2>1. /\ Answer("Failed to serialize message").status \in Statuses
        /\ "failed" \in Outcomes \ {"never", "open"}
    BY DEF Answer, Statuses, Errors, Outcomes
  <2>2. QED
    BY <1>1, <2>1 DEF SaveStreamFails, SavePcs
<1>2. CASE SaveClose(p)
  <2>1. PICK d \in {"saved", "lost"} :
            Outcome(p, d) /\ (d = "saved" => pos[p] = Len(buf[p]))
    BY <1>2 DEF SaveClose
  <2>2. Answer("null").status \in Statuses /\ d \in Outcomes \ {"never", "open"}
    BY DEF Answer, Statuses, Outcomes
  <2>3. QED
    BY <1>2, <2>1, <2>2 DEF SaveClose, SavePcs
<1>3. CASE LoadParse(p)
  <2> DEFINE j == job[p]
             r == IF j.obj = "debug" THEN Described(j.type, buf[p])
                  ELSE Converted(j.type, buf[p], j.names)
  <2>1. r.status \in Statuses
    BY ResultStatus
  <2>2. Finish(p, r) /\ pc[p] # "idle" /\ UNCHANGED <<files, last, dirty>>
    BY <1>3 DEF LoadParse
  <2>3. QED
    BY <2>1, <2>2
<1>4. CASE Crash(p)
  <2>1. Answer("none").status \in Statuses /\ "crashed" \in Outcomes \ {"never", "open"}
    BY DEF Answer, Statuses, Outcomes
  <2>2. QED
    BY <1>4, <2>1 DEF Crash, Idle
<1>5. CASE LoadStreamFails(p)
  <2>1. Answer("Failed to parse serialized message").status \in Statuses
    BY DEF Answer, Statuses, Errors
  <2>2. QED
    BY <1>5, <2>1 DEF LoadStreamFails
<1>6. QED
  BY <1>1, <1>2, <1>3, <1>4, <1>5

LEMMA TypeStep == TypeOK /\ [Next]_vars => TypeOK'
<1> SUFFICES ASSUME TypeOK, [Next]_vars PROVE TypeOK'
  OBVIOUS
<1>1. CASE UNCHANGED vars
  BY <1>1 DEF TypeOK, vars
<1>2. ASSUME NEW p \in Procs, Call(p) PROVE TypeOK'
  BY <1>2, CallCases, ReturnedType, SaveMessageType, LoadMessageType
<1>3. ASSUME NEW p \in Procs,
             SaveStreamFails(p) \/ SaveClose(p) \/ LoadParse(p) \/ LoadStreamFails(p)
             \/ Crash(p)
      PROVE  TypeOK'
  <2>1. PICK r : /\ r.status \in Statuses /\ Finish(p, r)
                 /\ pc[p] # "idle" /\ files' = files
                 /\ dirty' = dirty \/ dirty' = [dirty EXCEPT ![p] = TRUE]
                 /\ \/ last' = last
                    \/ \E d \in Outcomes : Outcome(p, d)
    BY <1>3, EndCases
  <2>2. last' \in [Files -> LastType]
    BY <2>1, OutcomeType DEF TypeOK
  <2>3. dirty' \in [Procs -> BOOLEAN]
    BY <2>1 DEF TypeOK
  <2>4. QED
    BY <2>1, <2>2, <2>3, FinishedType
<1>4. ASSUME NEW p \in Procs, Step(p) PROVE TypeOK'
  BY <1>3, <1>4, SaveConvertType, SaveChunkType, SaveStreamedType, LoadChunkType
     DEF Step
<1>5. QED
  BY <1>1, <1>2, <1>3, <1>4 DEF Next

(* Every variable keeps its type, however many processes use however many
   files. *)
THEOREM TypeCorrect == Spec => []TypeOK
<1>1. Init => TypeOK
  BY InitType
<1>2. TypeOK /\ [Next]_vars => TypeOK'
  BY TypeStep
<1>3. QED
  BY <1>1, <1>2, PTL DEF Spec

----------------------------------------------------------------------------
(* The guarantees of saving and loading.                                   *)

LEMMA InitInv == Init => Inv
<1> SUFFICES ASSUME Init PROVE Inv
  OBVIOUS
<1>1. TypeOK
  BY InitType
<1>2. /\ \A p \in Procs : pc[p] = "idle"
      /\ \A f \in Files : files[f] = NoFile /\ last[f].done = "never"
  BY DEF Init
<1>3. \A p \in Procs : pc[p] \notin SavePcs /\ pc[p] # "load_reading"
  BY <1>2 DEF SavePcs
<1>4. BufferIsOutput /\ OpenIsNotOver /\ OnlyOwnerWrites
  BY <1>2, <1>3 DEF BufferIsOutput, OpenIsNotOver, OnlyOwnerWrites, Writing
<1>5. PiecesInPlace /\ UncontendedPrefix /\ SavedIsOnDisk /\ LoadIsSnapshot
  BY <1>2, <1>3 DEF PiecesInPlace, UncontendedPrefix, SavedIsOnDisk, LoadIsSnapshot
<1>6. QED
  BY <1>1, <1>4, <1>5 DEF Inv

(* No guarantee is about what an operation returns. *)
LEMMA ReturnedInv ==
    ASSUME Inv, TypeOK', Stay
    PROVE  Inv'
<1>1. UNCHANGED <<files, pc, job, buf, pos, last, dirty>>
  BY DEF Stay
<1>2. BufferIsOutput' /\ OpenIsNotOver' /\ OnlyOwnerWrites'
  BY <1>1 DEF Inv, BufferIsOutput, OpenIsNotOver, OnlyOwnerWrites, Writing
<1>3. PiecesInPlace' /\ UncontendedPrefix' /\ SavedIsOnDisk' /\ LoadIsSnapshot'
  BY <1>1 DEF Inv, PiecesInPlace, UncontendedPrefix, SavedIsOnDisk, LoadIsSnapshot
<1>4. QED
  BY <1>2, <1>3 DEF Inv

(* An operation that ends leaves the file as it is and, if it is still the
   last that opened the file, notes how it ended. *)
LEMMA FinishedInv ==
    ASSUME Inv, TypeOK', NEW p \in Procs, NEW r, Finish(p, r), pc[p] # "idle",
           files' = files, \A q \in Procs \ {p} : dirty'[q] = dirty[q],
           \/ last' = last
           \/ /\ pc[p] \in SavePcs
              /\ \E d \in Outcomes \ {"never", "open"} :
                    /\ Outcome(p, d)
                    /\ d = "saved" => pc[p] = "save_close" /\ pos[p] = Len(buf[p])
    PROVE  Inv'
<1> USE DEF Inv
<1>1. \A q \in Procs : /\ pc'[q] = IF q = p THEN "idle" ELSE pc[q]
                       /\ q # p => /\ job'[q] = job[q] /\ buf'[q] = buf[q]
                                   /\ pos'[q] = pos[q]
  BY DEF Finish, Goto, TypeOK
<1>2. \A q \in Procs, f \in Files : Writing(q, f)' => q # p /\ Writing(q, f)
  BY <1>1 DEF Writing, SavePcs
<1>3. /\ \A f \in Files : /\ last'[f].owner = last[f].owner
                          /\ last'[f].bytes = last[f].bytes
                          /\ last'[f].contended = last[f].contended
      /\ \A f \in Files : last'[f].done # last[f].done =>
            /\ Writing(p, f) /\ last[f].owner = p
            /\ last'[f].done = "saved" =>
                  pc[p] = "save_close" /\ pos[p] = Len(buf[p])
  <2>1. CASE last' = last
    BY <2>1
  <2>2. ASSUME NEW d \in Outcomes, pc[p] \in SavePcs, Outcome(p, d),
               d = "saved" => pc[p] = "save_close" /\ pos[p] = Len(buf[p])
        PROVE  <1>3!:
    <3> DEFINE g == job[p].file
               l == [last[g] EXCEPT !.done = d]
    <3>1. g \in Files /\ Writing(p, g)
      BY <2>2 DEF TypeOK, JobType, SavePcs, Writing
    <3>2. last' = IF last[g].owner = p THEN [last EXCEPT ![g] = l] ELSE last
      BY <2>2 DEF Outcome
    <3>3. /\ l.owner = last[g].owner /\ l.bytes = last[g].bytes
          /\ l.contended = last[g].contended /\ l.done = d
      BY <3>1 DEF TypeOK, LastType
    <3> HIDE DEF g, l
    <3>4. QED
      BY <2>2, <3>1, <3>2, <3>3 DEF TypeOK
  <2>3. QED
    BY <2>1, <2>2
<1>4. BufferIsOutput'
  BY <1>1 DEF BufferIsOutput
<1>5. OpenIsNotOver'
  BY <1>2, <1>3 DEF OpenIsNotOver
<1>6. OnlyOwnerWrites'
  BY <1>1, <1>2, <1>3 DEF OnlyOwnerWrites
<1>7. PiecesInPlace'
  BY DEF PiecesInPlace
<1>8. UncontendedPrefix'
  BY <1>3 DEF UncontendedPrefix, OpenIsNotOver
<1>9. SavedIsOnDisk'
  <2> SUFFICES ASSUME NEW f \in Files, last'[f].done = "saved", ~last'[f].contended
               PROVE  files[f] = last[f].bytes
    BY <1>3 DEF SavedIsOnDisk
  <2>1. CASE last'[f].done = last[f].done
    BY <1>3, <2>1 DEF SavedIsOnDisk
  <2>2. CASE last'[f].done # last[f].done
    <3>1. Writing(p, f) /\ last[f].owner = p /\ pos[p] = Len(buf[p]) /\ ~last[f].contended
      BY <1>3, <2>2
    <3>2. Len(files[f]) = Len(last[f].bytes)
      BY <3>1 DEF OnlyOwnerWrites
    <3>3. files[f] # NoFile /\ StartsWith(last[f].bytes, files[f])
      BY <3>1 DEF OpenIsNotOver, UncontendedPrefix
    <3>4. files[f] \in Seq(Byte) /\ last[f].bytes \in Seq(Byte)
      BY <3>3, SeqMonotonic DEF TypeOK, LastType, Byte
    <3>5. QED
      BY <3>2, <3>3, <3>4, SeqEqual DEF StartsWith
  <2>3. QED
    BY <2>1, <2>2
<1>10. LoadIsSnapshot'
  BY <1>1 DEF LoadIsSnapshot
<1>11. QED
  BY <1>4, <1>5, <1>6, <1>7, <1>8, <1>9, <1>10

(* Nothing is written or read before there is something in the buffer. *)
LEMMA NothingYet ==
    ASSUME TypeOK, NEW p \in Procs, pc[p] \in {"idle", "save_opened"}
    PROVE  buf[p] = <<>> /\ pos[p] = 0
<1>1. Len(<<>>) = 0
  BY EmptySeq
<1>2. buf[p] = <<>> /\ pos[p] \in 0 .. MaxLen /\ pos[p] <= Len(buf[p]) /\ MaxLen \in Nat
  BY BoundAssumption DEF TypeOK
<1>3. QED
  BY <1>1, <1>2

(* Opening a file for writing empties it and makes p its owner. *)
LEMMA SaveMessageInv ==
    ASSUME Inv, TypeOK', NEW p \in Procs, NEW ty, NEW f \in Files, NEW k \in KObj,
           NEW nm \in Modes, SaveMessage(p, ty, f, k, nm)
    PROVE  Inv'
<1> USE DEF Inv
<1>1. CASE Stay
  BY <1>1, ReturnedInv
<1>2. CASE /\ Begin(p, "save_opened", ty, f, k, nm)
           /\ Update(f, Truncated(files[f]))
           /\ last' = [last EXCEPT ![f] =
                [owner |-> p, done |-> "open", bytes |-> <<>>,
                 had |-> files[f] \notin {NoFile, <<>>},
                 contended |-> \E q \in Procs : Writing(q, f)]]
           /\ UNCHANGED <<buf, pos>>
  <2>1. pc[p] = "idle" /\ buf[p] = <<>> /\ pos[p] = 0
    BY NothingYet DEF SaveMessage, Idle
  <2>2. /\ pc'[p] = "save_opened" /\ job'[p].file = f
        /\ \A q \in Procs : q # p => pc'[q] = pc[q] /\ job'[q] = job[q]
    BY <1>2 DEF Begin, Goto, TypeOK
  <2>3. /\ files'[f] = <<>>
        /\ \A g \in Files : g # f => files'[g] = files[g]
        /\ \A q \in Procs : dirty'[q] = (dirty[q] \/ Reading(q, f))
    BY <1>2 DEF Update, Truncated, TypeOK
  <2>4. /\ last'[f].owner = p /\ last'[f].done = "open" /\ last'[f].bytes = <<>>
        /\ last'[f].contended = \E q \in Procs : Writing(q, f)
        /\ \A g \in Files : g # f => last'[g] = last[g]
    BY <1>2 DEF TypeOK
  <2>5. \A q \in Procs, g \in Files : Writing(q, g)' <=> Writing(q, g) \/ (q = p /\ g = f)
    BY <2>1, <2>2 DEF Writing, SavePcs
  <2>6. Len(<<>>) = 0 /\ <<>> # NoFile
    BY EmptySeq, NameAssumption
  <2>7. BufferIsOutput'
    BY <1>2, <2>2 DEF BufferIsOutput
  <2>8. OpenIsNotOver'
    BY <2>4, <2>5 DEF OpenIsNotOver
  <2>9. OnlyOwnerWrites'
    <3> SUFFICES ASSUME NEW g \in Files, NEW q \in Procs,
                        Writing(q, g)', ~last'[g].contended
                 PROVE  /\ last'[g].owner = q /\ Len(files'[g]) = pos'[q]
                        /\ last'[g].bytes = buf'[q]
      BY DEF OnlyOwnerWrites
    <3>1. CASE g = f
      BY <1>2, <2>1, <2>3, <2>4, <2>5, <2>6, <3>1
    <3>2. CASE g # f
      BY <1>2, <2>3, <2>4, <2>5, <3>2 DEF OnlyOwnerWrites
    <3>3. QED
      BY <3>1, <3>2
  <2>10. PiecesInPlace'
    BY <2>3, <2>6 DEF PiecesInPlace
  <2>11. UncontendedPrefix'
    BY <2>3, <2>4, <2>6 DEF UncontendedPrefix, StartsWith
  <2>12. SavedIsOnDisk'
    BY <2>3, <2>4 DEF SavedIsOnDisk
  <2>13. LoadIsSnapshot'
    <3> SUFFICES ASSUME NEW q \in Procs, pc'[q] = "load_reading", ~dirty'[q]
                 PROVE  StartsWith(files'[job'[q].file], buf'[q])
      BY DEF LoadIsSnapshot
    <3>1. q # p /\ pc[q] = "load_reading" /\ job'[q] = job[q] /\ buf'[q] = buf[q]
      BY <1>2, <2>2
    <3>2. ~dirty[q] /\ ~Reading(q, f)
      BY <2>3
    <3>3. job[q].file \in Files /\ job[q].file # f
      BY <3>1, <3>2 DEF Reading, TypeOK, JobType
    <3>4. QED
      BY <2>3, <3>1, <3>2, <3>3 DEF LoadIsSnapshot
  <2>14. QED
    BY <2>7, <2>8, <2>9, <2>10, <2>11, <2>12, <2>13
<1>3. QED
  BY <1>1, <1>2 DEF SaveMessage

LEMMA SaveConvertInv ==
    ASSUME Inv, TypeOK', NEW p \in Procs, SaveConvert(p)
    PROVE  Inv'
<1> USE DEF Inv
<1> DEFINE j == job[p]
           m == KToMessage(j.type, j.obj, j.names)
           b == Serialize(j.type, m)
<1>1. /\ pc[p] = "save_opened" /\ UNCHANGED <<files, dirty>>
      /\ j \in JobType /\ j.file \in Files /\ j.obj \in KObj /\ j.names \in Modes
      /\ buf[p] = <<>> /\ pos[p] = 0
  BY NothingYet DEF SaveConvert, TypeOK, JobType
<1>2. ASSUME NEW s, Finish(p, Answer(s)), Outcome(p, "rejected") PROVE Inv'
  <2>1. pc[p] # "idle" /\ pc[p] \in SavePcs /\ files' = files /\ dirty' = dirty
    BY <1>1 DEF SavePcs
  <2>2. "rejected" \in Outcomes \ {"never", "open"} /\ "rejected" # "saved"
    BY DEF Outcomes
  <2>3. QED
    BY <1>2, <2>1, <2>2, FinishedInv
<1>3. CASE /\ m # Failed /\ Fits(b)
           /\ Goto(p, "save_stream")
           /\ buf' = [buf EXCEPT ![p] = b]
           /\ last' = IF last[j.file].owner = p
                      THEN [last EXCEPT ![j.file].bytes = b] ELSE last
           /\ UNCHANGED <<job, pos, result>>
  <2>1. \E x \in Accepted : Fits(Output(x)) /\ b = Output(x)
    <3> DEFINE x == <<j.type, j.obj, j.names>>
    <3>1. x \in Accepted /\ b = Output(x)
      BY <1>1, <1>3 DEF Accepted, Output, JobType
    <3>2. QED
      BY <1>3, <3>1
  <2> HIDE DEF b
  <2>2. /\ \A q \in Procs : pc'[q] = IF q = p THEN "save_stream" ELSE pc[q]
        /\ \A q \in Procs : buf'[q] = IF q = p THEN b ELSE buf[q]
        /\ UNCHANGED <<job, pos>>
    BY <1>3 DEF Goto, TypeOK
  <2>3. \A q \in Procs, f \in Files : Writing(q, f)' <=> Writing(q, f)
    BY <1>1, <2>2 DEF Writing, SavePcs
  <2>4. \A f \in Files : /\ last'[f].owner = last[f].owner
                         /\ last'[f].done = last[f].done
                         /\ last'[f].contended = last[f].contended
                         /\ last'[f].bytes = IF f = j.file /\ last[f].owner = p
                                             THEN b ELSE last[f].bytes
    <3> DEFINE g == j.file
               l == [last[g] EXCEPT !.bytes = b]
    <3>1. g \in Files /\ last' = IF last[g].owner = p THEN [last EXCEPT ![g] = l] ELSE last
      BY <1>1, <1>3
    <3>2. /\ l.owner = last[g].owner /\ l.done = last[g].done
          /\ l.contended = last[g].contended /\ l.bytes = b
      BY <3>1 DEF TypeOK, LastType
    <3> HIDE DEF l
    <3>3. QED
      BY <3>1, <3>2 DEF TypeOK
  <2>5. Writing(p, j.file)
    BY <1>1 DEF Writing, SavePcs
  <2>6. BufferIsOutput'
    BY <2>1, <2>2 DEF BufferIsOutput
  <2>7. OpenIsNotOver'
    BY <2>3, <2>4 DEF OpenIsNotOver
  <2>8. OnlyOwnerWrites'
    BY <1>1, <2>2, <2>3, <2>4, <2>5 DEF OnlyOwnerWrites, Writing
  <2>9. PiecesInPlace'
    BY <1>1 DEF PiecesInPlace
  <2>10. UncontendedPrefix'
    <3> SUFFICES ASSUME NEW f \in Files, last[f].done # "never", ~last[f].contended
                 PROVE  files[f] # NoFile /\ StartsWith(last'[f].bytes, files[f])
      BY <1>1, <2>4 DEF UncontendedPrefix
    <3>1. CASE f = j.file /\ last[f].owner = p
      <4>1. Len(files[f]) = 0 /\ files[f] # NoFile
        BY <1>1, <2>5, <3>1 DEF OnlyOwnerWrites, UncontendedPrefix
      <4>2. last'[f].bytes = b /\ Len(b) \in Nat
        BY <2>1, <2>4, <3>1, OutputType, LenProperties
      <4>3. QED
        BY <4>1, <4>2 DEF StartsWith
    <3>2. CASE ~(f = j.file /\ last[f].owner = p)
      BY <2>4, <3>2 DEF UncontendedPrefix
    <3>3. QED
      BY <3>1, <3>2
  <2>11. SavedIsOnDisk'
    BY <1>1, <2>4, <2>5 DEF SavedIsOnDisk, OpenIsNotOver
  <2>12. LoadIsSnapshot'
    BY <1>1, <2>2 DEF LoadIsSnapshot
  <2>13. QED
    BY <2>6, <2>7, <2>8, <2>9, <2>10, <2>11, <2>12
<1>4. QED
  BY <1>2, <1>3 DEF SaveConvert

(* A write lands where p left off, at the end of the file unless somebody
   else opened it too; loads in progress on the file are disturbed. *)
LEMMA SaveChunkInv ==
    ASSUME Inv, TypeOK', NEW p \in Procs, SaveChunk(p)
    PROVE  Inv'
<1> USE DEF Inv
<1> DEFINE f == job[p].file
           n == pos[p]
           c == buf[p][n + 1]
           w == WriteAt(files[f], n, c)
<1>1. /\ pc[p] \in {"save_stream", "save_close"} /\ n < Len(buf[p])
      /\ Update(f, w) /\ pos' = [pos EXCEPT ![p] = n + 1]
      /\ UNCHANGED <<pc, job, buf, result, last>>
  BY DEF SaveChunk, ReadAt
<1>2. f \in Files /\ files[f] \in Seq(Byte) /\ files[f] # NoFile /\ Writing(p, f)
  BY <1>1 DEF TypeOK, JobType, Writing, SavePcs
<1>3. n \in Nat /\ buf[p] \in Seq(Byte) /\ Len(buf[p]) \in Nat
  BY LenProperties DEF TypeOK
<1>4. c \in Byte
  BY <1>1, <1>3, ElementOfSeq
<1> DEFINE L == Len(files[f])
<1>5. /\ L \in Nat /\ w \in Seq(Byte) /\ Len(w) = IF n < L THEN L ELSE n + 1
      /\ \A i \in 1 .. Len(w) :
            w[i] = IF i = n + 1 THEN c ELSE IF i <= L THEN files[f][i] ELSE Hole
  <2>1. ASSUME NEW b \in Seq(Byte), b = files[f], NEW o \in Nat, o = n,
               NEW v \in Byte, v = c
        PROVE  /\ WriteAt(b, o, v) \in Seq(Byte)
               /\ Len(WriteAt(b, o, v)) = IF o < Len(b) THEN Len(b) ELSE o + 1
               /\ \A i \in 1 .. Len(WriteAt(b, o, v)) :
                     WriteAt(b, o, v)[i] =
                        IF i = o + 1 THEN v ELSE IF i <= Len(b) THEN b[i] ELSE Hole
    BY WriteAtProperties
  <2>2. QED
    BY <1>2, <1>3, <1>4, <2>1, LenProperties, SMTT(30)
<1>6. /\ files'[f] = w
      /\ \A g \in Files : g # f => files'[g] = files[g]
      /\ \A q \in Procs : dirty'[q] = (dirty[q] \/ Reading(q, f))
  BY <1>1, <1>2 DEF Update, TypeOK
<1>7. pos'[p] = n + 1 /\ \A q \in Procs : q # p => pos'[q] = pos[q]
  BY <1>1 DEF TypeOK
<1>8. PICK x \in Accepted : Fits(Output(x)) /\ buf[p] = Output(x)
  BY <1>1 DEF BufferIsOutput
<1>9. ~last[f].contended => /\ last[f].owner = p /\ L = n /\ last[f].bytes = buf[p]
                            /\ last[f].done = "open"
  BY <1>2 DEF OnlyOwnerWrites, OpenIsNotOver
<1> HIDE DEF f, n, c, w, L
<1>10. BufferIsOutput' /\ OpenIsNotOver'
  BY <1>1 DEF BufferIsOutput, OpenIsNotOver, Writing
<1>11. OnlyOwnerWrites'
  <2> SUFFICES ASSUME NEW g \in Files, NEW q \in Procs, Writing(q, g), ~last[g].contended
               PROVE  /\ last[g].owner = q /\ Len(files'[g]) = pos'[q]
                      /\ last[g].bytes = buf[q]
    BY <1>1 DEF OnlyOwnerWrites, Writing
  <2>1. last[g].owner = q /\ Len(files[g]) = pos[q] /\ last[g].bytes = buf[q]
    BY DEF OnlyOwnerWrites
  <2>2. CASE g = f
    <3>1. q = p /\ Len(files'[g]) = n + 1
      BY <1>5, <1>6, <1>9, <2>1, <2>2
    <3>2. QED
      BY <1>7, <2>1, <3>1
  <2>3. CASE g # f
    <3>1. q # p
      BY <2>3 DEF Writing, f
    <3>2. QED
      BY <1>6, <1>7, <2>1, <2>3, <3>1
  <2>4. QED
    BY <2>2, <2>3
<1>12. PiecesInPlace'
  <2> SUFFICES ASSUME NEW g \in Files, files'[g] # NoFile, NEW i \in 1 .. Len(files'[g])
               PROVE  \/ files'[g][i] = Hole
                      \/ \E y \in Accepted : /\ Fits(Output(y)) /\ i <= Len(Output(y))
                                             /\ files'[g][i] = Output(y)[i]
    BY DEF PiecesInPlace
  <2>1. CASE g # f
    BY <1>6, <2>1 DEF PiecesInPlace
  <2>2. CASE g = f /\ i = n + 1
    <3>1. i <= Len(Output(x)) /\ files'[g][i] = Output(x)[i]
      BY <1>1, <1>3, <1>5, <1>6, <1>8, <2>2 DEF c, n
    <3>2. QED
      BY <1>8, <3>1
  <2>3. CASE g = f /\ i # n + 1 /\ i <= L
    <3>1. i \in 1 .. Len(files[f]) /\ files'[g][i] = files[f][i]
      BY <1>5, <1>6, <2>3 DEF L
    <3>2. QED
      BY <1>2, <3>1 DEF PiecesInPlace
  <2>4. CASE g = f /\ i # n + 1 /\ ~(i <= L)
    BY <1>5, <1>6, <2>4
  <2>5. QED
    BY <2>1, <2>2, <2>3, <2>4
<1>13. UncontendedPrefix'
  <2> SUFFICES ASSUME NEW g \in Files, last[g].done # "never", ~last[g].contended
               PROVE  files'[g] # NoFile /\ StartsWith(last[g].bytes, files'[g])
    BY <1>1 DEF UncontendedPrefix
  <2>1. CASE g # f
    BY <1>6, <2>1 DEF UncontendedPrefix
  <2>2. CASE g = f
    <3>1. L = n /\ last[g].bytes = buf[p] /\ Len(w) = n + 1
      BY <1>5, <1>9, <2>2
    <3>2. StartsWith(last[g].bytes, files[f])
      BY <2>2 DEF UncontendedPrefix
    <3>3. \A i \in 1 .. Len(w) : w[i] = last[g].bytes[i]
      <4> SUFFICES ASSUME NEW i \in 1 .. Len(w) PROVE w[i] = last[g].bytes[i]
        OBVIOUS
      <4>1. CASE i = n + 1
        BY <1>5, <3>1, <4>1 DEF c, n
      <4>2. CASE i # n + 1
        <5>1. i \in 1 .. Len(files[f]) /\ w[i] = files[f][i]
          BY <1>3, <1>5, <3>1, <4>2 DEF L
        <5>2. QED
          BY <3>2, <5>1 DEF StartsWith
      <4>3. QED
        BY <4>1, <4>2
    <3>4. Len(w) <= Len(last[g].bytes)
      BY <1>1, <1>3, <3>1
    <3>5. w # NoFile
      BY <1>5, NameAssumption
    <3>6. QED
      BY <1>6, <2>2, <3>3, <3>4, <3>5 DEF StartsWith
  <2>3. QED
    BY <2>1, <2>2
<1>14. SavedIsOnDisk'
  BY <1>1, <1>6, <1>9 DEF SavedIsOnDisk
<1>15. LoadIsSnapshot'
  <2> SUFFICES ASSUME NEW q \in Procs, pc[q] = "load_reading", ~dirty'[q]
               PROVE  StartsWith(files'[job[q].file], buf[q])
    BY <1>1 DEF LoadIsSnapshot
  <2>1. ~dirty[q] /\ job[q].file # f /\ job[q].file \in Files
    BY <1>6 DEF Reading, TypeOK, JobType
  <2>2. QED
    BY <1>6, <2>1 DEF LoadIsSnapshot
<1>16. QED
  BY <1>10, <1>11, <1>12, <1>13, <1>14, <1>15

LEMMA SaveStreamedInv ==
    ASSUME Inv, TypeOK', NEW p \in Procs, SaveStreamed(p)
    PROVE  Inv'
<1> USE DEF Inv
<1>1. /\ pc[p] = "save_stream"
      /\ \A q \in Procs : pc'[q] = IF q = p THEN "save_close" ELSE pc[q]
      /\ UNCHANGED <<files, job, buf, pos, last, dirty>>
  BY DEF SaveStreamed, Goto, TypeOK
<1>2. \A q \in Procs, f \in Files : Writing(q, f)' <=> Writing(q, f)
  BY <1>1 DEF Writing, SavePcs
<1>3. BufferIsOutput' /\ OpenIsNotOver' /\ OnlyOwnerWrites'
  BY <1>1, <1>2 DEF BufferIsOutput, OpenIsNotOver, OnlyOwnerWrites
<1>4. PiecesInPlace' /\ UncontendedPrefix' /\ SavedIsOnDisk' /\ LoadIsSnapshot'
  BY <1>1 DEF PiecesInPlace, UncontendedPrefix, SavedIsOnDisk, LoadIsSnapshot
<1>5. QED
  BY <1>3, <1>4

LEMMA LoadMessageInv ==
    ASSUME Inv, TypeOK', NEW p \in Procs, NEW ty, NEW f \in Files, NEW k, NEW nm,
           LoadMessage(p, ty, f, k, nm)
    PROVE  Inv'
<1> USE DEF Inv
<1>1. CASE Stay
  BY <1>1, ReturnedInv
<1>2. CASE /\ files[f] # NoFile /\ Begin(p, "load_reading", ty, f, k, nm)
           /\ dirty' = [dirty EXCEPT ![p] = FALSE]
           /\ UNCHANGED <<files, buf, pos, last>>
  <2>1. pc[p] = "idle" /\ buf[p] = <<>>
    BY NothingYet DEF LoadMessage, Idle
  <2>2. /\ \A q \in Procs : /\ pc'[q] = IF q = p THEN "load_reading" ELSE pc[q]
                            /\ q # p => job'[q] = job[q] /\ dirty'[q] = dirty[q]
        /\ job'[p].file = f
    BY <1>2 DEF Begin, Goto, TypeOK
  <2>3. \A q \in Procs, g \in Files : Writing(q, g)' <=> Writing(q, g)
    BY <2>1, <2>2 DEF Writing, SavePcs
  <2>4. BufferIsOutput' /\ OpenIsNotOver' /\ OnlyOwnerWrites'
    <3>1. BufferIsOutput'
      BY <1>2, <2>2, <2>3 DEF BufferIsOutput
    <3>2. OpenIsNotOver'
      BY <1>2, <2>2, <2>3 DEF OpenIsNotOver
    <3>3. OnlyOwnerWrites'
      BY <1>2, <2>2, <2>3 DEF OnlyOwnerWrites
    <3> QED
      BY <3>1, <3>2, <3>3
  <2>5. PiecesInPlace' /\ UncontendedPrefix' /\ SavedIsOnDisk'
    BY <1>2 DEF PiecesInPlace, UncontendedPrefix, SavedIsOnDisk
  <2>6. LoadIsSnapshot'
    <3> SUFFICES ASSUME NEW q \in Procs, pc'[q] = "load_reading", ~dirty'[q]
                 PROVE  StartsWith(files[job'[q].file], buf[q])
      BY <1>2 DEF LoadIsSnapshot
    <3>1. CASE q = p
      <4>1. files[f] \in Seq(Byte) /\ Len(<<>>) = 0
        BY <1>2, EmptySeq DEF TypeOK
      <4>2. QED
        BY <2>1, <2>2, <3>1, <4>1, LenProperties DEF StartsWith
    <3>2. CASE q # p
      BY <2>2, <3>2 DEF LoadIsSnapshot
    <3>3. QED
      BY <3>1, <3>2
  <2>7. QED
    BY <2>4, <2>5, <2>6
<1>3. QED
  BY <1>1, <1>2 DEF LoadMessage

LEMMA LoadChunkInv ==
    ASSUME Inv, TypeOK', NEW p \in Procs, LoadChunk(p)
    PROVE  Inv'
<1> USE DEF Inv
<1> DEFINE f == job[p].file
           c == files[f][pos[p] + 1]
           b == Append(buf[p], c)
<1>1. /\ pc[p] = "load_reading" /\ pos[p] < Len(files[f])
      /\ \A q \in Procs : /\ buf'[q] = IF q = p THEN b ELSE buf[q]
                          /\ q # p => pos'[q] = pos[q]
      /\ UNCHANGED <<files, pc, job, result, last, dirty>>
  BY DEF LoadChunk, ReadAt, TypeOK
<1>2. \A q \in Procs, g \in Files : Writing(q, g) => q # p
  BY <1>1 DEF Writing, SavePcs
<1>3. BufferIsOutput' /\ OpenIsNotOver' /\ OnlyOwnerWrites'
  BY <1>1, <1>2 DEF BufferIsOutput, OpenIsNotOver, OnlyOwnerWrites, Writing
<1>4. PiecesInPlace' /\ UncontendedPrefix' /\ SavedIsOnDisk'
  BY <1>1 DEF PiecesInPlace, UncontendedPrefix, SavedIsOnDisk
<1>5. LoadIsSnapshot'
  <2> SUFFICES ASSUME NEW q \in Procs, pc[q] = "load_reading", ~dirty[q]
               PROVE  StartsWith(files[job[q].file], buf'[q])
    BY <1>1 DEF LoadIsSnapshot
  <2>1. CASE q # p
    BY <1>1, <2>1 DEF LoadIsSnapshot
  <2>2. CASE q = p
    <3>1. StartsWith(files[f], buf[p])
      BY <2>2 DEF LoadIsSnapshot
    <3>2. /\ files[f] \in Seq(Byte) /\ Len(files[f]) \in Nat
          /\ buf[p] \in Seq(Byte) /\ Len(buf[p]) \in Nat /\ pos[p] = Len(buf[p])
      BY <1>1, LenProperties DEF TypeOK, JobType
    <3>3. c \in Byte
      BY <1>1, <3>2, ElementOfSeq
    <3> HIDE DEF c, f
    <3>4. /\ Len(b) = Len(buf[p]) + 1
          /\ \A i \in 1 .. Len(b) : b[i] = IF i <= Len(buf[p]) THEN buf[p][i] ELSE c
      BY <3>2, <3>3
    <3> HIDE DEF b
    <3>5. \A i \in 1 .. Len(b) : b[i] = files[f][i]
      BY <3>1, <3>2, <3>4 DEF StartsWith, c
    <3>6. StartsWith(files[f], b)
      BY <1>1, <3>2, <3>4, <3>5 DEF StartsWith
    <3>7. QED
      BY <1>1, <2>2, <3>6 DEF f
  <2>3. QED
    BY <2>1, <2>2
<1>6. QED
  BY <1>3, <1>4, <1>5

LEMMA InvStep == Inv /\ [Next]_vars => Inv'
<1> SUFFICES ASSUME Inv, [Next]_vars PROVE Inv'
  OBVIOUS
<1>1. TypeOK'
  BY TypeStep DEF Inv
<1>2. CASE UNCHANGED vars
  BY <1>1, <1>2, ReturnedInv DEF vars, Stay
<1>3. ASSUME NEW p \in Procs, Call(p) PROVE Inv'
  BY <1>1, <1>3, CallCases, ReturnedInv, SaveMessageInv, LoadMessageInv
<1>4. ASSUME NEW p \in Procs,
             SaveStreamFails(p) \/ SaveClose(p) \/ LoadParse(p) \/ LoadStreamFails(p)
             \/ Crash(p)
      PROVE  Inv'
  <2>1. PICK r : /\ r.status \in Statuses /\ Finish(p, r)
                 /\ pc[p] # "idle" /\ files' = files
                 /\ dirty' = dirty \/ dirty' = [dirty EXCEPT ![p] = TRUE]
                 /\ \/ last' = last
                    \/ /\ pc[p] \in SavePcs
                       /\ \E d \in Outcomes \ {"never", "open"} :
                             /\ Outcome(p, d)
                             /\ d = "saved" => pc[p] = "save_close" /\ pos[p] = Len(buf[p])
    BY <1>4, EndCases
  <2>2. \A q \in Procs \ {p} : dirty'[q] = dirty[q]
    BY <2>1 DEF Inv, TypeOK
  <2>3. QED
    BY <1>1, <2>1, <2>2, FinishedInv
<1>5. ASSUME NEW p \in Procs, Step(p) PROVE Inv'
  BY <1>1, <1>4, <1>5, SaveConvertInv, SaveChunkInv, SaveStreamedInv, LoadChunkInv
     DEF Step
<1>6. QED
  BY <1>2, <1>3, <1>4, <1>5 DEF Next

(* The inductive invariant: what the processes that write, the files and the
   history of who opened them last have to do with one another. *)
THEOREM InvHolds == Spec => []Inv
<1>1. Init => Inv
  BY InitInv
<1>2. Inv /\ [Next]_vars => Inv'
  BY InvStep
<1>3. QED
  BY <1>1, <1>2, PTL DEF Spec

(* Saves of several processes overlay each other in place: no byte of a file
   is at an offset where no accepted message has it. *)
THEOREM NothingIsShifted == Spec => []PiecesInPlace
<1>1. Inv => PiecesInPlace
  BY DEF Inv
<1>2. QED
  BY <1>1, InvHolds, PTL

(* After any failure or crash, a file that one process at a time writes to
   holds a prefix of what its last save converted. *)
THEOREM FailuresLeavePrefix == Spec => []UncontendedPrefix
<1>1. Inv => UncontendedPrefix
  BY DEF Inv
<1>2. QED
  BY <1>1, InvHolds, PTL

(* A completed save is on disk until the file is opened again. *)
THEOREM SaveIsDurable == Spec => []SavedIsOnDisk
<1>1. Inv => SavedIsOnDisk
  BY DEF Inv
<1>2. QED
  BY <1>1, InvHolds, PTL

(* A load that no write overtakes reads one content of its file. *)
THEOREM LoadsAreSnapshots == Spec => []LoadIsSnapshot
<1>1. Inv => LoadIsSnapshot
  BY DEF Inv
<1>2. QED
  BY <1>1, InvHolds, PTL

----------------------------------------------------------------------------
(* What loading returns.                                                   *)

(* An int holds the length of anything that was serialized. *)
LEMMA ReceivedWhole ==
    ASSUME NEW b \in Seq(Byte), Len(b) <= MaxLen
    PROVE  Received(b) = b
<1>1. Len(b) \in Nat /\ Len(b) < IntRange /\ 2 * Len(b) < IntRange
  BY LenProperties, BoundAssumption
<1>2. Len(b) % IntRange = Len(b)
  BY <1>1, BoundAssumption
<1>3. SubSeq(b, 1, Len(b)) = b
  BY <1>1
<1>4. QED
  BY <1>1, <1>2, <1>3 DEF Received

(* A process only returns from the operation it runs by its own steps, and
   from a load with a result only by parsing what it read, or failing to
   read it. *)
LEMMA OnlyParsingReturns ==
    ASSUME TypeOK, [Next]_vars, NEW p \in Procs, LoadReturned(p)
    PROVE  LoadParse(p) \/ LoadStreamFails(p)
<1>1. pc[p] = "load_reading" /\ pc'[p] = "idle" /\ result'[p].status # "none"
  BY DEF LoadReturned
<1>2. PICK q \in Procs : Call(q) \/ Step(q) \/ LoadStreamFails(q) \/ Crash(q)
  BY <1>1 DEF Next, vars
<1>3. ASSUME NEW l, pc' = [pc EXCEPT ![q] = l] PROVE q = p /\ l = "idle"
  BY <1>1, <1>3 DEF TypeOK
<1>4. pc' # pc
  BY <1>1
<1>5. ~Call(q)
  <2>1. ~Stay
    BY <1>4 DEF Stay
  <2>2. ~Goto(q, "save_opened") /\ ~Goto(q, "load_reading")
    BY <1>3 DEF Goto
  <2>3. \A ty, f, k, nm : ~SaveMessage(q, ty, f, k, nm)
    BY <2>1, <2>2 DEF SaveMessage, Begin
  <2>4. \A ty, f, k, nm : ~LoadMessage(q, ty, f, k, nm)
    BY <2>1, <2>2 DEF LoadMessage, Begin
  <2>5. QED
    BY <2>1, <2>3, <2>4, CallCases
<1>6. ~SaveConvert(q)
  BY <1>1, <1>3 DEF SaveConvert, Finish, Goto
<1>7. ~SaveStreamFails(q) /\ ~SaveClose(q)
  BY <1>1, <1>3 DEF SaveStreamFails, SaveClose, Finish, Goto
<1>8. ~SaveChunk(q) /\ ~LoadChunk(q) /\ ~SaveStreamed(q)
  BY <1>3, <1>4 DEF SaveChunk, LoadChunk, SaveStreamed, Goto
<1>9. ~Crash(q)
  <2>1. SUFFICES ASSUME Crash(q) PROVE FALSE
    OBVIOUS
  <2>2. q = p
    BY <1>3, <2>1 DEF Crash, Finish, Goto
  <2>3. result' = [result EXCEPT ![p] = Answer("none")]
    BY <2>1, <2>2 DEF Crash, Finish, Return
  <2>4. result'[p] = Answer("none")
    BY <2>3 DEF TypeOK
  <2>5. QED
    BY <1>1, <2>4 DEF Answer
<1>10. LoadParse(q) \/ LoadStreamFails(q)
  BY <1>2, <1>5, <1>6, <1>7, <1>8, <1>9 DEF Step
<1>11. QED
  BY <1>3, <1>10 DEF LoadParse, LoadStreamFails, Finish, Goto

(* Loading a completely saved file, undisturbed, returns what parsing the
   serialized message returns. *)
THEOREM LoadingIsParsing == Spec => LoadIsParse
<1> DEFINE Returns(p) ==
        /\ LoadReturned(p) /\ job[p].obj = None /\ ~dirty'[p]
        /\ last[job[p].file].done = "saved" /\ ~last[job[p].file].contended
           A == \A p \in Procs : Returns(p) =>
                result'[p] = Parsed(job[p].type, last[job[p].file].bytes, job[p].names)
<1>1. Inv /\ [Next]_vars => A
  <2> SUFFICES ASSUME Inv, [Next]_vars, NEW p \in Procs, Returns(p)
               PROVE  result'[p] = Parsed(job[p].type, last[job[p].file].bytes, job[p].names)
    OBVIOUS
  <2> DEFINE f == job[p].file
  <2>1. TypeOK /\ LoadParse(p) /\ ~dirty[p]
    <3>1. ~LoadStreamFails(p)
      BY DEF LoadStreamFails, Inv, TypeOK
    <3>2. LoadParse(p)
      BY <3>1, OnlyParsingReturns DEF Inv
    <3> QED
      BY <3>2 DEF LoadParse, Inv
  <2>2. /\ pc[p] = "load_reading" /\ job[p] \in JobType /\ f \in Files
        /\ files[f] # NoFile /\ pos[p] = Len(buf[p])
    BY <2>1 DEF LoadParse, TypeOK, JobType
  <2>3. files[f] = last[f].bytes
    BY <2>2 DEF Inv, SavedIsOnDisk
  <2>4. buf[p] = files[f]
    <3>1. StartsWith(files[f], buf[p])
      BY <2>1, <2>2 DEF Inv, LoadIsSnapshot
    <3>2. Len(buf[p]) >= Len(files[f])
      BY <2>1, <2>2 DEF LoadParse, AtEnd
    <3>3. files[f] \in Seq(Byte) /\ buf[p] \in Seq(Byte)
      BY <2>1, <2>2 DEF TypeOK
    <3>4. Len(files[f]) \in Nat /\ Len(buf[p]) \in Nat
      BY <3>3, LenProperties
    <3>5. QED
      BY <3>1, <3>2, <3>3, <3>4, SeqEqual DEF StartsWith
  <2>5. job[p].obj # "debug" /\ job[p].type \in KnownTypes
    BY <2>2, NameAssumption DEF JobType
  <2>6. Finish(p, Converted(job[p].type, buf[p], job[p].names))
    BY <2>1, <2>5 DEF LoadParse
  <2>7. result'[p] = Converted(job[p].type, buf[p], job[p].names)
    BY <2>1, <2>6 DEF Finish, Return, TypeOK
  <2>8. Received(buf[p]) = buf[p]
    BY <2>1, ReceivedWhole DEF TypeOK
  <2>9. QED
    BY <2>3, <2>4, <2>5, <2>7, <2>8 DEF Parsed
<1>2. Spec => [][A]_vars
  BY <1>1, InvHolds, PTL DEF Spec
<1>3. QED
  BY <1>2 DEF LoadIsParse
=============================================================================
