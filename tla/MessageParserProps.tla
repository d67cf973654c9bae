-------------------------- MODULE MessageParserProps --------------------------
(***************************************************************************)
(* What MessageParser's file operations guarantee, and what they do not.   *)
(***************************************************************************)
EXTENDS MessageParser

JobType == [type : KnownTypes, file : Files, obj : KObj \cup {None, "debug"},
            names : BOOLEAN]
LastType == [owner : Procs \cup {None}, done : Outcomes, bytes : Seq(Chunk),
             had : BOOLEAN, contended : BOOLEAN]

(* Every variable keeps its type.  No buffer, offset or file outgrows the
   longest output that is serialized.  A process that is idle holds no job,
   and one that is idle or has not converted its object yet holds no buffer:
   the stream and the message are destroyed on every way out of an
   operation.  A file that is open exists. *)
TypeOK ==
    /\ files \in [Files -> Seq(Byte) \cup {NoFile}]
    /\ pc \in [Procs -> Pcs]
    /\ job \in [Procs -> JobType \cup {None}]
    /\ buf \in [Procs -> Seq(Byte)]
    /\ pos \in [Procs -> 0 .. MaxLen]
    /\ last \in [Files -> LastType]
    /\ dirty \in [Procs -> BOOLEAN]
    /\ result = [p \in Procs |-> result[p]]
    /\ \A p \in Procs : result[p].status \in Statuses
    /\ \A f \in Files : files[f] # NoFile => Len(files[f]) <= MaxLen
    /\ \A p \in Procs :
          /\ pos[p] <= Len(buf[p]) /\ Len(buf[p]) <= MaxLen
          /\ pc[p] = "idle" => job[p] = None
          /\ pc[p] \in {"idle", "save_opened"} => buf[p] = <<>>
          /\ pc[p] # "idle" => job[p] \in JobType /\ files[job[p].file] # NoFile
          /\ pc[p] = "load_reading" => pos[p] = Len(buf[p])
          /\ pc[p] = "save_opened" => job[p].obj \in KObj /\ job[p].names \in Modes

StartsWith(s, t) == Len(t) <= Len(s) /\ \A i \in 1 .. Len(t) : t[i] = s[i]

(* However many processes save to a file at once, and wherever they fail or
   die, a file never holds a piece of output at another place than the
   one some accepted message has it at: saves overlay each other in place
   (each writes at its own offset from the start), they never shift. *)
PiecesInPlace ==
    \A f \in Files : files[f] # NoFile =>
        \A i \in 1 .. Len(files[f]) :
            \/ files[f][i] = Hole
            \/ \E x \in Accepted : /\ Fits(Output(x)) /\ i <= Len(Output(x))
                                   /\ files[f][i] = Output(x)[i]

(* A file opened for writing by one process at a time holds, from that
   opening on, a prefix of what that save converted, whatever its outcome;
   after a crash or a failed write too. *)
UncontendedPrefix ==
    \A f \in Files : last[f].done # "never" /\ ~last[f].contended =>
        files[f] # NoFile /\ StartsWith(last[f].bytes, files[f])

(* Once a save has returned, and its last write succeeded, the file holds
   all of the message until the next save opens it. *)
SavedIsOnDisk ==
    \A f \in Files : last[f].done = "saved" /\ ~last[f].contended =>
        files[f] = last[f].bytes

(* A load that was not overtaken by a write to its file has read a prefix of
   what the file holds: buffers of a load never mix two contents. *)
LoadIsSnapshot ==
    \A p \in Procs : pc[p] = "load_reading" /\ ~dirty[p] =>
        StartsWith(files[job[p].file], buf[p])

(* What makes the guarantees above inductive.  Output being written is that
   of an accepted object; as long as a file is not contended, its only
   writer is the process that opened it last, and it has written pos pieces
   of its output. *)
BufferIsOutput ==
    \A p \in Procs : pc[p] \in {"save_stream", "save_close"} =>
        \E x \in Accepted : Fits(Output(x)) /\ buf[p] = Output(x)
OpenIsNotOver ==
    \A f \in Files, p \in Procs : Writing(p, f) /\ last[f].owner = p =>
        last[f].done = "open"
OnlyOwnerWrites ==
    \A f \in Files, p \in Procs : Writing(p, f) /\ ~last[f].contended =>
        /\ last[f].owner = p /\ Len(files[f]) = pos[p]
        /\ last[f].bytes = buf[p]
Inv == /\ TypeOK /\ BufferIsOutput /\ OpenIsNotOver /\ OnlyOwnerWrites
       /\ PiecesInPlace /\ UncontendedPrefix
       /\ SavedIsOnDisk /\ LoadIsSnapshot

(* Loading what was saved is parsing what would have been serialized: the
   result of a load of a completely saved file is that of ParseArray on the
   bytes of the save, unless the file changed or a read failed meanwhile. *)
LoadReturned(p) == pc[p] = "load_reading" /\ pc'[p] = "idle" /\ result'[p].status # "none"
LoadIsParse ==
    [][\A p \in Procs :
        LET j == job[p] IN
        /\ LoadReturned(p) /\ j.obj = None /\ ~dirty'[p]
        /\ last[j.file].done = "saved" /\ ~last[j.file].contended
        => result'[p] = Parsed(j.type, last[j.file].bytes, j.names)]_vars

(* Every operation returns: no sequence of writes by other processes keeps
   a save or a load from ending. *)
EveryCallReturns == \A p \in Procs : pc[p] # "idle" ~> pc[p] = "idle"

----------------------------------------------------------------------------
(* What the comments and the documentation say, and the code does not do.  *)

(* "Converts the kdb object to a protobuf message, serializes that then writes
   the result to the specified file": an object that cannot be converted
   does not cost the file what it held before. *)
RejectedSaveKeepsFile ==
    \A f \in Files : last[f].done = "rejected" /\ ~last[f].contended /\ last[f].had =>
        files[f] # <<>>
=============================================================================
