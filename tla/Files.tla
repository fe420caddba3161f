------------------------------- MODULE Files --------------------------------
(***************************************************************************)
(* The fs.write and fs.read capabilities (src/caps/fs_write.rs,            *)
(* src/caps/fs_read.rs) on one path, by jobs that run concurrently.        *)
(*                                                                         *)
(* Each step of a handler is an operation on tokio's blocking pool that    *)
(* the handler submits and awaits.  Dropping the handler, as the worker's  *)
(* timeout does, does not take back what was submitted.  tokio::fs::File   *)
(* acknowledges a write when it is submitted; its outcome is known at the  *)
(* next write, or at the flush.                                            *)
(***************************************************************************)
EXTENDS SequencesExt

CONSTANTS
  Jobs,
  Modes,   \* what the jobs may do: "read" and modes of fs.write
  Chunks,  \* writes it takes to hand over the content of a job
  OldSize, \* chunks of a file that exists before
  MaxBad   \* bound on the writes that fail

WriteModes == {"overwrite", "append", "create_only"}

ASSUME FilesAssumption ==
  /\ Modes \subseteq WriteModes \cup {"read", "unsupported"}
  /\ Chunks \in Nat \ {0} /\ OldSize \in Nat /\ MaxBad \in Nat

VARIABLES
  mode,      \* job -> what it does
  parent,    \* the directory of the path exists
  exists,    \* the file exists
  content,   \* of the file, in chunks
  phase,     \* job -> where the handler stands
  pool,      \* job -> its operation on the blocking pool
  sent,      \* job -> chunks handed over to the pool
  pos,       \* job -> offset of the handle
  bad,       \* job -> the last write failed
  got,       \* job -> what was read
  result,    \* job -> what the worker reports
  written,   \* history: job -> chunks that reached the file
  touched,   \* history: job -> jobs that changed the file since it opened it
  late       \* history: job -> changes of the file after its timeout

vars == <<mode, parent, exists, content, phase, pool, sent, pos, bad, got,
          result, written, touched, late>>
file == <<exists, content>>
handler == <<phase, result>>
history == <<written, touched, late>>

Whole(j) == [i \in 1..Chunks |-> <<j, i>>]

Init ==
  /\ mode \in [Jobs -> Modes]
  /\ exists \in BOOLEAN
  /\ parent \in {TRUE, exists}
  /\ content = IF exists THEN [i \in 1..OldSize |-> <<"old", 0>>] ELSE <<>>
  /\ phase = [j \in Jobs |-> "new"]
  /\ pool = [j \in Jobs |-> "idle"]
  /\ sent = [j \in Jobs |-> 0]
  /\ pos = [j \in Jobs |-> 0]
  /\ bad = [j \in Jobs |-> FALSE]
  /\ got = [j \in Jobs |-> <<>>]
  /\ result = [j \in Jobs |-> "none"]
  /\ written = [j \in Jobs |-> {}]
  /\ touched = [j \in Jobs |-> {}]
  /\ late = [j \in Jobs |-> 0]

-----------------------------------------------------------------------------
(* The handler, between two operations *)

Await(j, op) ==
  /\ phase' = [phase EXCEPT ![j] = op]
  /\ pool' = [pool EXCEPT ![j] = op]
  /\ UNCHANGED result

Return(j, r) ==
  /\ phase' = [phase EXCEPT ![j] = "over"]
  /\ result' = [result EXCEPT ![j] = r]

(* A missing field, or content that cannot be decoded. *)
InvalidPayload(j) ==
  /\ phase[j] = "new"
  /\ Return(j, "failure")
  /\ UNCHANGED <<mode, parent, file, pool, sent, pos, bad, got, history>>

(* With create_dirs the first operation is create_dir_all, else the open;  *)
(* the mode is looked at in between.                                       *)
Start(j) ==
  /\ phase[j] = "new"
  /\ \/ mode[j] # "read" /\ Await(j, "mkdir")
     \/ mode[j] # "unsupported" /\ Await(j, "open")
     \/ mode[j] = "unsupported" /\ Return(j, "failure") /\ UNCHANGED pool
  /\ UNCHANGED <<mode, parent, file, sent, pos, bad, got, history>>

(* Mutants: a timeout does not stop what was begun; one chunk too many. *)
SubmitDetached(j) ==
  /\ phase[j] = "write" \/ (result[j] = "timeout" /\ sent[j] > 0)
  /\ pool[j] = "idle" /\ ~bad[j]
  /\ sent[j] < Chunks
  /\ sent' = [sent EXCEPT ![j] = @ + 1]
  /\ pool' = [pool EXCEPT ![j] = "write"]
  /\ UNCHANGED <<mode, parent, file, handler, pos, bad, got, history>>

SubmitMore(j) ==
  /\ phase[j] = "write"
  /\ pool[j] = "idle" /\ ~bad[j]
  /\ sent[j] <= Chunks
  /\ sent' = [sent EXCEPT ![j] = @ + 1]
  /\ pool' = [pool EXCEPT ![j] = "write"]
  /\ UNCHANGED <<mode, parent, file, handler, pos, bad, got, history>>

(* write_all: the next chunk, once the pool is done with the one before.   *)
Submit(j) ==
  /\ phase[j] = "write"
  /\ pool[j] = "idle" /\ ~bad[j]
  /\ sent[j] < Chunks
  /\ sent' = [sent EXCEPT ![j] = @ + 1]
  /\ pool' = [pool EXCEPT ![j] = "write"]
  /\ UNCHANGED <<mode, parent, file, handler, pos, bad, got, history>>

(* Mutant: the flush is forgotten. *)
NoFlush(j) ==
  /\ phase[j] = "write"
  /\ sent[j] = Chunks
  /\ Return(j, "success")
  /\ UNCHANGED <<mode, parent, file, pool, sent, pos, bad, got, history>>

(* flush: awaits the last chunk. *)
Flush(j) ==
  /\ phase[j] = "write"
  /\ sent[j] = Chunks
  /\ pool[j] = "idle" /\ ~bad[j]
  /\ Return(j, "success")
  /\ UNCHANGED <<mode, parent, file, pool, sent, pos, bad, got, history>>

(* The write or the flush that follows a failed write returns its error.   *)
WriteError(j) ==
  /\ phase[j] = "write"
  /\ pool[j] = "idle" /\ bad[j]
  /\ Return(j, "failure")
  /\ UNCHANGED <<mode, parent, file, pool, sent, pos, bad, got, history>>

(* The worker's timeout drops the handler; the pool keeps its operation.   *)
TimeoutElapses(j) ==
  /\ phase[j] \notin {"new", "over"}
  /\ Return(j, "timeout")
  /\ UNCHANGED <<mode, parent, file, pool, sent, pos, bad, got, history>>

-----------------------------------------------------------------------------
(* The blocking pool.  When the handler still waits it goes on at once.    *)

(* The handler takes up the outcome, unless it was dropped: next operation *)
(* p, phase ph and, if it is over, its result r.                           *)
Resume(j, ph, p, r) ==
  IF phase[j] = "over"
    THEN /\ pool' = [pool EXCEPT ![j] = "idle"]
         /\ UNCHANGED handler
    ELSE /\ pool' = [pool EXCEPT ![j] = p]
         /\ phase' = [phase EXCEPT ![j] = ph]
         /\ result' = [result EXCEPT ![j] = r]

Fail(j) == Resume(j, "over", "idle", "failure")

(* j changes the file: noted for the others, and counted if it is late.    *)
(* What j itself has seen of others is then own.                           *)
Touch(j, own) ==
  /\ touched' = [k \in Jobs |-> IF k = j THEN own ELSE touched[k] \cup {j}]
  /\ late' = [late EXCEPT ![j] = IF result[j] = "timeout" THEN @ + 1 ELSE @]

OperationFails(j) ==
  /\ pool[j] \in {"mkdir", "open", "read"}
  /\ Fail(j)
  /\ UNCHANGED <<mode, parent, file, sent, pos, bad, got, history>>

MakeDir(j) ==
  /\ pool[j] = "mkdir"
  /\ parent' = TRUE
  /\ IF mode[j] = "unsupported" THEN Fail(j) ELSE Resume(j, "open", "open", "none")
  /\ UNCHANGED <<mode, file, sent, pos, bad, got, history>>

(* What opening makes of the file. *)
Opened(j) ==
  [overwrite |-> <<>>, append |-> content, create_only |-> <<>>][mode[j]]

(* Mutants: an existing file is not truncated; the file is created whether *)
(* or not it exists.                                                       *)
OpenWriteKeep(j) ==
  /\ pool[j] = "open" /\ mode[j] \in WriteModes
  /\ parent
  /\ mode[j] = "create_only" => ~exists
  /\ exists' = TRUE
  /\ UNCHANGED content
  /\ Touch(j, {})
  /\ Resume(j, "write", "idle", "none")
  /\ UNCHANGED <<mode, parent, sent, pos, bad, got, written>>

OpenWriteCreate(j) ==
  /\ pool[j] = "open" /\ mode[j] \in WriteModes
  /\ parent
  /\ exists' = TRUE
  /\ content' = Opened(j)
  /\ Touch(j, {})
  /\ Resume(j, "write", "idle", "none")
  /\ UNCHANGED <<mode, parent, sent, pos, bad, got, written>>

(* open(2) with O_TRUNC, O_APPEND, or O_EXCL.                              *)
OpenWrite(j) ==
  /\ pool[j] = "open" /\ mode[j] \in WriteModes
  /\ parent
  /\ mode[j] = "create_only" => ~exists
  /\ exists' = TRUE
  /\ content' = Opened(j)
  /\ Touch(j, {})
  /\ Resume(j, "write", "idle", "none")
  /\ UNCHANGED <<mode, parent, sent, pos, bad, got, written>>

(* Mutant: an append goes to the offset of its handle. *)
WrittenAtOffset(j) ==
  LET padded == content \o [i \in 1..(pos[j] - Len(content)) |-> <<"hole", 0>>]
  IN  IF pos[j] < Len(content)
        THEN [content EXCEPT ![pos[j] + 1] = <<j, sent[j]>>]
        ELSE Append(padded, <<j, sent[j]>>)

(* The file after the write of a chunk: at the end in append mode, else at *)
(* the offset of the handle, which may lie beyond a file truncated since.  *)
Written(j) ==
  LET padded == content \o [i \in 1..(pos[j] - Len(content)) |-> <<"hole", 0>>]
  IN  IF mode[j] = "append"     THEN Append(content, <<j, sent[j]>>)
      ELSE IF pos[j] < Len(content)
        THEN [content EXCEPT ![pos[j] + 1] = <<j, sent[j]>>]
        ELSE Append(padded, <<j, sent[j]>>)

WriteChunk(j) ==
  /\ pool[j] = "write"
  /\ content' = Written(j)
  /\ pos' = [pos EXCEPT ![j] = @ + 1]
  /\ written' = [written EXCEPT ![j] = @ \cup {sent[j]}]
  /\ Touch(j, touched[j])
  /\ pool' = [pool EXCEPT ![j] = "idle"]
  /\ UNCHANGED <<mode, parent, exists, handler, sent, bad, got>>

(* No space, a quota: part of the chunk may have reached the file all the  *)
(* same, and the handler learns of it at its next step only.               *)
WriteChunkFails(j) ==
  /\ pool[j] = "write"
  /\ Cardinality({k \in Jobs : bad[k]}) < MaxBad
  /\ bad' = [bad EXCEPT ![j] = TRUE]
  /\ pool' = [pool EXCEPT ![j] = "idle"]
  /\ \/ UNCHANGED <<content, touched, late>>
     \/ content' = Written(j) /\ Touch(j, touched[j])
  /\ UNCHANGED <<mode, parent, exists, handler, sent, pos, got, written>>

(* std::fs::read: one operation, which opens, and reads in several steps.  *)
OpenRead(j) ==
  /\ pool[j] = "open" /\ mode[j] = "read"
  /\ exists
  /\ pool' = [pool EXCEPT ![j] = "read"]
  /\ touched' = [touched EXCEPT ![j] = {}]
  /\ UNCHANGED <<mode, parent, file, handler, sent, pos, bad, got, written, late>>

ReadChunk(j) ==
  /\ pool[j] = "read"
  /\ Len(got[j]) < Len(content)
  /\ got' = [got EXCEPT ![j] = Append(@, content[Len(@) + 1])]
  /\ UNCHANGED <<mode, parent, file, handler, pool, sent, pos, bad, history>>

(* Mutant: a single read. *)
ReadShort(j) ==
  /\ pool[j] = "read"
  /\ \E r \in {"success", "failure"} : Resume(j, "over", "idle", r)
  /\ UNCHANGED <<mode, parent, file, sent, pos, bad, got, history>>

(* The end of the file.  Only now is it compared with max_bytes, and       *)
(* decoded: either may fail.                                               *)
ReadEnds(j) ==
  /\ pool[j] = "read"
  /\ Len(got[j]) >= Len(content)
  /\ \E r \in {"success", "failure"} : Resume(j, "over", "idle", r)
  /\ UNCHANGED <<mode, parent, file, sent, pos, bad, got, history>>

-----------------------------------------------------------------------------
Next ==
  \E j \in Jobs :
    \/ InvalidPayload(j) \/ Start(j) \/ Submit(j) \/ Flush(j) \/ WriteError(j)
    \/ TimeoutElapses(j)
    \/ OperationFails(j) \/ MakeDir(j) \/ OpenWrite(j) \/ WriteChunk(j)
    \/ WriteChunkFails(j) \/ OpenRead(j) \/ ReadChunk(j) \/ ReadEnds(j)

Spec == Init /\ [][Next]_vars

-----------------------------------------------------------------------------
Data == (Jobs \cup {"old", "hole"}) \X (0..Chunks)

TypeOK ==
  /\ mode \in [Jobs -> Modes]
  /\ parent \in BOOLEAN
  /\ exists \in BOOLEAN
  /\ content \in Seq(Data)
  /\ phase \in [Jobs -> {"new", "mkdir", "open", "write", "over"}]
  /\ pool \in [Jobs -> {"idle", "mkdir", "open", "write", "read"}]
  /\ sent \in [Jobs -> 0..Chunks]
  /\ pos \in [Jobs -> 0..Chunks]
  /\ bad \in [Jobs -> BOOLEAN]
  /\ got \in [Jobs -> Seq(Data)]
  /\ result \in [Jobs -> {"none", "success", "failure", "timeout"}]
  /\ written \in [Jobs -> SUBSET (1..Chunks)]
  /\ touched \in [Jobs -> SUBSET Jobs]
  /\ late \in [Jobs -> Nat]

Succeeds(j, m) == result[j] = "success" /\ mode[j] = m

(* create_only is the one mode that can serve for mutual exclusion: of     *)
(* several jobs at most one finds no file (fs_write.rs:48-50).             *)
AtMostOneCreates ==
  \A j, k \in Jobs :
    Succeeds(j, "create_only") /\ Succeeds(k, "create_only") => j = k

(* A success is reported when all of the content has reached the file, and *)
(* not when it was merely handed over (fs_write.rs:59-61).                 *)
SuccessIsWritten ==
  \A j \in Jobs :
    result[j] = "success" /\ mode[j] \in WriteModes => written[j] = 1..Chunks

(* Unless others change the file, it is what the job reports: nothing but  *)
(* the content, or with the content at its end.                            *)
UndisturbedIsWhole ==
  \A j \in Jobs : result[j] = "success" /\ touched[j] = {} =>
    /\ mode[j] \in {"overwrite", "create_only"} => content = Whole(j)
    /\ mode[j] = "append" => IsSuffix(Whole(j), content)

(* The file holds the chunks I of j, each of them once, in their order.    *)
HoldsInOrder(j, I) ==
  /\ \A i \in I : \E x \in DOMAIN content : content[x] = <<j, i>>
  /\ \A x, y \in DOMAIN content, i, k \in 1..Chunks :
       x < y /\ content[x] = <<j, i>> /\ content[y] = <<j, k>> => i < k

(* Concurrent appends lose nothing to each other, nor the order of a job's *)
(* own chunks, though the chunks of several jobs may mix.                  *)
AppendsSurvive ==
  \A j \in Jobs :
    Succeeds(j, "append") /\ (\A k \in touched[j] : mode[k] = "append") =>
      HoldsInOrder(j, 1..Chunks)

(* A read that nobody disturbed returns the whole file (fs_read.rs:13).    *)
UndisturbedRead ==
  \A j \in Jobs :
    Succeeds(j, "read") /\ touched[j] = {} => got[j] = content

(* After its timeout was reported a job changes the file once more at the  *)
(* most: what was on the pool, and nothing that was still to come.         *)
OneLateChange == \A j \in Jobs : late[j] <= 1
=============================================================================
