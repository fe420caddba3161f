---------------------------- MODULE FilesProofs -----------------------------
(***************************************************************************)
(* Jobs on one file, any number of them and any length of what they write. *)
(* The invariant follows each job through its operations: what it has      *)
(* handed over and what of it reached the file, the one operation that can *)
(* outlive its timeout, and, as long as nobody else changed the file, what *)
(* the file holds.                                                         *)
(***************************************************************************)
EXTENDS Files, SequenceTheorems, TLAPS

(* The handler and the pool agree on where the job stands.                 *)
Stages(j) ==
  /\ phase[j] = "over" <=> result[j] # "none"
  /\ phase[j] = "new" => pool[j] = "idle"
  /\ result[j] = "success" => pool[j] = "idle"
  /\ pool[j] = "read" => mode[j] = "read"
  /\ phase[j] = "write" \/ pool[j] = "write" => mode[j] \in WriteModes
  /\ phase[j] = "write" => pool[j] \in {"idle", "write"}
  /\ phase[j] = "new" \/ pool[j] \in {"mkdir", "open"} =>
       sent[j] = 0 /\ ~bad[j] /\ got[j] = <<>>

(* What the pool is done with of the chunks handed over. *)
Settled(j) == IF pool[j] = "write" THEN sent[j] - 1 ELSE sent[j]

Counts(j) ==
  /\ pool[j] = "write" => sent[j] > 0 /\ ~bad[j]
  /\ ~bad[j] => written[j] = 1..Settled(j) /\ pos[j] = Settled(j)
  /\ result[j] = "success" /\ mode[j] \in WriteModes => sent[j] = Chunks /\ ~bad[j]

(* What comes after a timeout is the last operation on the pool. *)
LateOnce(j) ==
  late[j] = 0 \/ (late[j] = 1 /\ pool[j] = "idle" /\ phase[j] = "over")

(* The job that made the file with create_only. *)
Created(j) == mode[j] = "create_only" /\ (phase[j] = "write" \/ result[j] = "success")

OneCreator ==
  /\ \A j \in Jobs : Created(j) => exists
  /\ \A j, k \in Jobs : Created(j) /\ Created(k) => j = k

IInv ==
  /\ TypeOK
  /\ \A j \in Jobs : Stages(j) /\ Counts(j) /\ LateOnce(j)
  /\ OneCreator

-----------------------------------------------------------------------------
(* The file that a write leaves is a file. *)
LEMMA WrittenTyped ==
  ASSUME TypeOK, NEW j \in Jobs
  PROVE  Written(j) \in Seq(Data)
<1> DEFINE n == pos[j] - Len(content)
           holes == [i \in 1..n |-> <<"hole", 0>>]
           x == <<j, sent[j]>>
<1>1. content \in Seq(Data) /\ pos[j] \in Nat /\ Chunks \in Nat
  BY FilesAssumption DEF TypeOK
<1>2. <<"hole", 0>> \in Data /\ x \in Data
  BY <1>1 DEF Data, TypeOK
<1>3. Len(content) \in Nat /\ n \in Int
  BY <1>1
<1> HIDE DEF n, x
<1>4. holes \in Seq(Data)
  <2>1. CASE n \in Nat
    BY <1>2, <2>1, IsASeq
  <2>2. CASE n \notin Nat
    <3>1. 1..n = 1..0
      BY <1>3, <2>2
    <3>2. holes \in [1..n -> Data]
      BY <1>2
    <3> HIDE DEF holes
    <3>3. holes \in [1..0 -> Data]
      BY <3>1, <3>2
    <3>4. QED  BY <3>3, SeqDef
  <2>3. QED  BY <2>1, <2>2
<1> HIDE DEF holes
<1>5. content \o holes \in Seq(Data)
  BY <1>1, <1>4, ConcatProperties
<1>6. Append(content \o holes, x) \in Seq(Data)
  BY <1>2, <1>5, AppendProperties
<1>7. Append(content, x) \in Seq(Data)
  BY <1>1, <1>2, AppendProperties
<1>8. pos[j] < Len(content) => [content EXCEPT ![pos[j] + 1] = x] \in Seq(Data)
  <2>1. pos[j] < Len(content) => pos[j] + 1 \in 1..Len(content)
    BY <1>1, <1>3
  <2>2. QED  BY <1>1, <1>2, <2>1, ExceptSeq
<1>9. QED  BY <1>6, <1>7, <1>8 DEF Written, holes, n, x

(* The invariant holds initially. *)
LEMMA InitIInv == Init => IInv
<1> SUFFICES ASSUME Init PROVE IInv
  OBVIOUS
<1>1. Chunks \in Nat \ {0} /\ OldSize \in Nat
  BY FilesAssumption
<1>2. content \in Seq(Data)
  <2>1. <<"old", 0>> \in Data
    BY <1>1 DEF Data
  <2>2. [i \in 1..OldSize |-> <<"old", 0>>] \in Seq(Data)
    BY <1>1, <2>1, IsASeq
  <2>3. QED  BY <2>2 DEF Init
<1>3. TypeOK
  <2>1. mode \in [Jobs -> Modes] /\ parent \in BOOLEAN /\ exists \in BOOLEAN
    BY DEF Init
  <2>2. /\ phase \in [Jobs -> {"new", "mkdir", "open", "write", "over"}]
        /\ pool \in [Jobs -> {"idle", "mkdir", "open", "write", "read"}]
        /\ result \in [Jobs -> {"none", "success", "failure", "timeout"}]
    BY DEF Init
  <2>3. sent \in [Jobs -> 0..Chunks] /\ pos \in [Jobs -> 0..Chunks] /\ late \in [Jobs -> Nat]
    BY <1>1 DEF Init
  <2>4. /\ bad \in [Jobs -> BOOLEAN] /\ got \in [Jobs -> Seq(Data)]
        /\ written \in [Jobs -> SUBSET (1..Chunks)] /\ touched \in [Jobs -> SUBSET Jobs]
    BY DEF Init
  <2>5. QED  BY <1>2, <2>1, <2>2, <2>3, <2>4 DEF TypeOK
<1>4. \A j \in Jobs : Stages(j) /\ Counts(j) /\ LateOnce(j) /\ ~Created(j)
  BY <1>1 DEF Init, Stages, Counts, Settled, LateOnce, Created
<1>5. QED  BY <1>3, <1>4 DEF IInv, OneCreator

USE DEF handler, file, history

(* A step of the handler's between two operations keeps the invariant.     *)
LEMMA HandlerStep ==
  ASSUME IInv, NEW j \in Jobs,
         InvalidPayload(j) \/ Start(j) \/ Submit(j) \/ Flush(j) \/ WriteError(j)
           \/ TimeoutElapses(j)
  PROVE  IInv'
<1>0. Chunks \in Nat \ {0}
  BY FilesAssumption
<1>1. TypeOK /\ \A k \in Jobs : Stages(k) /\ Counts(k) /\ LateOnce(k)
  BY DEF IInv
<1>2. UNCHANGED <<mode, exists, content, pos, bad, got, written, touched, late>>
  BY DEF InvalidPayload, Start, Submit, Flush, WriteError, TimeoutElapses
<1>3. \A k \in Jobs \ {j} : /\ phase'[k] = phase[k] /\ pool'[k] = pool[k]
                            /\ sent'[k] = sent[k] /\ result'[k] = result[k]
  BY <1>1 DEF InvalidPayload, Start, Submit, Flush, WriteError, TimeoutElapses,
              Await, Return, TypeOK
<1>4. TypeOK'
  <2>1. CASE InvalidPayload(j)
    BY <1>1, <1>2, <2>1 DEF InvalidPayload, Return, TypeOK
  <2>2. CASE Start(j)
    <3>1. UNCHANGED <<parent, sent>>
      BY <2>2 DEF Start
    <3>2. /\ phase' \in [Jobs -> {"new", "mkdir", "open", "write", "over"}]
          /\ pool' \in [Jobs -> {"idle", "mkdir", "open", "write", "read"}]
          /\ result' \in [Jobs -> {"none", "success", "failure", "timeout"}]
      <4>1. CASE \E op \in {"mkdir", "open"} : Await(j, op)
        BY <1>1, <4>1 DEF Await, TypeOK
      <4>2. CASE Return(j, "failure") /\ UNCHANGED pool
        BY <1>1, <4>2 DEF Return, TypeOK
      <4>3. QED  BY <2>2, <4>1, <4>2 DEF Start
    <3>3. QED  BY <1>1, <1>2, <3>1, <3>2 DEF TypeOK
  <2>3. CASE Submit(j)
    <3>1. sent[j] + 1 \in 0..Chunks
      BY <1>0, <1>1, <2>3 DEF Submit, TypeOK
    <3>2. QED  BY <1>1, <1>2, <2>3, <3>1 DEF Submit, TypeOK
  <2>4. CASE Flush(j)
    BY <1>1, <1>2, <2>4 DEF Flush, Return, TypeOK
  <2>5. CASE WriteError(j)
    BY <1>1, <1>2, <2>5 DEF WriteError, Return, TypeOK
  <2>6. CASE TimeoutElapses(j)
    BY <1>1, <1>2, <2>6 DEF TimeoutElapses, Return, TypeOK
  <2>7. QED  BY <2>1, <2>2, <2>3, <2>4, <2>5, <2>6
<1>5. \A k \in Jobs \ {j} : Stages(k)' /\ Counts(k)' /\ LateOnce(k)'
  BY <1>1, <1>2, <1>3 DEF Stages, Counts, Settled, LateOnce
<1>6. Stages(j)' /\ Counts(j)' /\ LateOnce(j)'
  <2>1. CASE InvalidPayload(j)
    BY <1>0, <1>1, <1>2, <2>1 DEF InvalidPayload, Return, TypeOK, Stages, Counts, Settled, LateOnce
  <2>2. CASE Start(j)
    BY <1>0, <1>1, <1>2, <2>2 DEF Start, Await, Return, TypeOK, Stages, Counts, Settled, LateOnce, WriteModes
  <2>3. CASE Submit(j)
    BY <1>0, <1>1, <1>2, <2>3 DEF Submit, TypeOK, Stages, Counts, Settled, LateOnce
  <2>4. CASE Flush(j)
    BY <1>0, <1>1, <1>2, <2>4 DEF Flush, Return, TypeOK, Stages, Counts, Settled, LateOnce
  <2>5. CASE WriteError(j)
    BY <1>0, <1>1, <1>2, <2>5 DEF WriteError, Return, TypeOK, Stages, Counts, Settled, LateOnce
  <2>6. CASE TimeoutElapses(j)
    BY <1>0, <1>1, <1>2, <2>6 DEF TimeoutElapses, Return, TypeOK, Stages, Counts, Settled, LateOnce
  <2>7. QED  BY <2>1, <2>2, <2>3, <2>4, <2>5, <2>6
<1>7. \A k \in Jobs : Created(k)' => Created(k)
  BY <1>1, <1>2, <1>3 DEF InvalidPayload, Start, Submit, Flush, WriteError, TimeoutElapses,
              Await, Return, TypeOK, Created, Stages, WriteModes
<1>8. QED  BY <1>2, <1>4, <1>5, <1>6, <1>7 DEF IInv, OneCreator

(* What the invariant says of a job depends on that job alone. *)
LEMMA Others ==
  ASSUME IInv, NEW j \in Jobs, UNCHANGED mode,
         \A k \in Jobs \ {j} :
           /\ phase'[k] = phase[k] /\ pool'[k] = pool[k] /\ result'[k] = result[k]
           /\ sent'[k] = sent[k] /\ pos'[k] = pos[k] /\ bad'[k] = bad[k]
           /\ got'[k] = got[k] /\ written'[k] = written[k] /\ late'[k] = late[k]
  PROVE  \A k \in Jobs \ {j} : Stages(k)' /\ Counts(k)' /\ LateOnce(k)'
BY DEF IInv, Stages, Counts, Settled, LateOnce

(* An operation of the pool that leaves the content of the file keeps the  *)
(* invariant.                                                              *)
LEMMA QuietStep ==
  ASSUME IInv, NEW j \in Jobs,
         OperationFails(j) \/ MakeDir(j) \/ OpenRead(j) \/ ReadChunk(j) \/ ReadEnds(j)
  PROVE  IInv'
<1>0. Chunks \in Nat \ {0}
  BY FilesAssumption
<1>1. TypeOK /\ \A k \in Jobs : Stages(k) /\ Counts(k) /\ LateOnce(k)
  BY DEF IInv
<1>2. UNCHANGED <<mode, exists, content, sent, pos, bad, written, late>>
  BY DEF OperationFails, MakeDir, OpenRead, ReadChunk, ReadEnds
<1>3. \A k \in Jobs \ {j} : /\ phase'[k] = phase[k] /\ pool'[k] = pool[k]
                            /\ got'[k] = got[k] /\ result'[k] = result[k]
  BY <1>1 DEF OperationFails, MakeDir, OpenRead, ReadChunk, ReadEnds, Fail, Resume, TypeOK
<1>4. TypeOK'
  <2>1. CASE OperationFails(j)
    BY <1>1, <1>2, <2>1 DEF OperationFails, Fail, Resume, TypeOK
  <2>2. CASE MakeDir(j)
    BY <1>1, <1>2, <2>2 DEF MakeDir, Fail, Resume, TypeOK
  <2>3. CASE OpenRead(j)
    BY <1>1, <1>2, <2>3 DEF OpenRead, TypeOK
  <2>4. CASE ReadChunk(j)
    <3>1. /\ content \in Seq(Data) /\ got[j] \in Seq(Data) /\ Len(got[j]) < Len(content)
          /\ got' = [got EXCEPT ![j] = Append(got[j], content[Len(got[j]) + 1])]
      BY <1>1, <2>4 DEF ReadChunk, TypeOK
    <3>2. content[Len(got[j]) + 1] \in Data
      BY <3>1
    <3>3. Append(got[j], content[Len(got[j]) + 1]) \in Seq(Data)
      BY <3>1, <3>2, AppendProperties
    <3>4. got' \in [Jobs -> Seq(Data)]
      BY <1>1, <3>1, <3>3 DEF TypeOK
    <3>5. QED  BY <1>1, <1>2, <2>4, <3>4 DEF ReadChunk, TypeOK
  <2>5. CASE ReadEnds(j)
    <3>1. PICK r \in {"success", "failure"} : Resume(j, "over", "idle", r)
      BY <2>5 DEF ReadEnds
    <3>2. /\ phase' \in [Jobs -> {"new", "mkdir", "open", "write", "over"}]
          /\ pool' \in [Jobs -> {"idle", "mkdir", "open", "write", "read"}]
          /\ result' \in [Jobs -> {"none", "success", "failure", "timeout"}]
      BY <1>1, <3>1 DEF Resume, TypeOK
    <3>3. QED  BY <1>1, <1>2, <2>5, <3>2 DEF ReadEnds, TypeOK
  <2>6. QED  BY <2>1, <2>2, <2>3, <2>4, <2>5
<1>5. \A k \in Jobs \ {j} : Stages(k)' /\ Counts(k)' /\ LateOnce(k)'
  BY <1>2, <1>3, Others
<1>6. Stages(j)' /\ Counts(j)' /\ LateOnce(j)'
  <2>1. CASE OperationFails(j)
    BY <1>1, <1>2, <2>1 DEF OperationFails, Fail, Resume, TypeOK, Stages, Counts, Settled, LateOnce
  <2>2. CASE MakeDir(j)
    BY <1>1, <1>2, <2>2 DEF MakeDir, Fail, Resume, TypeOK, Stages, Counts, Settled, LateOnce
  <2>3. CASE OpenRead(j)
    BY <1>1, <1>2, <2>3 DEF OpenRead, TypeOK, Stages, Counts, Settled, LateOnce
  <2>4. CASE ReadChunk(j)
    BY <1>1, <1>2, <2>4 DEF ReadChunk, TypeOK, Stages, Counts, Settled, LateOnce
  <2>5. CASE ReadEnds(j)
    BY <1>1, <1>2, <2>5 DEF ReadEnds, Resume, TypeOK, Stages, Counts, Settled, LateOnce, WriteModes
  <2>6. QED  BY <2>1, <2>2, <2>3, <2>4, <2>5
<1>7. \A k \in Jobs : Created(k)' => Created(k)
  <2>1. \A k \in Jobs \ {j} : Created(k)' => Created(k)
    BY <1>2, <1>3 DEF Created
  <2>2. Created(j)' => Created(j)
    BY <1>1, <1>2 DEF OperationFails, MakeDir, OpenRead, ReadChunk, ReadEnds, Fail, Resume,
                      TypeOK, Created, Stages
  <2>3. QED  BY <2>1, <2>2
<1>8. QED  BY <1>2, <1>4, <1>5, <1>6, <1>7 DEF IInv, OneCreator

(* Opening the file for writing keeps the invariant. *)
LEMMA OpenStep ==
  ASSUME IInv, NEW j \in Jobs, OpenWrite(j)
  PROVE  IInv'
<1>1. TypeOK /\ \A k \in Jobs : Stages(k) /\ Counts(k) /\ LateOnce(k)
  BY DEF IInv
<1>2. /\ UNCHANGED <<mode, parent, sent, pos, bad, got, written>>
      /\ pool[j] = "open" /\ mode[j] \in WriteModes /\ exists'
      /\ mode[j] = "create_only" => ~exists
  BY DEF OpenWrite
<1>3. \A k \in Jobs \ {j} : /\ phase'[k] = phase[k] /\ pool'[k] = pool[k]
                            /\ result'[k] = result[k] /\ late'[k] = late[k]
  BY <1>1 DEF OpenWrite, Resume, Touch, TypeOK
<1>4. TypeOK'
  <2>1. content' \in {<<>>, content} /\ exists' = TRUE
    BY <1>2 DEF OpenWrite, Opened, WriteModes
  <2>2. content' \in Seq(Data)
    <3>1. <<>> \in Seq(Data)
      BY EmptySeq
    <3>2. content \in Seq(Data)
      BY <1>1 DEF TypeOK
    <3>3. QED  BY <2>1, <3>1, <3>2
  <2>3. touched' \in [Jobs -> SUBSET Jobs]
    BY <1>1 DEF OpenWrite, Touch, TypeOK
  <2>4. late[j] \in Nat /\ late' = [late EXCEPT ![j] = IF result[j] = "timeout" THEN @ + 1 ELSE @]
    BY <1>1 DEF OpenWrite, Touch, TypeOK
  <2>5. late' \in [Jobs -> Nat]
    BY <1>1, <2>4 DEF TypeOK
  <2>6. /\ phase' \in [Jobs -> {"new", "mkdir", "open", "write", "over"}]
        /\ pool' \in [Jobs -> {"idle", "mkdir", "open", "write", "read"}]
        /\ result' \in [Jobs -> {"none", "success", "failure", "timeout"}]
    BY <1>1 DEF OpenWrite, Resume, TypeOK
  <2>7. QED  BY <1>1, <1>2, <2>1, <2>2, <2>3, <2>5, <2>6 DEF TypeOK
<1>5. \A k \in Jobs \ {j} : Stages(k)' /\ Counts(k)' /\ LateOnce(k)'
  BY <1>2, <1>3, Others
<1>6. Stages(j)' /\ Counts(j)' /\ LateOnce(j)'
  <2>1. pool'[j] = "idle" /\ late[j] = 0 /\ late'[j] \in {0, 1}
    BY <1>1, <1>2 DEF OpenWrite, Resume, Touch, TypeOK, LateOnce
  <2>2. CASE phase[j] = "over"
    BY <1>1, <1>2, <2>1, <2>2 DEF OpenWrite, Resume, TypeOK, Stages, Counts, Settled, LateOnce
  <2>3. CASE phase[j] # "over"
    <3>1. phase'[j] = "write" /\ result'[j] = "none"
      BY <1>1, <2>3 DEF OpenWrite, Resume, TypeOK
    <3>2. late'[j] = 0
      BY <1>1, <2>1, <2>3 DEF OpenWrite, Touch, TypeOK, Stages
    <3>3. QED  BY <1>1, <1>2, <2>1, <3>1, <3>2 DEF Stages, Counts, Settled, LateOnce
  <2>4. QED  BY <2>2, <2>3
<1>7. OneCreator'
  <2>1. \A k \in Jobs \ {j} : Created(k)' => Created(k)
    BY <1>2, <1>3 DEF Created
  <2>2. Created(j)' => mode[j] = "create_only"
    BY <1>2 DEF Created
  <2>3. mode[j] = "create_only" => \A k \in Jobs : ~Created(k)
    BY <1>2 DEF IInv, OneCreator
  <2>4. QED  BY <1>2, <2>1, <2>2, <2>3 DEF IInv, OneCreator
<1>8. QED  BY <1>4, <1>5, <1>6, <1>7 DEF IInv

(* A write, whole or failed, keeps the invariant. *)
LEMMA WriteStep ==
  ASSUME IInv, NEW j \in Jobs, WriteChunk(j) \/ WriteChunkFails(j)
  PROVE  IInv'
<1>0. Chunks \in Nat \ {0}
  BY FilesAssumption
<1>1. TypeOK /\ \A k \in Jobs : Stages(k) /\ Counts(k) /\ LateOnce(k)
  BY DEF IInv
<1>2. /\ UNCHANGED <<mode, parent, exists, phase, result, sent, got>>
      /\ pool[j] = "write" /\ pool' = [pool EXCEPT ![j] = "idle"]
  BY DEF WriteChunk, WriteChunkFails
<1>3. \A k \in Jobs \ {j} : /\ pool'[k] = pool[k] /\ pos'[k] = pos[k] /\ bad'[k] = bad[k]
                            /\ written'[k] = written[k] /\ late'[k] = late[k]
  BY <1>1 DEF WriteChunk, WriteChunkFails, Touch, TypeOK
<1>4. /\ sent[j] \in 1..Chunks /\ ~bad[j] /\ late[j] = 0
      /\ written[j] = 1..(sent[j] - 1) /\ pos[j] = sent[j] - 1
  BY <1>0, <1>1, <1>2 DEF TypeOK, Counts, Settled, LateOnce
<1>5. late' \in {late, [late EXCEPT ![j] = IF result[j] = "timeout" THEN @ + 1 ELSE @]}
  BY DEF WriteChunk, WriteChunkFails, Touch
<1>6. TypeOK'
  <2>1. content' \in Seq(Data)
    BY <1>1, WrittenTyped DEF WriteChunk, WriteChunkFails, TypeOK
  <2>2. touched' \in [Jobs -> SUBSET Jobs]
    <3>1. touched' = touched
            \/ touched' = [k \in Jobs |-> IF k = j THEN touched[j] ELSE touched[k] \cup {j}]
      BY DEF WriteChunk, WriteChunkFails, Touch
    <3>2. \A k \in Jobs : touched[k] \in SUBSET Jobs /\ touched[k] \cup {j} \in SUBSET Jobs
      BY <1>1 DEF TypeOK
    <3>3. touched \in [Jobs -> SUBSET Jobs]
      BY <1>1 DEF TypeOK
    <3>4. QED  BY <3>1, <3>2, <3>3
  <2>3. late' \in [Jobs -> Nat]
    <3>1. late \in [Jobs -> Nat] /\ late[j] + 1 \in Nat
      BY <1>1, <1>4 DEF TypeOK
    <3>2. QED  BY <1>5, <3>1
  <2>4. pos' \in [Jobs -> 0..Chunks]
    <3>1. pos[j] + 1 \in 0..Chunks
      BY <1>0, <1>4
    <3>2. QED  BY <1>1, <3>1 DEF WriteChunk, WriteChunkFails, TypeOK
  <2>5. written' \in [Jobs -> SUBSET (1..Chunks)]
    <3>1. written' = written \/ written' = [written EXCEPT ![j] = written[j] \cup {sent[j]}]
      BY DEF WriteChunk, WriteChunkFails
    <3>2. written[j] \cup {sent[j]} \in SUBSET (1..Chunks)
      BY <1>1, <1>4 DEF TypeOK
    <3>3. written \in [Jobs -> SUBSET (1..Chunks)]
      BY <1>1 DEF TypeOK
    <3>4. QED  BY <3>1, <3>2, <3>3
  <2>6. bad' \in [Jobs -> BOOLEAN]
    BY <1>1 DEF WriteChunk, WriteChunkFails, TypeOK
  <2>7. pool' \in [Jobs -> {"idle", "mkdir", "open", "write", "read"}]
    BY <1>1, <1>2 DEF TypeOK
  <2>8. QED  BY <1>1, <1>2, <2>1, <2>2, <2>3, <2>4, <2>5, <2>6, <2>7 DEF TypeOK
<1>7. \A k \in Jobs \ {j} : Stages(k)' /\ Counts(k)' /\ LateOnce(k)'
  BY <1>2, <1>3, Others
<1>8. pool'[j] = "idle"
  BY <1>1, <1>2 DEF TypeOK
<1>9. Stages(j)'
  BY <1>1, <1>2, <1>8 DEF Stages
<1>10. LateOnce(j)'
  <2>1. CASE phase[j] = "over"
    BY <1>1, <1>2, <1>4, <1>5, <1>8, <2>1 DEF TypeOK, LateOnce
  <2>2. CASE phase[j] # "over"
    BY <1>1, <1>4, <1>5, <2>2 DEF TypeOK, LateOnce, Stages
  <2>3. QED  BY <2>1, <2>2
<1>11. Counts(j)'
  <2>1. result[j] # "success"
    BY <1>1, <1>2 DEF Stages
  <2>2. CASE WriteChunk(j)
    <3>1. bad'[j] = bad[j] /\ pos'[j] = pos[j] + 1 /\ written'[j] = written[j] \cup {sent[j]}
      BY <1>1, <2>2 DEF WriteChunk, TypeOK
    <3>2. written'[j] = 1..sent[j] /\ pos'[j] = sent[j]
      BY <1>0, <1>4, <3>1
    <3>3. QED  BY <1>2, <1>8, <2>1, <3>2 DEF Counts, Settled
  <2>3. CASE WriteChunkFails(j)
    <3>1. bad'[j] = TRUE
      BY <1>1, <2>3 DEF WriteChunkFails, TypeOK
    <3>2. QED  BY <1>2, <1>8, <2>1, <3>1 DEF Counts, Settled
  <2>4. QED  BY <2>2, <2>3
<1>12. OneCreator'
  BY <1>2 DEF IInv, OneCreator, Created
<1>13. QED  BY <1>6, <1>7, <1>9, <1>10, <1>11, <1>12 DEF IInv

-----------------------------------------------------------------------------
(* The invariant is inductive. *)
THEOREM Inductive == Spec => []IInv
<1>1. Init => IInv
  BY InitIInv
<1>2. IInv /\ [Next]_vars => IInv'
  <2> SUFFICES ASSUME IInv, [Next]_vars PROVE IInv'
    OBVIOUS
  <2>1. ASSUME NEW j \in Jobs,
               InvalidPayload(j) \/ Start(j) \/ Submit(j) \/ Flush(j) \/ WriteError(j)
                 \/ TimeoutElapses(j)
        PROVE  IInv'
    BY <2>1, HandlerStep
  <2>2. ASSUME NEW j \in Jobs,
               OperationFails(j) \/ MakeDir(j) \/ OpenRead(j) \/ ReadChunk(j) \/ ReadEnds(j)
        PROVE  IInv'
    BY <2>2, QuietStep
  <2>3. ASSUME NEW j \in Jobs, OpenWrite(j) PROVE IInv'
    BY <2>3, OpenStep
  <2>4. ASSUME NEW j \in Jobs, WriteChunk(j) \/ WriteChunkFails(j) PROVE IInv'
    BY <2>4, WriteStep
  <2>5. CASE UNCHANGED vars
    BY <2>5 DEF vars, IInv, TypeOK, Stages, Counts, Settled, LateOnce, OneCreator, Created
  <2>6. QED  BY <2>1, <2>2, <2>3, <2>4, <2>5 DEF Next
<1>3. QED  BY <1>1, <1>2, PTL DEF Spec

(* The variables keep their types. *)
THEOREM TypeCorrect == Spec => []TypeOK
<1>1. IInv => TypeOK
  BY DEF IInv
<1>2. QED  BY <1>1, Inductive, PTL

(* At most one job succeeds with create_only (fs_write.rs:48-50).          *)
THEOREM CreatesOnce == Spec => []AtMostOneCreates
<1>1. IInv => AtMostOneCreates
  BY DEF IInv, OneCreator, Created, AtMostOneCreates, Succeeds
<1>2. QED  BY <1>1, Inductive, PTL

(* A success means that every chunk reached the file (fs_write.rs:59-61).  *)
THEOREM SuccessMeansWritten == Spec => []SuccessIsWritten
<1>1. IInv => SuccessIsWritten
  BY DEF IInv, Stages, Counts, Settled, SuccessIsWritten
<1>2. QED  BY <1>1, Inductive, PTL

(* After its timeout a job changes the file once more at the most.         *)
THEOREM LateAtMostOnce == Spec => []OneLateChange
<1>1. IInv => OneLateChange
  BY DEF IInv, LateOnce, OneLateChange
<1>2. QED  BY <1>1, Inductive, PTL

-----------------------------------------------------------------------------
(* As long as nobody else has changed the file since j opened it, the file *)
(* ends in what j wrote, and is just that in the modes that start afresh;  *)
(* and what j has read is the file as far as j has read.                   *)
Writing(j) == phase[j] = "write" \/ result[j] = "success"
HasRead(j) == result[j] = "success" /\ mode[j] = "read"

EndsInOwn(j) ==
  /\ pos[j] <= Len(content)
  /\ mode[j] # "append" => Len(content) = pos[j]
  /\ \A i \in 1..pos[j] : content[Len(content) - pos[j] + i] = <<j, i>>

ReadSoFar(j) ==
  /\ Len(got[j]) <= Len(content)
  /\ \A i \in 1..Len(got[j]) : got[j][i] = content[i]

Undisturbed(j) ==
  touched[j] = {} =>
    /\ mode[j] \in WriteModes /\ ~bad[j] /\ Writing(j) => EndsInOwn(j)
    /\ pool[j] = "read" \/ HasRead(j) => ReadSoFar(j)
    /\ HasRead(j) => Len(got[j]) = Len(content)

Own == \A j \in Jobs : Undisturbed(j)

(* A write by a job that nobody disturbed appends its chunk.               *)
LEMMA WrittenAppends ==
  ASSUME TypeOK, NEW j \in Jobs, mode[j] # "append" => Len(content) = pos[j]
  PROVE  Written(j) = Append(content, <<j, sent[j]>>)
<1>1. CASE mode[j] = "append"
  BY <1>1 DEF Written
<1>2. CASE mode[j] # "append"
  <2>1. content \in Seq(Data) /\ Len(content) = pos[j] /\ Len(content) \in Nat
    BY <1>2 DEF TypeOK
  <2>2. ~(pos[j] < Len(content))
    BY <2>1
  <2> DEFINE holes == [i \in 1..(pos[j] - Len(content)) |-> <<"hole", 0>>]
  <2>3. 1..(pos[j] - Len(content)) = 1..0
    BY <2>1
  <2>4. holes \in [1..(pos[j] - Len(content)) -> Data] /\ <<"hole", 0>> \in Data
    BY FilesAssumption DEF Data
  <2>5. Written(j) = Append(content \o holes, <<j, sent[j]>>)
    BY <1>2, <2>2 DEF Written
  <2> HIDE DEF holes
  <2>6. holes \in [1..0 -> Data]
    BY <2>3, <2>4
  <2>7. holes \in Seq(Data) /\ holes = <<>>
    BY <2>6, SeqDef
  <2>8. content \o holes = content
    BY <2>1, <2>7, ConcatEmptySeq
  <2>9. QED  BY <2>5, <2>8
<1>3. QED  BY <1>1, <1>2

(* A job that is not the one that steps: either it is disturbed now, or    *)
(* nothing changed for it.                                                 *)
LEMMA OwnOfOthers ==
  ASSUME Own, NEW k \in Jobs, UNCHANGED mode,
         \/ touched'[k] # {}
         \/ /\ content' = content /\ touched'[k] = touched[k]
            /\ phase'[k] = phase[k] /\ pool'[k] = pool[k] /\ result'[k] = result[k]
            /\ pos'[k] = pos[k] /\ bad'[k] = bad[k] /\ got'[k] = got[k]
  PROVE  Undisturbed(k)'
BY DEF Own, Undisturbed, Writing, HasRead, EndsInOwn, ReadSoFar

(* Steps of the handler change nothing of this. *)
LEMMA HandlerKeepsOwn ==
  ASSUME IInv, Own, NEW j \in Jobs,
         InvalidPayload(j) \/ Start(j) \/ Submit(j) \/ Flush(j) \/ WriteError(j)
           \/ TimeoutElapses(j)
  PROVE  Own'
<1>1. TypeOK /\ Stages(j) /\ Undisturbed(j)
  BY DEF IInv, Own
<1>2. UNCHANGED <<mode, content, pos, bad, got, touched>>
  BY DEF InvalidPayload, Start, Submit, Flush, WriteError, TimeoutElapses
<1>3. \A k \in Jobs \ {j} : phase'[k] = phase[k] /\ pool'[k] = pool[k] /\ result'[k] = result[k]
  BY <1>1 DEF InvalidPayload, Start, Submit, Flush, WriteError, TimeoutElapses,
              Await, Return, TypeOK
<1>4. \A k \in Jobs \ {j} : Undisturbed(k)'
  BY <1>2, <1>3, OwnOfOthers
<1>5. /\ Writing(j)' => Writing(j)
      /\ pool'[j] = "read" => pool[j] = "read"
      /\ HasRead(j)' => HasRead(j)
  <2>1. CASE InvalidPayload(j)
    BY <1>1, <1>2, <2>1 DEF InvalidPayload, Return, TypeOK, Writing, HasRead
  <2>2. CASE Start(j)
    BY <1>1, <1>2, <2>2 DEF Start, Await, Return, TypeOK, Writing, HasRead, Stages
  <2>3. CASE Submit(j)
    BY <1>1, <1>2, <2>3 DEF Submit, TypeOK, Writing, HasRead
  <2>4. CASE Flush(j)
    BY <1>1, <1>2, <2>4 DEF Flush, Return, TypeOK, Writing, HasRead, Stages, WriteModes
  <2>5. CASE WriteError(j)
    BY <1>1, <1>2, <2>5 DEF WriteError, Return, TypeOK, Writing, HasRead
  <2>6. CASE TimeoutElapses(j)
    BY <1>1, <1>2, <2>6 DEF TimeoutElapses, Return, TypeOK, Writing, HasRead
  <2>7. QED  BY <2>1, <2>2, <2>3, <2>4, <2>5, <2>6
<1>6. EndsInOwn(j)' <=> EndsInOwn(j)
  BY <1>2 DEF EndsInOwn
<1>7. ReadSoFar(j)' <=> ReadSoFar(j)
  BY <1>2 DEF ReadSoFar
<1>8. Undisturbed(j)'
  BY <1>1, <1>2, <1>5, <1>6, <1>7 DEF Undisturbed
<1>9. QED  BY <1>4, <1>8 DEF Own

(* Nor do operations that leave the file; what is read is the file.        *)
LEMMA QuietKeepsOwn ==
  ASSUME IInv, Own, NEW j \in Jobs,
         OperationFails(j) \/ MakeDir(j) \/ OpenRead(j) \/ ReadChunk(j) \/ ReadEnds(j)
  PROVE  Own'
<1>1. TypeOK /\ Stages(j) /\ Undisturbed(j)
  BY DEF IInv, Own
<1>2. UNCHANGED <<mode, content, pos, bad>>
  BY DEF OperationFails, MakeDir, OpenRead, ReadChunk, ReadEnds
<1>3. \A k \in Jobs \ {j} : /\ phase'[k] = phase[k] /\ pool'[k] = pool[k]
                            /\ result'[k] = result[k] /\ got'[k] = got[k]
                            /\ touched'[k] = touched[k]
  BY <1>1 DEF OperationFails, MakeDir, OpenRead, ReadChunk, ReadEnds, Fail, Resume, TypeOK
<1>4. \A k \in Jobs \ {j} : Undisturbed(k)'
  BY <1>2, <1>3, OwnOfOthers
<1>5. /\ pool[j] # "idle" /\ result[j] # "success"
      /\ phase[j] # "write" \/ pool[j] = "write"
  BY <1>1 DEF OperationFails, MakeDir, OpenRead, ReadChunk, ReadEnds, Stages
<1>6. CASE OperationFails(j)
  <2>1. pool'[j] # "read" /\ ~Writing(j)' /\ ~HasRead(j)'
    BY <1>1, <1>5, <1>6 DEF OperationFails, Fail, Resume, TypeOK, Writing, HasRead
  <2>2. QED  BY <1>4, <2>1 DEF Own, Undisturbed
<1>7. CASE MakeDir(j)
  <2>1. pool'[j] # "read" /\ ~Writing(j)' /\ ~HasRead(j)'
    BY <1>1, <1>5, <1>7 DEF MakeDir, Fail, Resume, TypeOK, Writing, HasRead
  <2>2. QED  BY <1>4, <2>1 DEF Own, Undisturbed
<1>8. CASE OpenRead(j)
  <2>1. ~Writing(j)' /\ ~HasRead(j)'
    BY <1>5, <1>8 DEF OpenRead, Writing, HasRead
  <2>2. got'[j] = <<>> /\ content' \in Seq(Data)
    BY <1>1, <1>2, <1>8 DEF OpenRead, Stages, TypeOK
  <2>3. ReadSoFar(j)'
    BY <2>2 DEF ReadSoFar
  <2>4. QED  BY <1>4, <2>1, <2>3 DEF Own, Undisturbed
<1>9. CASE ReadChunk(j)
  <2>1. ~Writing(j)' /\ ~HasRead(j)'
    BY <1>1, <1>5, <1>9 DEF ReadChunk, Writing, HasRead
  <2>2. /\ got[j] \in Seq(Data) /\ content \in Seq(Data) /\ Len(got[j]) < Len(content)
        /\ got'[j] = Append(got[j], content[Len(got[j]) + 1])
        /\ touched' = touched /\ content' = content /\ pool[j] = "read"
    BY <1>1, <1>9 DEF ReadChunk, TypeOK
  <2>3. ReadSoFar(j) => ReadSoFar(j)'
    BY <2>2 DEF ReadSoFar
  <2>4. QED  BY <1>1, <1>4, <2>1, <2>2, <2>3 DEF Own, Undisturbed
<1>10. CASE ReadEnds(j)
  <2>1. /\ got' = got /\ touched' = touched /\ content' = content
        /\ pool[j] = "read" /\ Len(got[j]) >= Len(content)
        /\ mode[j] = "read" /\ got[j] \in Seq(Data) /\ content \in Seq(Data)
    BY <1>1, <1>10 DEF ReadEnds, TypeOK, Stages
  <2>2. mode'[j] \notin WriteModes
    BY <1>2, <2>1 DEF WriteModes
  <2>3. ReadSoFar(j) => ReadSoFar(j)' /\ Len(got'[j]) = Len(content')
    BY <2>1 DEF ReadSoFar
  <2>4. QED  BY <1>1, <1>4, <2>1, <2>2, <2>3 DEF Own, Undisturbed
<1>11. QED  BY <1>6, <1>7, <1>8, <1>9, <1>10

(* Opening and writing disturb the others; the writer's chunks stay last.  *)
LEMMA ChangeKeepsOwn ==
  ASSUME IInv, Own, NEW j \in Jobs, OpenWrite(j) \/ WriteChunk(j) \/ WriteChunkFails(j)
  PROVE  Own'
<1>0. Chunks \in Nat \ {0}
  BY FilesAssumption
<1>1. TypeOK /\ Stages(j) /\ Counts(j) /\ Undisturbed(j)
  BY DEF IInv, Own
<1>2. UNCHANGED <<mode, got>> /\ pool[j] # "idle" /\ result[j] # "success"
  BY <1>1 DEF OpenWrite, WriteChunk, WriteChunkFails, Stages
<1>3. \A k \in Jobs \ {j} : Undisturbed(k)'
  <2> SUFFICES ASSUME NEW k \in Jobs \ {j} PROVE Undisturbed(k)'
    OBVIOUS
  <2>1. \/ touched'[k] = touched[k] \cup {j}
        \/ touched' = touched /\ content' = content
    BY DEF OpenWrite, WriteChunk, WriteChunkFails, Touch
  <2>2. /\ phase'[k] = phase[k] /\ pool'[k] = pool[k] /\ result'[k] = result[k]
        /\ pos'[k] = pos[k] /\ bad'[k] = bad[k] /\ got'[k] = got[k]
    BY <1>1, <1>2 DEF OpenWrite, WriteChunk, WriteChunkFails, Resume, TypeOK
  <2>3. QED  BY <1>2, <2>1, <2>2, OwnOfOthers
<1>4. CASE OpenWrite(j)
  <2>1. /\ mode[j] \in WriteModes /\ pos' = pos /\ pool[j] = "open"
        /\ content' = Opened(j)
        /\ ~HasRead(j)' /\ pool'[j] # "read"
    BY <1>1, <1>2, <1>4 DEF OpenWrite, Resume, TypeOK, HasRead, WriteModes
  <2>2. pos[j] = 0
    BY <1>1, <2>1 DEF Stages, Counts, Settled
  <2>3. content' \in Seq(Data) /\ (mode[j] # "append" => content' = <<>>)
    <3>1. mode[j] = "append" => content' = content
      BY <2>1 DEF Opened
    <3>2. mode[j] # "append" => content' = <<>>
      BY <2>1 DEF Opened, WriteModes
    <3>3. <<>> \in Seq(Data) /\ content \in Seq(Data)
      BY <1>1, EmptySeq DEF TypeOK
    <3>4. QED  BY <3>1, <3>2, <3>3
  <2>4. EndsInOwn(j)'
    <3>1. Len(content') \in Nat /\ (mode[j] # "append" => Len(content') = 0)
      BY <2>3
    <3>2. pos'[j] = 0 /\ mode' = mode
      BY <1>2, <2>1, <2>2
    <3>3. QED  BY <3>1, <3>2 DEF EndsInOwn
  <2>5. QED  BY <1>3, <2>1, <2>4 DEF Own, Undisturbed
<1>5. CASE WriteChunk(j)
  <2>1. /\ content' = Written(j) /\ pos' = [pos EXCEPT ![j] = @ + 1] /\ bad' = bad
        /\ pool'[j] = "idle" /\ phase' = phase /\ result' = result
        /\ touched'[j] = touched[j] /\ pool[j] = "write"
    BY <1>1, <1>5 DEF WriteChunk, Touch, TypeOK
  <2>2. ~HasRead(j)' /\ (Writing(j)' <=> Writing(j))
    BY <1>2, <2>1 DEF HasRead, Writing
  <2>3. ASSUME EndsInOwn(j) PROVE EndsInOwn(j)'
    <3>1. content' = Append(content, <<j, sent[j]>>)
      BY <1>1, <2>1, <2>3, WrittenAppends DEF EndsInOwn
    <3>2. /\ content \in Seq(Data) /\ Len(content) \in Nat /\ pos[j] \in Nat
          /\ sent[j] = pos[j] + 1 /\ pos'[j] = pos[j] + 1
      BY <1>0, <1>1, <2>1 DEF TypeOK, Counts, Settled
    <3>3. /\ Len(content') = Len(content) + 1
          /\ \A i \in 1..Len(content) : content'[i] = content[i]
          /\ content'[Len(content) + 1] = <<j, sent[j]>>
      BY <3>1, <3>2
    <3>4. ASSUME NEW i \in 1..pos'[j]
          PROVE  content'[Len(content') - pos'[j] + i] = <<j, i>>
      <4>1. Len(content') - pos'[j] + i = Len(content) - pos[j] + i
        <5> DEFINE n == Len(content)
                   m == Len(content')
                   p == pos[j]
                   q == pos'[j]
        <5>1. n \in Nat /\ p \in Nat /\ m = n + 1 /\ q = p + 1
          BY <3>2, <3>3
        <5>2. i \in 1..q
          OBVIOUS
        <5> HIDE DEF n, m, p, q
        <5>3. m - q + i = n - p + i
          BY <5>1, <5>2
        <5>4. QED  BY <5>3 DEF n, m, p, q
      <4>2. CASE i = pos'[j]
        <5>1. Len(content) - pos[j] + i = Len(content) + 1 /\ i = sent[j]
          BY <3>2, <4>2
        <5>2. QED  BY <3>3, <4>1, <5>1
      <4>3. CASE i # pos'[j]
        <5>1. i \in 1..pos[j] /\ Len(content) - pos[j] + i \in 1..Len(content)
          BY <2>3, <3>2, <4>3 DEF EndsInOwn
        <5>2. QED  BY <2>3, <3>3, <4>1, <5>1 DEF EndsInOwn
      <4>4. QED  BY <4>2, <4>3
    <3>5. pos'[j] <= Len(content') /\ (mode'[j] # "append" => Len(content') = pos'[j])
      BY <1>2, <2>3, <3>2, <3>3 DEF EndsInOwn
    <3>6. QED  BY <3>4, <3>5 DEF EndsInOwn
  <2>4. QED  BY <1>1, <1>2, <1>3, <2>1, <2>2, <2>3 DEF Own, Undisturbed
<1>6. CASE WriteChunkFails(j)
  <2>1. bad'[j] = TRUE /\ pool'[j] = "idle" /\ ~HasRead(j)'
    BY <1>1, <1>2, <1>6 DEF WriteChunkFails, TypeOK, HasRead
  <2>2. QED  BY <1>3, <2>1 DEF Own, Undisturbed
<1>7. QED  BY <1>4, <1>5, <1>6

(* Undisturbed jobs see the file they wrote, and read the file there is.   *)
THEOREM OwnFile == Spec => []Own
<1>1. Init => Own
  BY DEF Init, Own, Undisturbed, Writing, HasRead
<1>2. IInv /\ Own /\ [Next]_vars => Own'
  <2> SUFFICES ASSUME IInv, Own, [Next]_vars PROVE Own'
    OBVIOUS
  <2>1. ASSUME NEW j \in Jobs,
               InvalidPayload(j) \/ Start(j) \/ Submit(j) \/ Flush(j) \/ WriteError(j)
                 \/ TimeoutElapses(j)
        PROVE  Own'
    BY <2>1, HandlerKeepsOwn
  <2>2. ASSUME NEW j \in Jobs,
               OperationFails(j) \/ MakeDir(j) \/ OpenRead(j) \/ ReadChunk(j) \/ ReadEnds(j)
        PROVE  Own'
    BY <2>2, QuietKeepsOwn
  <2>3. ASSUME NEW j \in Jobs, OpenWrite(j) \/ WriteChunk(j) \/ WriteChunkFails(j)
        PROVE  Own'
    BY <2>3, ChangeKeepsOwn
  <2>4. CASE UNCHANGED vars
    BY <2>4 DEF vars, Own, Undisturbed, Writing, HasRead, EndsInOwn, ReadSoFar
  <2>5. QED  BY <2>1, <2>2, <2>3, <2>4 DEF Next
<1>3. QED  BY <1>1, <1>2, Inductive, PTL DEF Spec

(* A read that nobody disturbed returns the whole file (fs_read.rs:13).    *)
THEOREM ReadsWhole == Spec => []UndisturbedRead
<1>1. IInv /\ Own => UndisturbedRead
  <2> SUFFICES ASSUME IInv, Own, NEW j \in Jobs, Succeeds(j, "read"), touched[j] = {}
               PROVE  got[j] = content
    BY DEF UndisturbedRead
  <2>1. HasRead(j) /\ Undisturbed(j)
    BY DEF Succeeds, HasRead, Own
  <2>2. Len(got[j]) = Len(content) /\ \A i \in 1..Len(got[j]) : got[j][i] = content[i]
    BY <2>1 DEF Undisturbed, ReadSoFar
  <2>3. got[j] \in Seq(Data) /\ content \in Seq(Data)
    BY DEF IInv, TypeOK
  <2>4. QED  BY <2>2, <2>3, SeqEqual
<1>2. QED  BY <1>1, Inductive, OwnFile, PTL

(* A sequence that ends in the elements of another has it as a suffix.     *)
LEMMA EndIsSuffix ==
  ASSUME NEW S, NEW s \in Seq(S), NEW t \in Seq(S), Len(s) <= Len(t),
         \A i \in 1..Len(s) : t[Len(t) - Len(s) + i] = s[i]
  PROVE  IsSuffix(s, t)
<1> DEFINE rs == Reverse(s)
           rt == Reverse(t)
<1>1. Len(s) \in Nat /\ Len(t) \in Nat
  OBVIOUS
<1>2. /\ rs \in Seq(S) /\ Len(rs) = Len(s)
      /\ \A i \in 1..Len(s) : rs[i] = s[Len(s) - i + 1]
  BY <1>1 DEF Reverse
<1>3. /\ rt \in Seq(S) /\ Len(rt) = Len(t)
      /\ \A i \in 1..Len(t) : rt[i] = t[Len(t) - i + 1]
  BY <1>1 DEF Reverse
<1> HIDE DEF rs, rt
<1>4. ASSUME NEW i \in 1..Len(s) PROVE rs[i] = rt[i]
  <2> DEFINE k == Len(s) - i + 1
  <2>1. i \in 1..Len(t) /\ k \in 1..Len(s) /\ Len(t) - Len(s) + k = Len(t) - i + 1
    BY <1>1
  <2>2. QED  BY <1>2, <1>3, <2>1
<1>5. SubSeq(rs, 1, Len(rs)) = SubSeq(rt, 1, Len(rs))
  BY <1>1, <1>2, <1>3, <1>4
<1>6. QED  BY <1>2, <1>3, <1>5 DEF IsSuffix, IsPrefix, rs, rt

(* Unless others change the file, it is what the job reports               *)
(* (fs_write.rs:41-61).                                                    *)
THEOREM WritesWhole == Spec => []UndisturbedIsWhole
<1>1. IInv /\ Own => UndisturbedIsWhole
  <2> SUFFICES ASSUME IInv, Own, NEW j \in Jobs, result[j] = "success", touched[j] = {},
                      mode[j] \in WriteModes
               PROVE  /\ mode[j] # "append" => content = Whole(j)
                      /\ mode[j] = "append" => IsSuffix(Whole(j), content)
    BY DEF UndisturbedIsWhole, WriteModes
  <2>0. Chunks \in Nat \ {0}
    BY FilesAssumption
  <2>1. pos[j] = Chunks /\ ~bad[j]
    BY DEF IInv, Stages, Counts, Settled
  <2>2. EndsInOwn(j)
    BY <2>1 DEF Own, Undisturbed, Writing
  <2>3. content \in Seq(Data) /\ Len(content) \in Nat
    BY DEF IInv, TypeOK
  <2>4. Whole(j) \in Seq(Data) /\ Len(Whole(j)) = Chunks
        /\ \A i \in 1..Chunks : Whole(j)[i] = <<j, i>>
    <3>1. \A i \in 1..Chunks : <<j, i>> \in Data
      BY <2>0 DEF Data
    <3>2. Whole(j) \in [1..Chunks -> Data]
      BY <3>1 DEF Whole
    <3>3. Whole(j) \in Seq(Data)
      BY <2>0, <3>2, SeqDef
    <3>4. DOMAIN Whole(j) = 1..Chunks
      BY DEF Whole
    <3>5. QED  BY <2>0, <3>3, <3>4 DEF Whole
  <2>5. CASE mode[j] # "append"
    <3>1. Len(content) = Chunks
      BY <2>1, <2>2, <2>5 DEF EndsInOwn
    <3>2. \A i \in 1..Chunks : content[i] = <<j, i>>
      BY <2>0, <2>1, <2>2, <3>1 DEF EndsInOwn
    <3>3. Len(content) = Len(Whole(j)) /\ \A i \in 1..Len(content) : content[i] = Whole(j)[i]
      BY <2>4, <3>1, <3>2
    <3>4. content = Whole(j)
      BY <2>3, <2>4, <3>3, SeqEqual
    <3>5. QED  BY <2>5, <3>4
  <2>6. CASE mode[j] = "append"
    BY <2>1, <2>2, <2>3, <2>4, <2>6, EndIsSuffix DEF EndsInOwn
  <2>7. QED  BY <2>5, <2>6
<1>2. QED  BY <1>1, Inductive, OwnFile, PTL

-----------------------------------------------------------------------------
(* What the file holds of a job are chunks that reached it.                *)
OnlyWritten(j) ==
  \A x \in DOMAIN content, i \in 1..Chunks : content[x] = <<j, i>> => i \in written[j]

(* As long as all who changed the file append, it keeps what j appended.   *)
Keeps(j) ==
  mode[j] = "append" /\ (\A k \in touched[j] : mode[k] = "append")
    => HoldsInOrder(j, written[j])

Appended == \A j \in Jobs : ~bad[j] => OnlyWritten(j) /\ Keeps(j)

(* A write adds its chunk to the file and nothing else but holes. *)
LEMMA WrittenAdds ==
  ASSUME TypeOK, NEW j \in Jobs, NEW x \in DOMAIN Written(j)
  PROVE  \/ x \in DOMAIN content /\ Written(j)[x] = content[x]
         \/ Written(j)[x] = <<"hole", 0>>
         \/ Written(j)[x] = <<j, sent[j]>>
<1> DEFINE n == pos[j] - Len(content)
           holes == [i \in 1..n |-> <<"hole", 0>>]
           c == <<j, sent[j]>>
<1>1. content \in Seq(Data) /\ pos[j] \in Nat /\ Len(content) \in Nat
  BY FilesAssumption DEF TypeOK
<1>2. DOMAIN content = 1..Len(content)
  BY <1>1
<1>3. CASE mode[j] = "append"
  <2>1. Written(j) = Append(content, c)
    BY <1>3 DEF Written
  <2> HIDE DEF c
  <2>2. x \in 1..(Len(content) + 1)
    BY <1>1, <2>1
  <2>3. x \in 1..Len(content) => Append(content, c)[x] = content[x]
    BY <1>1
  <2>4. x = Len(content) + 1 => Append(content, c)[x] = c
    BY <1>1
  <2>5. x \in 1..Len(content) \/ x = Len(content) + 1
    BY <1>1, <2>2
  <2>6. QED  BY <1>2, <2>1, <2>3, <2>4, <2>5 DEF c
<1>4. CASE mode[j] # "append" /\ pos[j] < Len(content)
  <2>1. Written(j) = [content EXCEPT ![pos[j] + 1] = c]
    BY <1>4 DEF Written
  <2>2. QED  BY <1>1, <2>1
<1>5. CASE mode[j] # "append" /\ ~(pos[j] < Len(content))
  <2>1. Written(j) = Append(content \o holes, c)
    BY <1>5 DEF Written
  <2>2. n \in Nat
    BY <1>1, <1>5
  <2> HIDE DEF n, c
  <2> DEFINE D == Data \cup {<<"hole", 0>>, c}
  <2>3. holes \in Seq(D) /\ content \in Seq(D) /\ Len(holes) = n
    <3>1. holes \in Seq(D)
      BY <2>2, IsASeq
    <3>2. content \in Seq(D)
      BY <1>1
    <3>3. Len(holes) = n
      BY <2>2, <3>1
    <3>4. QED  BY <3>1, <3>2, <3>3
  <2> DEFINE padded == content \o holes
  <2>4. /\ padded \in Seq(D) /\ Len(padded) = Len(content) + n
        /\ \A i \in 1..Len(padded) :
             padded[i] = IF i <= Len(content) THEN content[i] ELSE holes[i - Len(content)]
    BY <2>3, ConcatProperties
  <2>5. \A i \in 1..n : holes[i] = <<"hole", 0>>
    OBVIOUS
  <2> HIDE DEF padded, holes, D
  <2>6. x \in 1..(Len(padded) + 1) /\ Len(padded) \in Nat
    BY <2>1, <2>4 DEF padded
  <2>7. CASE x = Len(padded) + 1
    <3>1. Append(padded, c)[x] = c
      BY <2>4, <2>7
    <3>2. QED  BY <2>1, <3>1 DEF padded, c
  <2>8. CASE x \in 1..Len(padded)
    <3>1. Append(padded, c)[x] = padded[x]
      BY <2>4, <2>8
    <3>2. x <= Len(content) => x \in 1..Len(content)
      BY <1>1, <2>6
    <3>3. ~(x <= Len(content)) => x - Len(content) \in 1..n
      BY <1>1, <2>2, <2>4, <2>8
    <3>4. QED  BY <1>2, <2>1, <2>4, <2>5, <2>8, <3>1, <3>2, <3>3 DEF padded
  <2>9. QED  BY <2>6, <2>7, <2>8
<1>6. QED  BY <1>3, <1>4, <1>5

(* Steps that change neither the file nor what reached it keep this.       *)
LEMMA SameFileKeepsAppended ==
  ASSUME Appended, UNCHANGED <<mode, content, written, bad>>,
         \A j \in Jobs : touched[j] \subseteq touched'[j] \/ written[j] = {}
  PROVE  Appended'
<1> SUFFICES ASSUME NEW j \in Jobs, ~bad[j] PROVE OnlyWritten(j)' /\ Keeps(j)'
  BY DEF Appended
<1>1. OnlyWritten(j) /\ Keeps(j)
  BY DEF Appended
<1>2. OnlyWritten(j)'
  BY <1>1 DEF OnlyWritten
<1>3. HoldsInOrder(j, written[j]) => HoldsInOrder(j, written[j])'
  BY DEF HoldsInOrder
<1>4. CASE written[j] = {}
  <2>1. \A x \in DOMAIN content, i \in 1..Chunks : content[x] # <<j, i>>
    BY <1>1, <1>4 DEF OnlyWritten
  <2>2. HoldsInOrder(j, written[j])
    BY <1>4, <2>1 DEF HoldsInOrder
  <2>3. QED  BY <1>2, <1>3, <2>2 DEF Keeps
<1>5. CASE touched[j] \subseteq touched'[j]
  <2>1. Keeps(j)'
    BY <1>1, <1>3, <1>5 DEF Keeps
  <2>2. QED  BY <1>2, <2>1
<1>6. QED  BY <1>4, <1>5

(* Opening keeps this: what is truncated is noted for the others.          *)
LEMMA OpenKeepsAppended ==
  ASSUME IInv, Appended, NEW j \in Jobs, OpenWrite(j)
  PROVE  Appended'
<1>1. TypeOK /\ Stages(j) /\ Counts(j)
  BY DEF IInv
<1>2. /\ UNCHANGED <<mode, bad, written>> /\ mode[j] \in WriteModes /\ pool[j] = "open"
      /\ content' = Opened(j)
      /\ \A k \in Jobs \ {j} : touched'[k] = touched[k] \cup {j}
  BY DEF OpenWrite, Touch
<1>3. \A i \in 1..Chunks : i \notin written[j]
  BY <1>1, <1>2, FilesAssumption DEF Stages, Counts, Settled
<1>4. written[j] = {}
  BY <1>1, <1>3 DEF TypeOK
<1>5. CASE mode[j] = "append"
  <2>1. content' = content
    BY <1>2, <1>5 DEF Opened
  <2>2. \A k \in Jobs : touched[k] \subseteq touched'[k] \/ written[k] = {}
    BY <1>2, <1>4
  <2>3. QED  BY <1>2, <2>1, <2>2, SameFileKeepsAppended
<1>6. CASE mode[j] # "append"
  <2>1. content' = <<>>
    BY <1>2, <1>6 DEF Opened, WriteModes
  <2>2. \A k \in Jobs : OnlyWritten(k)'
    BY <2>1 DEF OnlyWritten
  <2>3. \A k \in Jobs : Keeps(k)'
    BY <1>2, <1>6 DEF Keeps
  <2>4. QED  BY <2>2, <2>3 DEF Appended
<1>7. QED  BY <1>5, <1>6

(* A write at the end of the file leaves in place what was there.          *)
LEMMA AppendedElements ==
  ASSUME NEW s \in Seq(Data), NEW e
  PROVE  /\ DOMAIN s = 1..Len(s) /\ Len(s) \in Nat
         /\ DOMAIN Append(s, e) = 1..(Len(s) + 1)
         /\ \A x \in 1..Len(s) : Append(s, e)[x] = s[x]
         /\ Append(s, e)[Len(s) + 1] = e
OBVIOUS

(* Writing keeps this: who appends adds at the end, and any other change   *)
(* is noted.                                                               *)
LEMMA WriteKeepsAppended ==
  ASSUME IInv, Appended, NEW j \in Jobs, WriteChunk(j) \/ WriteChunkFails(j)
  PROVE  Appended'
<1>0. Chunks \in Nat \ {0}
  BY FilesAssumption
<1>1. TypeOK /\ Stages(j) /\ Counts(j)
  BY DEF IInv
<1>2. /\ mode' = mode /\ pool[j] = "write"
      /\ \A k \in Jobs \ {j} : bad'[k] = bad[k] /\ written'[k] = written[k]
  BY <1>1 DEF WriteChunk, WriteChunkFails, TypeOK
<1>3. \/ content' = content /\ touched' = touched
      \/ /\ content' = Written(j)
         /\ \A k \in Jobs \ {j} : touched'[k] = touched[k] \cup {j}
  BY DEF WriteChunk, WriteChunkFails, Touch
<1>4. ASSUME NEW k \in Jobs \ {j}, ~bad'[k]
      PROVE  OnlyWritten(k)' /\ Keeps(k)'
  <2>1. OnlyWritten(k) /\ Keeps(k)
    BY <1>2, <1>4 DEF Appended
  <2>2. CASE content' = content /\ touched' = touched
    BY <1>2, <2>1, <2>2 DEF OnlyWritten, Keeps, HoldsInOrder
  <2>3. CASE content' = Written(j) /\ touched'[k] = touched[k] \cup {j}
    <3>1. OnlyWritten(k)'
      <4> SUFFICES ASSUME NEW x \in DOMAIN Written(j), NEW i \in 1..Chunks,
                          Written(j)[x] = <<k, i>>
                   PROVE  i \in written[k]
        BY <1>2, <2>3 DEF OnlyWritten
      <4>1. i # 0 /\ k # j
        BY <1>0
      <4>2. x \in DOMAIN content /\ Written(j)[x] = content[x]
        BY <1>1, <4>1, WrittenAdds
      <4>3. QED  BY <2>1, <4>2 DEF OnlyWritten
    <3>2. ASSUME mode[j] = "append", HoldsInOrder(k, written[k])
          PROVE  HoldsInOrder(k, written[k])'
      <4> DEFINE e == <<j, sent[j]>>
      <4>1. content \in Seq(Data) /\ content' = Append(content, e)
        BY <1>1, <2>3, <3>2 DEF TypeOK, Written
      <4>2. \A i : e # <<k, i>>
        OBVIOUS
      <4> HIDE DEF e
      <4>3. /\ DOMAIN content = 1..Len(content) /\ Len(content) \in Nat
            /\ DOMAIN content' = 1..(Len(content) + 1)
            /\ \A x \in 1..Len(content) : content'[x] = content[x]
            /\ content'[Len(content) + 1] = e
        BY <4>1, AppendedElements
      <4>4. \A x \in DOMAIN content' : x \in DOMAIN content \/ x = Len(content) + 1
        BY <4>3
      <4>5. \A x \in DOMAIN content', i \in 1..Chunks :
               content'[x] = <<k, i>> => x \in DOMAIN content /\ content[x] = <<k, i>>
        BY <4>2, <4>3, <4>4
      <4>6. DOMAIN content \subseteq DOMAIN content'
        BY <4>3
      <4>7. \A i \in written[k] : \E x \in DOMAIN content' : content'[x] = <<k, i>>
        BY <3>2, <4>3, <4>6 DEF HoldsInOrder
      <4>8. QED  BY <1>2, <3>2, <4>5, <4>7 DEF HoldsInOrder
    <3>3. Keeps(k)'
      BY <1>2, <2>1, <2>3, <3>2 DEF Keeps
    <3>4. QED  BY <3>1, <3>3
  <2>4. QED  BY <1>3, <2>2, <2>3
<1>5. ASSUME ~bad'[j] PROVE OnlyWritten(j)' /\ Keeps(j)'
  <2>1. /\ content' = Written(j) /\ written'[j] = written[j] \cup {sent[j]}
        /\ touched'[j] = touched[j] /\ ~bad[j]
    BY <1>1, <1>5 DEF WriteChunk, WriteChunkFails, Touch, TypeOK
  <2>2. OnlyWritten(j) /\ Keeps(j)
    BY <2>1 DEF Appended
  <2>3. /\ sent[j] \in Nat /\ written[j] = 1..(sent[j] - 1)
    BY <1>0, <1>1, <1>2, <2>1 DEF Counts, Settled, TypeOK
  <2>4. OnlyWritten(j)'
    <3> SUFFICES ASSUME NEW x \in DOMAIN Written(j), NEW i \in 1..Chunks,
                        Written(j)[x] = <<j, i>>
                 PROVE  i \in written[j] \cup {sent[j]}
      BY <2>1 DEF OnlyWritten
    <3>1. i # 0
      BY <1>0
    <3>2. \/ x \in DOMAIN content /\ Written(j)[x] = content[x]
          \/ Written(j)[x] = <<j, sent[j]>>
      BY <1>1, <3>1, WrittenAdds
    <3>3. QED  BY <2>2, <3>2 DEF OnlyWritten
  <2>5. ASSUME mode[j] = "append", HoldsInOrder(j, written[j])
        PROVE  HoldsInOrder(j, written[j])'
    <3> DEFINE e == <<j, sent[j]>>
    <3>1. content \in Seq(Data) /\ content' = Append(content, e)
      BY <1>1, <2>1, <2>5 DEF TypeOK, Written
    <3>2. /\ DOMAIN content = 1..Len(content) /\ Len(content) \in Nat
          /\ DOMAIN content' = 1..(Len(content) + 1)
          /\ \A x \in 1..Len(content) : content'[x] = content[x]
          /\ content'[Len(content) + 1] = e
      <4> HIDE DEF e
      <4>1. QED  BY <3>1, AppendedElements
    <3>3. \A x \in DOMAIN content' : x \in DOMAIN content \/ x = Len(content) + 1
      BY <3>2
    <3>4. DOMAIN content \subseteq DOMAIN content' /\ Len(content) + 1 \in DOMAIN content'
      BY <3>2
    <3>5. \A i \in written'[j] : \E x \in DOMAIN content' : content'[x] = <<j, i>>
      BY <2>1, <2>5, <3>2, <3>4 DEF HoldsInOrder
    <3>6. ASSUME NEW x \in DOMAIN content', NEW y \in DOMAIN content',
                 NEW i \in 1..Chunks, NEW k \in 1..Chunks,
                 x < y, content'[x] = <<j, i>>, content'[y] = <<j, k>>
          PROVE  i < k
      <4>1. x \in DOMAIN content /\ content[x] = <<j, i>>
        BY <3>2, <3>3, <3>6
      <4>2. i \in 1..(sent[j] - 1)
        BY <2>2, <2>3, <4>1 DEF OnlyWritten
      <4>3. CASE y = Len(content) + 1
        <5>1. k = sent[j]
          BY <3>2, <3>6, <4>3
        <5>2. QED  BY <2>3, <4>2, <5>1
      <4>4. CASE y \in DOMAIN content
        BY <2>5, <3>2, <3>6, <4>1, <4>4 DEF HoldsInOrder
      <4>5. QED  BY <3>3, <4>3, <4>4
    <3>7. QED  BY <3>5, <3>6 DEF HoldsInOrder
  <2>6. Keeps(j)'
    BY <1>2, <2>1, <2>2, <2>5 DEF Keeps
  <2>7. QED  BY <2>4, <2>6
<1>6. QED  BY <1>4, <1>5 DEF Appended

(* What the file holds of each job, as long as all who change it append.   *)
THEOREM FileKeepsAppended == Spec => []Appended
<1>1. Init => Appended
  <2> SUFFICES ASSUME Init, NEW j \in Jobs PROVE OnlyWritten(j) /\ Keeps(j)
    BY DEF Appended
  <2>1. written[j] = {}
    BY DEF Init
  <2>2. \A x \in DOMAIN content : content[x] = <<"old", 0>>
    BY DEF Init
  <2>3. \A x \in DOMAIN content, i \in 1..Chunks : content[x] # <<j, i>>
    BY <2>2, FilesAssumption
  <2>4. QED  BY <2>1, <2>3 DEF OnlyWritten, Keeps, HoldsInOrder
<1>2. IInv /\ Appended /\ [Next]_vars => Appended'
  <2> SUFFICES ASSUME IInv, Appended, [Next]_vars PROVE Appended'
    OBVIOUS
  <2>1. ASSUME NEW j \in Jobs,
               InvalidPayload(j) \/ Start(j) \/ Submit(j) \/ Flush(j) \/ WriteError(j)
                 \/ TimeoutElapses(j)
        PROVE  Appended'
    <3>1. UNCHANGED <<mode, content, written, bad, touched>>
      BY <2>1 DEF InvalidPayload, Start, Submit, Flush, WriteError, TimeoutElapses
    <3>2. QED  BY <3>1, SameFileKeepsAppended
  <2>2. ASSUME NEW j \in Jobs,
               OperationFails(j) \/ MakeDir(j) \/ OpenRead(j) \/ ReadChunk(j) \/ ReadEnds(j)
        PROVE  Appended'
    <3>1. UNCHANGED <<mode, content, written, bad>>
      BY <2>2 DEF OperationFails, MakeDir, OpenRead, ReadChunk, ReadEnds
    <3>2. touched' = touched \/ (pool[j] = "open" /\ touched' = [touched EXCEPT ![j] = {}])
      BY <2>2 DEF OperationFails, MakeDir, OpenRead, ReadChunk, ReadEnds
    <3>3. ASSUME pool[j] = "open" PROVE written[j] = {}
      <4>1. \A i \in 1..Chunks : i \notin written[j]
        BY <3>3, FilesAssumption DEF IInv, Stages, Counts, Settled
      <4>2. QED  BY <4>1 DEF IInv, TypeOK
    <3>4. \A k \in Jobs : touched[k] \subseteq touched'[k] \/ written[k] = {}
      BY <3>2, <3>3 DEF IInv, TypeOK
    <3>5. QED  BY <3>1, <3>4, SameFileKeepsAppended
  <2>3. ASSUME NEW j \in Jobs, OpenWrite(j) PROVE Appended'
    BY <2>3, OpenKeepsAppended
  <2>4. ASSUME NEW j \in Jobs, WriteChunk(j) \/ WriteChunkFails(j) PROVE Appended'
    BY <2>4, WriteKeepsAppended
  <2>5. CASE UNCHANGED vars
    BY <2>5, SameFileKeepsAppended DEF vars
  <2>6. QED  BY <2>1, <2>2, <2>3, <2>4, <2>5 DEF Next
<1>3. QED  BY <1>1, <1>2, Inductive, PTL DEF Spec

(* Concurrent appends lose nothing to each other, nor the order of a job's *)
(* own chunks (fs_write.rs:44-47).                                         *)
THEOREM AppendsAreKept == Spec => []AppendsSurvive
<1>1. IInv /\ Appended => AppendsSurvive
  BY DEF IInv, Appended, Keeps, AppendsSurvive, Succeeds, Stages, Counts, Settled, WriteModes
<1>2. QED  BY <1>1, Inductive, FileKeepsAppended, PTL
=============================================================================
