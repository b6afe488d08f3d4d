-------------------------- MODULE CopyStreamProofs --------------------------
(***************************************************************************)
(* Proofs about CopyStream, for any tars, any batch of files and any       *)
(* faults.                                                                 *)
(***************************************************************************)
EXTENDS CopyStream, TLAPS

-----------------------------------------------------------------------------
(***************************************************************************)
(* The tar and the way through it.                                         *)
(***************************************************************************)

\* The body of an entry, and what Take does with it.
LEMMA TarShape ==
  ASSUME tar \in {Append(t, EndMark) : t \in Tars}
  PROVE  /\ tar \in Seq(Entries \cup {EndMark})
         /\ \A i \in DOMAIN tar : tar[i].kind = "end" => i = Len(tar)
         /\ \A i \in DOMAIN tar :
              /\ tar[i].files \in Nat \ {0}
              /\ tar[i].kind \in {"tgz", "zip", "file", "other", "end"}
              /\ tar[i].kind \notin {"tgz", "zip"} => tar[i].files = 1 /\ tar[i].sound
              /\ BodyLen(i) \in Nat \ {0}
<1>1. PICK t \in Tars : tar = Append(t, EndMark)
  OBVIOUS
<1>2. t \in Seq(Entries)
  BY TarsAreTars
<1>3. /\ DOMAIN tar = 1..(Len(t) + 1) /\ Len(tar) = Len(t) + 1
      /\ \A i \in 1..Len(t) : tar[i] = t[i] /\ tar[i] \in Entries
      /\ tar[Len(t) + 1] = EndMark
  BY <1>1, <1>2
<1>4. tar \in Seq(Entries \cup {EndMark})
  BY <1>1, <1>2
<1>5. ASSUME NEW i \in DOMAIN tar
      PROVE  /\ tar[i].kind = "end" => i = Len(tar)
             /\ tar[i].files \in Nat \ {0}
             /\ tar[i].kind \in {"tgz", "zip", "file", "other", "end"}
             /\ tar[i].kind \notin {"tgz", "zip"} => tar[i].files = 1 /\ tar[i].sound
             /\ BodyLen(i) \in Nat \ {0}
  <2>1. CASE i \in 1..Len(t)
    BY <1>3, <2>1 DEF Entries, Kinds, BodyLen
  <2>2. CASE i = Len(t) + 1
    BY <1>3, <2>2 DEF EndMark, BodyLen
  <2> QED
    BY <1>2, <1>3, <2>1, <2>2
<1> QED
  BY <1>4, <1>5

-----------------------------------------------------------------------------
(***************************************************************************)
(* Types, and where Reader is in the tar.                                  *)
(***************************************************************************)

\* The steps of Reader by what they work on: the archive, the call, the tar.
ZipStep ==
  \/ \E f \in Batch : AddFile(f) \/ AddFileFails(f) \/ AddCreateFails(f)
  \/ AddEnds \/ WriteLog \/ WriteLogFails \/ CloseZip
CallStep ==
  \/ Copy \/ CopyFails \/ GiveUp \/ FailLoads \/ FailStores
  \/ Complete \/ CompleteFails \/ Drain \/ Drained

\* Reader is inside the tar or behind it. While it unpacks, the next piece is
\* the next file, or the zip is being read or was read.
Place ==
  /\ ent \in 1..(Len(tar) + 1) /\ unit \in Nat
  /\ IF Finished THEN unit = 0 ELSE unit <= BodyLen(ent)
  /\ rpc = "unpack" =>
       /\ cur \in Wanted /\ n < tar[cur].files
       /\ IF IsZip THEN (ent = cur /\ unit > 0) \/ (ent = cur + 1 /\ unit = 0)
                   ELSE ent = cur /\ unit = n + 1

\* Take stays inside the tar.
LEMMA TakeStays ==
  ASSUME CallTypes, Place, Take, tar' = tar
  PROVE  /\ ent' \in 1..(Len(tar) + 1) /\ unit' \in Nat
         /\ IF Finished' THEN unit' = 0 ELSE unit' <= BodyLen(ent)'
<1>1. tar \in Seq(Entries \cup {EndMark}) /\ Len(tar) \in Nat /\ ent \in DOMAIN tar
  BY TarShape DEF CallTypes, Place, Take, Readable, Finished
<1>2. \A i \in DOMAIN tar : BodyLen(i) \in Nat \ {0} /\ BodyLen(i)' = BodyLen(i)
  BY TarShape DEF CallTypes, BodyLen
<1>3. CASE unit < BodyLen(ent)
  <2>1. unit' = unit + 1 /\ ent' = ent
    BY <1>3 DEF Take
  <2>2. ~Finished'
    BY <1>1, <2>1 DEF Finished, Place
  <2> QED
    BY <1>1, <1>2, <1>3, <2>1, <2>2 DEF Place
<1>4. CASE ~(unit < BodyLen(ent))
  <2>1. unit' = 0 /\ ent' = ent + 1
    BY <1>4 DEF Take
  <2>2. CASE ent = Len(tar)
    BY <1>1, <2>1, <2>2 DEF Finished
  <2>3. CASE ent < Len(tar)
    BY <1>1, <1>2, <2>1, <2>3 DEF Finished
  <2> QED
    BY <1>1, <2>2, <2>3
<1> QED
  BY <1>3, <1>4

\* What neither moves Reader in the tar nor makes it unpack keeps the place.
LEMMA StaysInPlace ==
  ASSUME CallTypes, Place, UNCHANGED <<caller, tar, try, ent, unit, cur, n>>,
         rpc' \in Calling \cup {"add", "idle", "drain", "over", "logged", "closed"},
         wpc' \in Streaming \cup {"closed"}, completed' \in BOOLEAN,
         rpc' = "unpack" => rpc = "unpack"
  PROVE  CallTypes' /\ Place'
BY DEF CallTypes, Place, Finished, BodyLen, Wanted, IsZip

\* Errors and entries of the archive have their types.
LEMMA ErrTypes ==
  ASSUME NEW who \in Batch \cup Goroutines \cup {Log}, NEW t \in 0..MaxTries
  PROVE  Err(who, t) \in Errors
BY DEF Err, Errors

\* A file of the batch, or the log.
LEMMA AddTypes ==
  ASSUME ZipTypes, NEW name \in Batch \cup {Log}, NEW whole \in BOOLEAN, Add(name, whole)
  PROVE  added' \subseteq [name : Batch \cup {Log}, whole : BOOLEAN]
BY DEF ZipTypes, Add

\* A file of the tar.
LEMMA PutTypes ==
  ASSUME ZipTypes, CallTypes, NEW name \in Nat \X Nat, NEW whole \in BOOLEAN, Put(name, whole)
  PROVE  entries' \subseteq [name : Nat \X Nat, try : 0..MaxTries, whole : BOOLEAN]
BY DEF ZipTypes, CallTypes, Put

\* The archive's steps keep the types.
LEMMA ZipTypeOK ==
  ASSUME TypeOK, Place, DiskFull \/ ZipStep
  PROVE  TypeOK' /\ Place'
<1> USE DEF TypeOK
<1>1. CASE DiskFull
  <2>1. CallTypes' /\ Place'
    BY <1>1, StaysInPlace DEF DiskFull, copyVars, Calling, Streaming, Goto, Streamer, CallTypes
  <2>2. ZipTypes'
    BY <1>1, ErrTypes, AddTypes, TriesAreNat DEF DiskFull, WriteFails, LoadErrs, StoreErrs,
       Streamer, Goto, zipVars, Goroutines, ZipTypes, CallTypes
  <2> QED
    BY <2>1, <2>2 DEF TypeOK
<1>2. ASSUME NEW f \in Batch, AddFile(f) PROVE TypeOK' /\ Place'
  <2>1. CallTypes' /\ Place'
    BY <1>2, StaysInPlace DEF AddFile, copyVars, Calling, Streaming, Goto, Streamer, CallTypes
  <2>2. ZipTypes'
    BY <1>2, ErrTypes, AddTypes, TriesAreNat DEF AddFile, WriteFails, LoadErrs, StoreErrs,
       Streamer, Goto, zipVars, Goroutines, ZipTypes, CallTypes
  <2> QED
    BY <2>1, <2>2 DEF TypeOK
<1>3. ASSUME NEW f \in Batch, AddFileFails(f) PROVE TypeOK' /\ Place'
  <2>1. CallTypes' /\ Place'
    BY <1>3, StaysInPlace DEF AddFileFails, copyVars, Calling, Streaming, Goto, Streamer, CallTypes
  <2>2. Err(f, 0) \in Errors
    BY ErrTypes, TriesAreNat DEF Goroutines, TypeOK, CallTypes
  <2>3. errs' \subseteq Errors /\ loaded' \in [Goroutines -> SUBSET Errors]
    BY <1>3, <2>2 DEF AddFileFails, StoreErrs, Streamer, Goroutines, TypeOK, ZipTypes
  <2>4. ZipTypes'
    BY <1>3, <2>3, AddTypes DEF AddFileFails, WriteFails, Streamer, ZipTypes
  <2> QED
    BY <2>1, <2>4 DEF TypeOK
<1>4. ASSUME NEW f \in Batch, AddCreateFails(f) PROVE TypeOK' /\ Place'
  <2>1. CallTypes' /\ Place'
    BY <1>4, StaysInPlace DEF AddCreateFails, copyVars, Calling, Streaming, Goto, Streamer,
       CallTypes
  <2>2. Err(f, 0) \in Errors
    BY ErrTypes, TriesAreNat DEF Goroutines, TypeOK, CallTypes
  <2>3. errs' \subseteq Errors /\ loaded' \in [Goroutines -> SUBSET Errors]
    BY <1>4, <2>2 DEF AddCreateFails, StoreErrs, Streamer, Goroutines, TypeOK, ZipTypes
  <2>4. ZipTypes'
    BY <1>4, <2>3, AddTypes DEF AddCreateFails, WriteFails, Streamer, ZipTypes
  <2> QED
    BY <2>1, <2>4 DEF TypeOK
<1>5. CASE AddEnds
  <2>1. CallTypes' /\ Place'
    BY <1>5, StaysInPlace DEF AddEnds, copyVars, Calling, Streaming, Goto, Streamer, CallTypes
  <2>2. ZipTypes'
    BY <1>5, ErrTypes, AddTypes, TriesAreNat DEF AddEnds, WriteFails, LoadErrs, StoreErrs,
       Streamer, Goto, zipVars, Goroutines, ZipTypes, CallTypes
  <2> QED
    BY <2>1, <2>2 DEF TypeOK
<1>6. CASE WriteLog
  <2>1. CallTypes' /\ Place'
    BY <1>6, StaysInPlace DEF WriteLog, copyVars, Calling, Streaming, Goto, Streamer, CallTypes
  <2>2. ZipTypes'
    BY <1>6, ErrTypes, AddTypes, TriesAreNat DEF WriteLog, WriteFails, LoadErrs, StoreErrs,
       Streamer, Goto, zipVars, Goroutines, ZipTypes, CallTypes
  <2> QED
    BY <2>1, <2>2 DEF TypeOK
<1>7. CASE WriteLogFails
  <2>1. CallTypes' /\ Place'
    BY <1>7, StaysInPlace DEF WriteLogFails, copyVars, Calling, Streaming, Goto, Streamer, CallTypes
  <2>2. Err(Log, 0) \in Errors
    BY TriesAreNat DEF Err, Errors
  <2>3. errs' \subseteq Errors /\ loaded' \in [Goroutines -> SUBSET Errors]
    BY <1>7, <2>2 DEF WriteLogFails, StoreErrs, Streamer, Goroutines, TypeOK, ZipTypes
  <2>4. ZipTypes'
    BY <1>7, <2>3, AddTypes DEF WriteLogFails, WriteFails, Streamer, ZipTypes
  <2> QED
    BY <2>1, <2>4 DEF TypeOK
<1>8. CASE CloseZip
  <2>1. CallTypes' /\ Place'
    BY <1>8, StaysInPlace DEF CloseZip, copyVars, Calling, Streaming, Goto, Streamer, CallTypes
  <2>2. ZipTypes'
    BY <1>8, ErrTypes, AddTypes, TriesAreNat DEF CloseZip, WriteFails, LoadErrs, StoreErrs,
       Streamer, Goto, zipVars, Goroutines, ZipTypes, CallTypes
  <2> QED
    BY <2>1, <2>2 DEF TypeOK
<1> QED
  BY <1>1, <1>2, <1>3, <1>4, <1>5, <1>6, <1>7, <1>8 DEF ZipStep

\* So do Streamer's.
LEMMA StreamerTypeOK ==
  ASSUME TypeOK, Place, StreamerStep
  PROVE  TypeOK' /\ Place'
<1> USE DEF TypeOK
<1>1. CASE StreamEnds
  <2>1. CallTypes' /\ Place'
    BY <1>1, StaysInPlace DEF StreamEnds, copyVars, Calling, Streaming, Goto, Streamer, CallTypes
  <2>2. ZipTypes'
    BY <1>1, ErrTypes, AddTypes, TriesAreNat DEF StreamEnds, WriteFails, LoadErrs, StoreErrs,
       Streamer, Goto, zipVars, Goroutines, ZipTypes, CallTypes
  <2> QED
    BY <2>1, <2>2 DEF TypeOK
<1>2. CASE StreamBreaks
  <2>1. CallTypes' /\ Place'
    BY <1>2, StaysInPlace DEF StreamBreaks, copyVars, Calling, Streaming, Goto, Streamer, CallTypes
  <2>2. ZipTypes'
    BY <1>2, ErrTypes, AddTypes, TriesAreNat DEF StreamBreaks, WriteFails, LoadErrs, StoreErrs,
       Streamer, Goto, zipVars, Goroutines, ZipTypes, CallTypes
  <2> QED
    BY <2>1, <2>2 DEF TypeOK
<1>3. CASE RecordLoads
  <2>1. CallTypes' /\ Place'
    BY <1>3, StaysInPlace DEF RecordLoads, copyVars, Calling, Streaming, Goto, Streamer, CallTypes
  <2>2. ZipTypes'
    BY <1>3, ErrTypes, AddTypes, TriesAreNat DEF RecordLoads, WriteFails, LoadErrs, StoreErrs,
       Streamer, Goto, zipVars, Goroutines, ZipTypes, CallTypes
  <2> QED
    BY <2>1, <2>2 DEF TypeOK
<1>4. CASE RecordStores
  <2>1. CallTypes' /\ Place'
    BY <1>4, StaysInPlace DEF RecordStores, copyVars, Calling, Streaming, Goto, Streamer, CallTypes
  <2>2. Err("streamer", try) \in Errors
    BY ErrTypes, TriesAreNat DEF Goroutines, TypeOK, CallTypes
  <2>3. errs' \subseteq Errors /\ loaded' \in [Goroutines -> SUBSET Errors]
    BY <1>4, <2>2 DEF RecordStores, StoreErrs, Streamer, Goroutines, TypeOK, ZipTypes
  <2>4. ZipTypes'
    BY <1>4, <2>3, AddTypes DEF RecordStores, WriteFails, Streamer, ZipTypes
  <2> QED
    BY <2>1, <2>4 DEF TypeOK
<1>5. CASE ClosePipe
  <2>1. CallTypes' /\ Place'
    BY <1>5, StaysInPlace DEF ClosePipe, copyVars, Calling, Streaming, Goto, Streamer, CallTypes
  <2>2. ZipTypes'
    BY <1>5, ErrTypes, AddTypes, TriesAreNat DEF ClosePipe, WriteFails, LoadErrs, StoreErrs,
       Streamer, Goto, zipVars, Goroutines, ZipTypes, CallTypes
  <2> QED
    BY <2>1, <2>2 DEF TypeOK
<1> QED
  BY <1>1, <1>2, <1>3, <1>4, <1>5 DEF StreamerStep

\* So does what Reader does around UntarIntoZip.
LEMMA CallTypeOK ==
  ASSUME TypeOK, Place, CallStep
  PROVE  TypeOK' /\ Place'
<1> USE DEF TypeOK
<1>1. CASE Copy
  <2>1. try' \in 0..MaxTries /\ Len(tar) \in Nat
    BY <1>1, TriesAreNat, TarShape DEF Copy, CallTypes
  <2>2. CallTypes' /\ Place'
    <3>1. IF Finished' THEN unit' = 0 ELSE unit' <= BodyLen(ent)'
      <4>1. 1 \in DOMAIN tar => BodyLen(1) \in Nat
        BY TarShape DEF CallTypes
      <4> QED
        BY <1>1, <2>1, <4>1, TarShape DEF Copy, Finished, CallTypes, BodyLen
    <3> QED
      BY <1>1, <2>1, <3>1 DEF Copy, Calling, Streaming, CallTypes, Place
  <2>3. ZipTypes'
    BY <1>1 DEF Copy, zipVars, ZipTypes
  <2> QED
    BY <2>2, <2>3 DEF TypeOK
<1>2. CASE CopyFails
  <2>1. try' \in 0..MaxTries /\ try' = try + 1
    BY <1>2, TriesAreNat DEF CopyFails, CallTypes
  <2>2. CallTypes' /\ Place'
    BY <1>2, <2>1 DEF CopyFails, Calling, CallTypes, Place, Finished, BodyLen
  <2>3. Err("reader", try + 1) \in Errors
    BY <2>1, ErrTypes DEF Goroutines
  <2>4. errs' \subseteq Errors
    BY <1>2, <2>3 DEF CopyFails, ZipTypes
  <2>5. ZipTypes'
    BY <1>2, <2>4 DEF CopyFails, ZipTypes
  <2> QED
    BY <2>2, <2>5 DEF TypeOK
<1>3. CASE GiveUp
  <2>1. CallTypes' /\ Place'
    BY <1>3, StaysInPlace DEF GiveUp, Goto, Calling, Streaming, CallTypes
  <2>2. ZipTypes'
    BY <1>3 DEF GiveUp, Goto, LoadErrs, Goroutines, ZipTypes
  <2> QED
    BY <2>1, <2>2 DEF TypeOK
<1>4. CASE FailLoads
  <2>1. CallTypes' /\ Place'
    BY <1>4, StaysInPlace DEF FailLoads, Goto, Calling, Streaming, CallTypes
  <2>2. ZipTypes'
    BY <1>4 DEF FailLoads, Goto, LoadErrs, Goroutines, ZipTypes
  <2> QED
    BY <2>1, <2>2 DEF TypeOK
<1>5. CASE FailStores
  <2>1. CallTypes' /\ Place'
    BY <1>5, StaysInPlace DEF FailStores, copyVars, Calling, Streaming, Goto, Streamer, CallTypes
  <2>2. Err("reader", try) \in Errors
    BY ErrTypes, TriesAreNat DEF Goroutines, TypeOK, CallTypes
  <2>3. errs' \subseteq Errors /\ loaded' \in [Goroutines -> SUBSET Errors]
    BY <1>5, <2>2 DEF FailStores, StoreErrs, Streamer, Goroutines, TypeOK, ZipTypes
  <2>4. ZipTypes'
    BY <1>5, <2>3, AddTypes DEF FailStores, WriteFails, Streamer, ZipTypes
  <2> QED
    BY <2>1, <2>4 DEF TypeOK
<1>6. CASE Complete
  <2>1. CallTypes' /\ Place'
    BY <1>6, StaysInPlace DEF Complete, Goto, Calling, Streaming, CallTypes
  <2>2. ZipTypes'
    BY <1>6 DEF Complete, Goto, LoadErrs, Goroutines, ZipTypes
  <2> QED
    BY <2>1, <2>2 DEF TypeOK
<1>7. CASE CompleteFails
  <2>1. CallTypes' /\ Place'
    BY <1>7, StaysInPlace DEF CompleteFails, Goto, Calling, Streaming, CallTypes
  <2>2. ZipTypes'
    BY <1>7 DEF CompleteFails, Goto, LoadErrs, Goroutines, ZipTypes
  <2> QED
    BY <2>1, <2>2 DEF TypeOK
<1>8. CASE Drain
  <2>1. CallTypes' /\ Place'
    BY <1>8, TakeStays DEF Drain, Goto, Calling, CallTypes, Place
  <2>2. ZipTypes'
    BY <1>8 DEF Drain, Goto, ZipTypes
  <2> QED
    BY <2>1, <2>2 DEF TypeOK
<1>9. CASE Drained
  <2>1. CallTypes' /\ Place'
    BY <1>9, StaysInPlace DEF Drained, Goto, Calling, Streaming, CallTypes
  <2>2. ZipTypes'
    BY <1>9 DEF Drained, Goto, LoadErrs, Goroutines, ZipTypes
  <2> QED
    BY <2>1, <2>2 DEF TypeOK
<1> QED
  BY <1>1, <1>2, <1>3, <1>4, <1>5, <1>6, <1>7, <1>8, <1>9 DEF CallStep

\* The file that is next has a name, and it is there to be read.
LEMMA NextFile ==
  ASSUME TypeOK, Place, rpc = "unpack"
  PROVE  /\ cur \in 1..Len(tar) /\ cur \in DOMAIN tar
         /\ n \in Nat /\ n + 1 \in 1..tar[cur].files
         /\ FileName \in Nat \X Nat
         /\ tar[cur].files \in Nat \ {0}
         /\ tar[cur].kind \in {"tgz", "zip", "file"}
         /\ tar[cur].kind = "file" => tar[cur].files = 1
<1>1. cur \in Wanted /\ n < tar[cur].files /\ tar \in {Append(t, EndMark) : t \in Tars}
  BY DEF Place, TypeOK, CallTypes
<1>2. cur \in DOMAIN tar /\ tar[cur].kind \in {"tgz", "zip", "file"}
  BY <1>1 DEF Wanted, Kinds
<1>3. tar[cur].files \in Nat \ {0} /\ (tar[cur].kind = "file" => tar[cur].files = 1)
  BY <1>1, <1>2, TarShape
<1>4. n \in Nat /\ cur \in Nat
  BY <1>3 DEF TypeOK, CallTypes
<1>5. cur \in 1..Len(tar)
  BY <1>1, <1>2, TarShape
<1> QED
  BY <1>1, <1>2, <1>3, <1>4, <1>5 DEF FileName

\* Reading a file of the entry leaves Reader inside it, or right behind it.
LEMMA ReadStays ==
  ASSUME TypeOK, Place, rpc = "unpack", ReadsFile, tar' = tar
  PROVE  /\ ent' \in 1..(Len(tar) + 1) /\ unit' \in Nat
         /\ IF Finished' THEN unit' = 0 ELSE unit' <= BodyLen(ent)'
         /\ IF IsZip THEN ent' = cur + 1 /\ unit' = 0
                     ELSE \/ ent' = cur /\ unit' = n + 2 /\ tar[cur].kind = "tgz"
                          \/ ent' = cur + 1 /\ unit' = 0 /\ n + 1 = tar[cur].files
<1>1. CASE IsZip
  BY <1>1 DEF ReadsFile, Leave, ZipIsRead, TypeOK, CallTypes, Place, Finished, BodyLen
<1>2. CASE ~IsZip
  <2>1. Take
    BY <1>2 DEF ReadsFile
  <2>2. /\ ent' \in 1..(Len(tar) + 1) /\ unit' \in Nat
        /\ IF Finished' THEN unit' = 0 ELSE unit' <= BodyLen(ent)'
    BY <2>1, TakeStays DEF TypeOK
  <2>3. ent = cur /\ unit = n + 1
    BY <1>2 DEF Place
  <2>4. CASE tar[cur].kind = "tgz"
    <3>1. BodyLen(cur) = tar[cur].files + 1
      BY <2>4 DEF BodyLen
    <3> QED
      BY <1>2, <2>1, <2>2, <2>3, <2>4, <3>1, NextFile DEF Take
  <2>5. CASE tar[cur].kind = "file"
    <3>1. BodyLen(cur) = 1 /\ tar[cur].files = 1
      BY <2>5, NextFile DEF BodyLen
    <3> QED
      BY <1>2, <2>1, <2>2, <2>3, <3>1, NextFile DEF Take
  <2> QED
    BY <1>2, <2>4, <2>5, NextFile DEF IsZip
<1> QED
  BY <1>1, <1>2

\* So does UntarIntoZip.
LEMMA UntarTypeOK ==
  ASSUME TypeOK, Place, Untar
  PROVE  TypeOK' /\ Place'
<1> USE DEF TypeOK
<1>1. CASE Skip
  <2>1. CallTypes' /\ Place'
    BY <1>1, TakeStays DEF Skip, Goto, Calling, CallTypes, Place
  <2>2. ZipTypes'
    BY <1>1 DEF Skip, Goto, ZipTypes
  <2> QED
    BY <2>1, <2>2 DEF TypeOK
<1>2. CASE NextMatches
  <2>1. /\ ent' \in 1..(Len(tar) + 1) /\ unit' \in Nat
        /\ IF Finished' THEN unit' = 0 ELSE unit' <= BodyLen(ent)'
    BY <1>2, TakeStays DEF NextMatches, Goto
  <2>2. ent \in DOMAIN tar /\ ent \in 1..Len(tar) /\ tar[ent].files \in Nat \ {0} /\ BodyLen(ent) \in Nat \ {0}
    BY <1>2, TarShape DEF NextMatches, Wanted, CallTypes
  <2>3. cur' = ent /\ n' = 0 /\ ent' = ent /\ unit' = 1 /\ tar' = tar
    BY <1>2, <2>2 DEF NextMatches, Goto, Take
  <2>4. CallTypes'
    BY <1>2, <2>1, <2>2, <2>3 DEF NextMatches, Goto, Calling, CallTypes
  <2>5. Place'
    BY <1>2, <2>1, <2>2, <2>3 DEF NextMatches, Place, Wanted, IsZip
  <2>6. ZipTypes'
    BY <1>2 DEF NextMatches, Goto, ZipTypes
  <2> QED
    BY <2>4, <2>5, <2>6 DEF TypeOK
<1>3. CASE NextIsEnd
  <2>1. CallTypes' /\ Place'
    BY <1>3, TakeStays DEF NextIsEnd, Goto, Calling, CallTypes, Place
  <2>2. ZipTypes'
    BY <1>3 DEF NextIsEnd, Goto, ZipTypes
  <2> QED
    BY <2>1, <2>2 DEF TypeOK
<1>4. CASE NextIsEof
  <2>1. CallTypes' /\ Place'
    BY <1>4, StaysInPlace DEF NextIsEof, Goto, Calling, Streaming, CallTypes
  <2>2. ZipTypes'
    BY <1>4 DEF NextIsEof, Goto, LoadErrs, Goroutines, ZipTypes
  <2> QED
    BY <2>1, <2>2 DEF TypeOK
<1>5. CASE NextIsCut
  <2>1. CallTypes' /\ Place'
    BY <1>5, StaysInPlace DEF NextIsCut, Goto, Calling, Streaming, CallTypes
  <2>2. ZipTypes'
    BY <1>5 DEF NextIsCut, Goto, LoadErrs, Goroutines, ZipTypes
  <2> QED
    BY <2>1, <2>2 DEF TypeOK
<1>6. CASE ReadsZip
  <2>1. /\ ent' \in 1..(Len(tar) + 1) /\ unit' \in Nat
        /\ IF Finished' THEN unit' = 0 ELSE unit' <= BodyLen(ent)'
    BY <1>6, TakeStays DEF ReadsZip, Goto
  <2>2. CallTypes'
    BY <1>6, <2>1 DEF ReadsZip, Goto, CallTypes
  <2>3. IF IsZip' THEN (ent' = cur /\ unit' > 0) \/ (ent' = cur + 1 /\ unit' = 0) ELSE FALSE
    BY <1>6, TarShape DEF ReadsZip, Goto, ZipIsRead, Take, IsZip, Place, CallTypes
  <2>4. Place'
    BY <1>6, <2>1, <2>3 DEF ReadsZip, Goto, Place, Wanted
  <2>5. ZipTypes'
    BY <1>6 DEF ReadsZip, Goto, ZipTypes
  <2> QED
    BY <2>2, <2>4, <2>5 DEF TypeOK
<1>7. CASE UnpackFile
  <2>1. /\ ent' \in 1..(Len(tar) + 1) /\ unit' \in Nat
        /\ IF Finished' THEN unit' = 0 ELSE unit' <= BodyLen(ent)'
        /\ IF IsZip THEN ent' = cur + 1 /\ unit' = 0
                    ELSE \/ ent' = cur /\ unit' = n + 2 /\ tar[cur].kind = "tgz"
                         \/ ent' = cur + 1 /\ unit' = 0 /\ n + 1 = tar[cur].files
    BY <1>7, ReadStays DEF UnpackFile, Unpacks
  <2>2. /\ n + 1 \in 1..tar[cur].files /\ n \in Nat /\ cur \in 1..Len(tar) /\ tar[cur].files \in Nat
        /\ FileName \in Nat \X Nat
    BY <1>7, NextFile DEF UnpackFile, Unpacks
  <2>3. /\ n' = n + 1 /\ cur' = cur /\ tar' = tar
        /\ rpc' = IF n + 1 = tar[cur].files THEN "next" ELSE "unpack"
    BY <1>7 DEF UnpackFile, Unpacks, LastFile
  <2>4. CallTypes'
    BY <1>7, <2>1, <2>2, <2>3 DEF UnpackFile, Unpacks, Calling, CallTypes
  <2>5. Place'
    BY <1>7, <2>1, <2>2, <2>3 DEF UnpackFile, Unpacks, Place, Wanted, IsZip
  <2>6. entries' \subseteq [name : Nat \X Nat, try : 0..MaxTries, whole : BOOLEAN]
    BY <1>7, <2>2, PutTypes DEF UnpackFile
  <2>7. manifest' \subseteq [ent : Nat, try : 0..MaxTries]
    BY <1>7, <2>2 DEF UnpackFile, CallTypes, ZipTypes
  <2>8. ZipTypes'
    BY <1>7, <2>6, <2>7 DEF UnpackFile, Unpacks, ZipTypes
  <2> QED
    BY <2>4, <2>5, <2>8 DEF TypeOK
<1>8. CASE UnpackCorrupt
  <2>1. /\ ent' \in 1..(Len(tar) + 1) /\ unit' \in Nat
        /\ IF Finished' THEN unit' = 0 ELSE unit' <= BodyLen(ent)'
    BY <1>8, ReadStays DEF UnpackCorrupt, Unpacks
  <2>2. CallTypes'
    BY <1>8, <2>1 DEF UnpackCorrupt, Unpacks, UnpackFails, Calling, CallTypes
  <2>3. Place'
    BY <1>8, <2>1 DEF UnpackCorrupt, Unpacks, UnpackFails, Place
  <2>4. entries' \subseteq [name : Nat \X Nat, try : 0..MaxTries, whole : BOOLEAN]
    <3>1. FileName \in Nat \X Nat
      BY <1>8, NextFile DEF UnpackCorrupt, Unpacks
    <3>2. entries' = entries \/ Put(FileName, FALSE)
      BY <1>8 DEF UnpackCorrupt, UnpackFails
    <3> QED
      BY <3>1, <3>2, PutTypes DEF ZipTypes
  <2>5. ZipTypes'
    BY <1>8, <2>4 DEF UnpackCorrupt, Unpacks, UnpackFails, WriteFails, ZipTypes
  <2> QED
    BY <2>2, <2>3, <2>5 DEF TypeOK
<1>9. CASE UnpackToFullDisk
  <2>1. /\ ent' \in 1..(Len(tar) + 1) /\ unit' \in Nat
        /\ IF Finished' THEN unit' = 0 ELSE unit' <= BodyLen(ent)'
    BY <1>9, ReadStays DEF UnpackToFullDisk, Unpacks
  <2>2. CallTypes'
    BY <1>9, <2>1 DEF UnpackToFullDisk, Unpacks, UnpackFails, Calling, CallTypes
  <2>3. Place'
    BY <1>9, <2>1 DEF UnpackToFullDisk, Unpacks, UnpackFails, Place
  <2>4. entries' \subseteq [name : Nat \X Nat, try : 0..MaxTries, whole : BOOLEAN]
    <3>1. FileName \in Nat \X Nat
      BY <1>9, NextFile DEF UnpackToFullDisk, Unpacks
    <3>2. entries' = entries \/ Put(FileName, FALSE)
      BY <1>9 DEF UnpackToFullDisk, UnpackFails
    <3> QED
      BY <3>1, <3>2, PutTypes DEF ZipTypes
  <2>5. ZipTypes'
    BY <1>9, <2>4 DEF UnpackToFullDisk, Unpacks, UnpackFails, WriteFails, ZipTypes
  <2> QED
    BY <2>2, <2>3, <2>5 DEF TypeOK
<1>10. CASE UnpackCut
  <2>1. /\ ent' \in 1..(Len(tar) + 1) /\ unit' \in Nat
        /\ IF Finished' THEN unit' = 0 ELSE unit' <= BodyLen(ent)'
    BY <1>10 DEF UnpackCut, Unpacks, Leave, CallTypes, Place, Finished, BodyLen
  <2>2. CallTypes'
    BY <1>10, <2>1 DEF UnpackCut, Unpacks, UnpackFails, Calling, CallTypes
  <2>3. Place'
    BY <1>10, <2>1 DEF UnpackCut, Unpacks, UnpackFails, Place
  <2>4. entries' \subseteq [name : Nat \X Nat, try : 0..MaxTries, whole : BOOLEAN]
    <3>1. FileName \in Nat \X Nat
      BY <1>10, NextFile DEF UnpackCut, Unpacks
    <3>2. entries' = entries \/ Put(FileName, FALSE)
      BY <1>10 DEF UnpackCut, UnpackFails
    <3> QED
      BY <3>1, <3>2, PutTypes DEF ZipTypes
  <2>5. ZipTypes'
    BY <1>10, <2>4 DEF UnpackCut, Unpacks, UnpackFails, WriteFails, ZipTypes
  <2> QED
    BY <2>2, <2>3, <2>5 DEF TypeOK
<1> QED
  BY <1>1, <1>2, <1>3, <1>4, <1>5, <1>6, <1>7, <1>8, <1>9, <1>10 DEF Untar

-----------------------------------------------------------------------------
(***************************************************************************)
(* Streamer is gone when the call has come back.                           *)
(***************************************************************************)

\* Streamer runs only while there is a call, and the last thing it does before
\* the call comes back is to close the pipe.
LEMMA StepQuiet ==
  ASSUME TypeOK, QuietAfterReturn, Next
  PROVE  QuietAfterReturn'
<1> USE DEF QuietAfterReturn, Calling, copyVars
<1>1. CASE DiskFull \/ Done
  BY <1>1 DEF DiskFull, Done, vars
<1>2. CASE ZipStep
  BY <1>2 DEF ZipStep, AddFile, AddFileFails, AddCreateFails, AddEnds, WriteLog, WriteLogFails,
     CloseZip
<1>3. CASE StreamerStep
  BY <1>3 DEF StreamerStep, StreamEnds, StreamBreaks, RecordLoads, RecordStores, ClosePipe, Streamer
<1>4. CASE CallStep
  BY <1>4 DEF CallStep, Copy, CopyFails, GiveUp, FailLoads, FailStores, Complete, CompleteFails,
     Drain, Drained, Eof, Goto
<1>5. CASE Untar
  BY <1>5 DEF Untar, Skip, NextMatches, NextIsEnd, NextIsEof, NextIsCut, ReadsZip, UnpackFile,
     UnpackCorrupt, UnpackToFullDisk, UnpackCut, Unpacks, UnpackFails, Goto
<1> QED
  BY <1>1, <1>2, <1>3, <1>4, <1>5 DEF Next, ReaderStep, ZipStep, CallStep

-----------------------------------------------------------------------------
(***************************************************************************)
(* What the archive has of the tar.                                        *)
(***************************************************************************)

\* What entry i has to offer is in the archive, from this very try.
InTry(i) ==
  \A k \in 1..tar[i].files : [name |-> <<i, k>>, try |-> try, whole |-> TRUE] \in entries

\* Everything Reader is past is in the archive, from this try.
FilesInv ==
  /\ ManifestIsWhole
  /\ \A e \in entries : e.try \in 1..try
  /\ rpc \in Calling \cup {"drain"} => try > 0
  /\ rpc = "unpack" =>
       /\ \A k \in 1..n : [name |-> <<cur, k>>, try |-> try, whole |-> TRUE] \in entries
       /\ \A i \in Wanted : i < cur => InTry(i)
  /\ rpc = "next" => \A i \in Wanted : i < ent \/ (i = ent /\ unit > 0) => InTry(i)

\* The archive never loses a file, and the tar is what it was.
LEMMA EntriesGrow ==
  ASSUME Next
  PROVE  /\ tar' = tar /\ caller' = caller /\ entries \subseteq entries'
         /\ Wanted' = Wanted /\ \A i : HasEntry(i) => HasEntry(i)'
<1>1. CASE DiskFull \/ Done
  BY <1>1 DEF DiskFull, Done, vars, copyVars, zipVars, HasEntry, Wanted
<1>2. CASE ZipStep
  BY <1>2 DEF HasEntry, Wanted, ZipStep, AddFile, AddFileFails, AddCreateFails, AddEnds,
     WriteLog, WriteLogFails, CloseZip, Add, WriteFails, copyVars, zipVars
<1>3. CASE StreamerStep
  BY <1>3 DEF HasEntry, Wanted, StreamerStep, StreamEnds, StreamBreaks, RecordLoads,
     RecordStores, ClosePipe, Streamer, LoadErrs, StoreErrs
<1>4. CASE CallStep
  BY <1>4 DEF HasEntry, Wanted, CallStep, Copy, CopyFails, GiveUp, FailLoads, FailStores,
     Complete, CompleteFails, Drain, Drained, Goto, LoadErrs, StoreErrs, zipVars
<1>5. CASE Untar
  <2>1. tar' = tar /\ caller' = caller /\ entries \subseteq entries'
    BY <1>5 DEF Untar, Skip, NextMatches, NextIsEnd, NextIsEof, NextIsCut, ReadsZip, UnpackFile,
       UnpackCorrupt, UnpackToFullDisk, UnpackCut, Unpacks, UnpackFails, Goto, Put, WriteFails
  <2> QED
    BY <2>1 DEF HasEntry, Wanted
<1> QED
  BY <1>1, <1>2, <1>3, <1>4, <1>5 DEF Next, ReaderStep, ZipStep, CallStep

\* What neither moves Reader nor touches a file keeps FilesInv.
LEMMA FilesStay ==
  ASSUME TypeOK, FilesInv, UNCHANGED <<tar, entries, manifest>>,
         try' = try \/ (try' = try + 1 /\ rpc' \notin {"next", "unpack"}),
         rpc' \in Calling \cup {"drain"} => rpc \in Calling \cup {"drain"},
         rpc' = "unpack" => rpc = "unpack" /\ UNCHANGED <<try, cur, n>>,
         rpc' = "next" => rpc = "next" /\ UNCHANGED <<ent, unit>>
  PROVE  FilesInv'
<1>1. try \in Nat /\ try' \in Nat /\ try <= try'
  BY TriesAreNat DEF TypeOK, CallTypes
<1>2. Wanted' = Wanted /\ (try' = try => \A i : InTry(i)' = InTry(i))
  BY DEF Wanted, InTry
<1>3. ManifestIsWhole' /\ \A e \in entries' : e.try \in 1..try'
  BY <1>1 DEF FilesInv, ManifestIsWhole
<1> QED
  BY <1>1, <1>2, <1>3 DEF FilesInv

\* No step outside UntarIntoZip moves Reader to the next entry, but a new call.
LEMMA OutsideFiles ==
  ASSUME TypeOK, Place, FilesInv, Next, ~Untar
  PROVE  FilesInv'
<1>1. CASE DiskFull \/ Done
  BY <1>1, FilesStay DEF Calling, DiskFull, Done, vars, copyVars, zipVars
<1>2. CASE ZipStep
  BY <1>2, FilesStay DEF Calling, ZipStep, AddFile, AddFileFails, AddCreateFails, AddEnds,
     WriteLog, WriteLogFails, CloseZip, Add, WriteFails, copyVars, zipVars
<1>3. CASE StreamerStep
  BY <1>3, FilesStay DEF Calling, StreamerStep, StreamEnds, StreamBreaks, RecordLoads,
     RecordStores, ClosePipe, Streamer, LoadErrs, StoreErrs
<1>4. CASE Copy
  <2>1. try' = try + 1 /\ rpc' = "next" /\ ent' = 1 /\ unit' = 0 /\ UNCHANGED <<tar, entries, manifest>>
    BY <1>4 DEF Copy, zipVars
  <2>2. \A i \in Wanted : ~(i < 1)
    BY TarShape DEF TypeOK, CallTypes, Wanted
  <2> QED
    BY <2>1, <2>2 DEF FilesInv, ManifestIsWhole, Wanted, InTry, TypeOK, CallTypes
<1>5. CASE CallStep /\ ~Copy
  BY <1>5, FilesStay DEF Calling, CallStep, Copy, CopyFails, GiveUp, FailLoads, FailStores,
     Complete, CompleteFails, Drain, Drained, Goto, LoadErrs, StoreErrs, zipVars
<1> QED
  BY <1>1, <1>2, <1>3, <1>4, <1>5 DEF Next, ReaderStep, ZipStep, CallStep

\* UntarIntoZip goes on to the next entry when it has all files of the last, and
\* the manifest lists it then.
LEMMA UntarFiles ==
  ASSUME TypeOK, Place, FilesInv, Untar
  PROVE  FilesInv'
<1>0. /\ tar \in {Append(t, EndMark) : t \in Tars} /\ Wanted \subseteq 1..Len(tar) /\ Len(tar) \in Nat
      /\ \A i \in Wanted : tar[i].files \in Nat /\ tar[i].kind \in Kinds
  BY TarShape DEF TypeOK, CallTypes, Wanted
<1>1. CASE NextIsEnd \/ NextIsEof \/ NextIsCut
  BY <1>1, FilesStay DEF NextIsEnd, NextIsEof, NextIsCut, Goto, Calling
<1>2. CASE ReadsZip
  BY <1>2, FilesStay DEF ReadsZip, Goto, Calling
<1>3. CASE UnpackCorrupt \/ UnpackToFullDisk \/ UnpackCut
  <2>1. /\ UNCHANGED <<tar, try, manifest>> /\ rpc' = "fail"
        /\ entries' = entries \/ entries' = entries \cup {[name |-> FileName, try |-> try, whole |-> FALSE]}
    BY <1>3 DEF Untar, Skip, NextMatches, NextIsEnd, NextIsEof, NextIsCut, ReadsZip, UnpackFile,
       UnpackCorrupt, UnpackToFullDisk, UnpackCut, Unpacks, UnpackFails, Goto, Put, WriteFails
  <2>2. try \in 1..try
    <3>1. rpc = "unpack"
      BY <1>3 DEF UnpackCorrupt, UnpackToFullDisk, UnpackCut, Unpacks
    <3>2. try \in Nat
      BY TriesAreNat DEF TypeOK, CallTypes
    <3> QED
      BY <3>1, <3>2 DEF FilesInv, Calling
  <2> QED
    BY <2>1, <2>2 DEF FilesInv, ManifestIsWhole, Calling
<1>4. CASE Skip
  <2>1. UNCHANGED <<tar, try, entries, manifest>> /\ rpc = "next" /\ rpc' = "next"
    BY <1>4 DEF Skip, Goto
  <2>2. ASSUME NEW i \in Wanted, i < ent' \/ (i = ent' /\ unit' > 0)
        PROVE  i < ent \/ (i = ent /\ unit > 0)
    BY <1>0, <1>4, <2>2 DEF Skip, Take, Wanted, Kinds, TypeOK, CallTypes
  <2> QED
    <3>1. ManifestIsWhole' /\ Wanted' = Wanted /\ \A i : InTry(i)' = InTry(i)
      BY <2>1 DEF FilesInv, ManifestIsWhole, Wanted, InTry
    <3>2. try' > 0 /\ \A e \in entries' : e.try \in 1..try'
      BY <2>1 DEF FilesInv, Calling
    <3>3. \A i \in Wanted : i < ent' \/ (i = ent' /\ unit' > 0) => InTry(i)
      BY <2>1, <2>2 DEF FilesInv
    <3> QED
      BY <2>1, <3>1, <3>2, <3>3 DEF FilesInv
<1>5. CASE NextMatches
  <2>1. UNCHANGED <<tar, try, entries, manifest>> /\ rpc = "next" /\ rpc' = "unpack"
    BY <1>5 DEF NextMatches, Goto
  <2>2. cur' = ent /\ \A k \in 1..n' : FALSE
    BY <1>5 DEF NextMatches
  <2>3. ManifestIsWhole' /\ Wanted' = Wanted /\ \A i : InTry(i)' = InTry(i)
    BY <2>1 DEF FilesInv, ManifestIsWhole, Wanted, InTry
  <2>4. try' > 0 /\ \A e \in entries' : e.try \in 1..try'
    BY <2>1 DEF FilesInv, Calling
  <2>5. \A i \in Wanted : i < cur' => InTry(i)
    BY <2>1, <2>2 DEF FilesInv
  <2> QED
    BY <2>1, <2>2, <2>3, <2>4, <2>5 DEF FilesInv
<1>6. CASE UnpackFile
  <2> DEFINE new == [name |-> FileName, try |-> try, whole |-> TRUE]
  <2>1. /\ UNCHANGED <<tar, try, cur>> /\ rpc = "unpack" /\ n' = n + 1
        /\ entries' = entries \cup {new}
        /\ rpc' = IF n + 1 = tar[cur].files THEN "next" ELSE "unpack"
        /\ manifest' = IF n + 1 = tar[cur].files THEN manifest \cup {[ent |-> cur, try |-> try]} ELSE manifest
    BY <1>6 DEF UnpackFile, Unpacks, LastFile, Put
  <2>2. /\ n \in Nat /\ cur \in 1..Len(tar) /\ tar[cur].files \in Nat /\ cur \in Wanted
    BY <2>1, NextFile DEF Place
  <2>3. \A k \in 1..(n + 1) : [name |-> <<cur, k>>, try |-> try, whole |-> TRUE] \in entries'
    <3> SUFFICES ASSUME NEW k \in 1..(n + 1)
                 PROVE  [name |-> <<cur, k>>, try |-> try, whole |-> TRUE] \in entries'
      OBVIOUS
    <3>1. CASE k \in 1..n
      BY <2>1, <3>1 DEF FilesInv
    <3>2. CASE k = n + 1
      BY <2>1, <3>2 DEF FileName
    <3> QED
      BY <2>2, <3>1, <3>2
  <2>4. \A i \in Wanted : i < cur => InTry(i)'
    <3>1. \A i \in Wanted : InTry(i) => InTry(i)'
      BY <2>1 DEF InTry
    <3> QED
      BY <2>1, <3>1 DEF FilesInv
  <2>5. n + 1 = tar[cur].files => \A i \in Wanted : i = cur => InTry(i)'
    <3> SUFFICES ASSUME n + 1 = tar[cur].files, NEW k \in 1..tar[cur].files
                 PROVE  [name |-> <<cur, k>>, try |-> try, whole |-> TRUE] \in entries'
      BY <2>1 DEF InTry
    <3> QED
      BY <2>3
  <2>6. ManifestIsWhole'
    <3> SUFFICES ASSUME NEW m \in manifest', NEW k \in 1..tar[m.ent].files
                 PROVE  [name |-> <<m.ent, k>>, try |-> m.try, whole |-> TRUE] \in entries'
      BY <2>1 DEF ManifestIsWhole
    <3>1. CASE m \in manifest
      BY <2>1, <3>1 DEF FilesInv, ManifestIsWhole
    <3>2. CASE m \notin manifest
      <4>1. m = [ent |-> cur, try |-> try] /\ n + 1 = tar[cur].files
        BY <2>1, <3>2
      <4> QED
        BY <2>3, <4>1
    <3> QED
      BY <3>1, <3>2
  <2>7. ent' \in 1..(Len(tar) + 1) /\ ent' <= cur + 1 /\ (ent' = cur + 1 => unit' = 0)
    BY <1>6, <2>1, <2>2, ReadStays DEF UnpackFile
  <2>8. n + 1 = tar[cur].files =>
          \A i \in Wanted : i < ent' \/ (i = ent' /\ unit' > 0) => InTry(i)'
    <3> SUFFICES ASSUME n + 1 = tar[cur].files, NEW i \in Wanted, i < ent' \/ (i = ent' /\ unit' > 0)
                 PROVE  InTry(i)'
      OBVIOUS
    <3>1. i \in Nat /\ ent' \in Nat /\ cur \in Nat
      BY <1>0, <2>2, <2>7
    <3>2. i < cur \/ i = cur
      BY <2>7, <3>1
    <3> QED
      BY <2>4, <2>5, <3>2
  <2>9. try > 0 /\ \A e \in entries' : e.try \in 1..try
    BY <2>1, TriesAreNat DEF FilesInv, Calling, TypeOK, CallTypes
  <2> QED
    BY <2>1, <2>3, <2>4, <2>6, <2>8, <2>9 DEF FilesInv, Wanted
<1> QED
  BY <1>1, <1>2, <1>3, <1>4, <1>5, <1>6 DEF Untar

-----------------------------------------------------------------------------
(***************************************************************************)
(* The errors.                                                             *)
(***************************************************************************)

\* The errors of earlier tries, and those of the batch.
Old(S) == {x \in S : x.try < try}

\* A goroutine between its two steps of AddError knows all old errors, so that
\* it can lose none but those of the try itself. Each try that failed has one.
ErrInv ==
  /\ \A x \in errs : x.try <= try
  /\ \A g \in Goroutines : \A x \in loaded[g] : x.try <= try
  /\ wpc = "recording" => Old(loaded["streamer"]) = Old(errs)
  /\ rpc = "failing" => Old(loaded["reader"]) = Old(errs)
  /\ \A t \in 1..try : t < try => \E x \in errs : x.try = t
  /\ rpc \notin Calling /\ ~completed /\ try > 0 => \E x \in errs : x.try = try
  /\ rpc = "idle" => ~completed
  /\ rpc = "add" => try = 0

\* An error of the streamer explains a job that is completed without all files.
\* The one of this try is there when the pipe is closed, and by then Reader has
\* not begun to record an error of its own.
CutIsRecorded == Err("streamer", try) \in errs
AllHere == \A i \in Wanted : InTry(i)
EndInv ==
  /\ rpc \in {"next", "unpack", "complete"} /\ wpc \in {"close", "closed"} =>
       Finished \/ CutIsRecorded
  /\ rpc = "complete" => AllHere \/ (wpc = "closed" /\ CutIsRecorded)
  /\ completed =>
       /\ rpc \in {"fail", "failing", "drain", "over", "logged", "closed"}
       /\ \/ AllHere
          \/ /\ wpc = "closed" /\ CutIsRecorded
             /\ rpc = "failing" => Err("streamer", try) \in loaded["reader"]

\* A try that goes well, or went well, left no file cut short; and all files are
\* some that the container offers.
IsOffered(name) == \E i \in Wanted : \E k \in 1..tar[i].files : name = <<i, k>>
WholeInv ==
  /\ \A e \in entries : IsOffered(e.name)
  /\ rpc \in {"next", "unpack", "complete"} \/ completed =>
       \A e \in entries : e.try = try => e.whole

\* A file of the batch is still to be added, is there, or has an error.
BatchInv ==
  /\ rpc # "add" => todo = {}
  /\ \A f \in Batch : f \in todo \/ IsAdded(f) \/ Err(f, 0) \in errs
                      \/ disk = "broken"
  /\ rpc \in {"logged", "closed"} => IsAdded(Log) \/ disk = "broken"
  /\ rpc = "closed" /\ ~closeErr => disk = "ok"

\* The conjunction that every step preserves.
IndInv ==
  /\ TypeOK /\ Place /\ QuietAfterReturn
  /\ FilesInv /\ ErrInv /\ EndInv /\ WholeInv /\ BatchInv

\* The tries are numbers.
LEMMA TriesOfErrors ==
  ASSUME TypeOK
  PROVE  /\ try \in Nat
         /\ \A x \in errs : x.try \in Nat
         /\ \A g \in Goroutines : loaded[g] \subseteq Errors /\ \A x \in loaded[g] : x.try \in Nat
<1>1. try \in Nat
  BY TriesAreNat DEF TypeOK, CallTypes
<1>2. \A x \in Errors : x.try \in Nat
  BY TriesAreNat DEF Errors
<1> QED
  BY <1>1, <1>2 DEF TypeOK, ZipTypes

\* Steps that record nothing, or add an error of the try that is over, keep what
\* is known of the errors.
LEMMA ErrorsStay ==
  ASSUME TypeOK, ErrInv, UNCHANGED <<try, completed, loaded>>,
         errs \subseteq errs', \A x \in errs' \ errs : x.try <= try,
         errs' = errs \/ (wpc' # "recording" /\ rpc' # "failing"),
         wpc' = "recording" => wpc = "recording",
         rpc' = "failing" => rpc = "failing",
         rpc \in Calling => rpc' \in Calling,
         rpc' = "idle" => ~completed, rpc' = "add" => rpc = "add"
  PROVE  ErrInv'
BY DEF ErrInv, Old

\* AddError, by either goroutine.
LEMMA LoadKeepsErrors ==
  ASSUME TypeOK, ErrInv, NEW g \in Goroutines, LoadErrs(g), UNCHANGED <<try, completed>>,
         wpc' = wpc \/ (g = "streamer" /\ wpc' = "recording"),
         rpc' = rpc \/ (g = "reader" /\ rpc = "fail" /\ rpc' = "failing"),
         g = "streamer" => rpc' = rpc /\ wpc # "recording",
         g = "reader" => wpc' = wpc
  PROVE  ErrInv'
<1>1. \A h \in Goroutines : loaded'[h] = IF h = g THEN errs ELSE loaded[h]
  BY DEF LoadErrs, TypeOK, ZipTypes
<1>2. errs' = errs
  BY DEF LoadErrs
<1>3. \A h \in Goroutines : \A x \in loaded'[h] : x.try <= try
  BY <1>1 DEF ErrInv
<1>4. (wpc' = "recording" => Old(loaded["streamer"])' = Old(errs)')
  BY <1>1, <1>2 DEF ErrInv, Old, Goroutines
<1>5. (rpc' = "failing" => Old(loaded["reader"])' = Old(errs)')
  BY <1>1, <1>2 DEF ErrInv, Old, Goroutines
<1> QED
  BY <1>2, <1>3, <1>4, <1>5 DEF ErrInv, Calling

\* The store may drop an error of the same try, and puts its own there.
LEMMA StoreKeepsErrors ==
  ASSUME TypeOK, ErrInv, NEW g \in Goroutines, StoreErrs(g), UNCHANGED <<try, completed>>,
         \/ g = "streamer" /\ wpc = "recording" /\ wpc' = "close" /\ rpc' = rpc
         \/ g = "reader" /\ rpc = "failing" /\ rpc' = "drain" /\ wpc' = wpc
  PROVE  ErrInv'
<1>1. \A h \in Goroutines : loaded'[h] = IF h = g THEN {} ELSE loaded[h]
  BY DEF StoreErrs, TypeOK, ZipTypes
<1>2. errs' = loaded[g] \cup {Err(g, try)} /\ Err(g, try).try = try
  BY DEF StoreErrs, Err
<1>3. Old(loaded[g]) = Old(errs)
  BY DEF ErrInv
<1>4. Old(errs)' = Old(errs)
  BY <1>2, <1>3, TriesOfErrors DEF Old
<1>5. \A x \in errs' : x.try <= try
  BY <1>2, TriesOfErrors DEF ErrInv
<1>6. \A h \in Goroutines : \A x \in loaded'[h] : x.try <= try
  BY <1>1 DEF ErrInv
<1>7. wpc' = "recording" => Old(loaded["streamer"])' = Old(errs)'
  BY <1>1, <1>4 DEF ErrInv, Old, Goroutines
<1>8. rpc' = "failing" => Old(loaded["reader"])' = Old(errs)'
  BY <1>1, <1>4 DEF ErrInv, Old, Goroutines
<1>9. ASSUME NEW t \in 1..try, t < try
      PROVE  \E x \in errs' : x.try = t
  <2>1. PICK x \in errs : x.try = t
    BY <1>9 DEF ErrInv
  <2>2. x \in Old(errs)
    BY <1>9, <2>1 DEF Old
  <2> QED
    BY <1>4, <2>1, <2>2 DEF Old
<1>10. \E x \in errs' : x.try = try
  BY <1>2
<1>11. (rpc' = "idle" => ~completed') /\ (rpc' = "add" => try' = 0)
  BY DEF ErrInv
<1> QED
  BY <1>5, <1>6, <1>7, <1>8, <1>9, <1>10, <1>11 DEF ErrInv

\* What a step does to the errors of earlier tries.
LEMMA StepErr ==
  ASSUME IndInv, Next
  PROVE  ErrInv'
<1> USE DEF IndInv
<1>1. CASE DiskFull \/ Done
  BY <1>1, ErrorsStay DEF ErrInv, DiskFull, Done, vars, copyVars, zipVars
<1>2. CASE ZipStep
  <2>1. /\ UNCHANGED <<try, completed, loaded>> /\ wpc' = "closed"
        /\ errs \subseteq errs' /\ \A x \in errs' \ errs : x.try = 0
        /\ rpc \in {"add", "over", "logged"} /\ rpc' \in {"add", "idle", "logged", "closed"}
        /\ rpc' \in {"idle", "add"} => rpc = "add"
    BY <1>2 DEF QuietAfterReturn, Calling, Err, ZipStep, AddFile, AddFileFails, AddCreateFails,
       AddEnds, WriteLog, WriteLogFails, CloseZip, Add, WriteFails, copyVars, zipVars
  <2>2. rpc' = "idle" => ~completed
    BY <2>1 DEF EndInv
  <2> QED
    BY <2>1, <2>2, ErrorsStay, TriesOfErrors DEF Calling
<1>3. CASE StreamEnds \/ StreamBreaks \/ ClosePipe
  BY <1>3, ErrorsStay DEF ErrInv, StreamEnds, StreamBreaks, ClosePipe, Streamer
<1>4. CASE RecordLoads
  BY <1>4, LoadKeepsErrors DEF RecordLoads, Streamer, Goroutines
<1>5. CASE RecordStores
  BY <1>5, StoreKeepsErrors DEF RecordStores, Streamer, Goroutines
<1>6. CASE FailLoads
  BY <1>6, LoadKeepsErrors DEF FailLoads, Goroutines
<1>7. CASE FailStores
  BY <1>7, StoreKeepsErrors DEF FailStores, Goroutines
<1>8. CASE Copy \/ CopyFails
  <2>1. /\ rpc = "idle" /\ wpc = "closed" /\ ~completed /\ completed' = completed /\ loaded' = loaded
        /\ try' = try + 1 /\ wpc' \in {"stream", "closed"}
    BY <1>8 DEF Copy, CopyFails, QuietAfterReturn, Calling, zipVars, ErrInv
  <2>2. \/ rpc' = "next" /\ errs' = errs
        \/ rpc' \in {"idle", "over"} /\ errs' = errs \cup {Err("reader", try + 1)}
    BY <1>8 DEF Copy, CopyFails, zipVars
  <2>3. \A t \in 1..try : \E x \in errs : x.try = t
    BY <2>1, TriesOfErrors DEF ErrInv, Calling
  <2>4. \A x \in errs' : x.try <= try'
    BY <2>1, <2>2, TriesOfErrors DEF ErrInv, Err
  <2>5. \A g \in Goroutines : \A x \in loaded'[g] : x.try <= try'
    BY <2>1, TriesOfErrors DEF ErrInv
  <2>6. \A t \in 1..try' : t < try' => \E x \in errs' : x.try = t
    <3>1. errs \subseteq errs' /\ try \in Nat
      BY <2>2, TriesOfErrors
    <3>2. ASSUME NEW t \in 1..try', t < try' PROVE t \in 1..try
      BY <2>1, <3>1, <3>2
    <3> QED
      BY <2>3, <3>1, <3>2
  <2>7. rpc' \notin Calling => \E x \in errs' : x.try = try'
    <3>1. Err("reader", try + 1).try = try'
      BY <2>1 DEF Err
    <3>2. rpc' \notin Calling => Err("reader", try + 1) \in errs'
      BY <2>2 DEF Calling
    <3> QED
      BY <3>1, <3>2
  <2> QED
    BY <2>1, <2>2, <2>4, <2>5, <2>6, <2>7 DEF ErrInv
<1>9. CASE GiveUp \/ Drain
  BY <1>9, ErrorsStay DEF ErrInv, GiveUp, Drain, Goto, Calling
<1>10. CASE Drained
  BY <1>10, ErrorsStay DEF Drained, Goto, Calling
<1>11. CASE Complete \/ CompleteFails
  BY <1>11 DEF Complete, CompleteFails, Goto, ErrInv, Old
<1>12. CASE Untar
  <2>1. /\ UNCHANGED <<try, completed, loaded, errs, wpc>> /\ rpc \in Calling
        /\ rpc' \in {"next", "unpack", "complete", "fail"}
    BY <1>12 DEF Calling, Untar, Skip, NextMatches, NextIsEnd, NextIsEof, NextIsCut, ReadsZip,
       UnpackFile, UnpackCorrupt, UnpackToFullDisk, UnpackCut, Unpacks, UnpackFails, Goto, Put,
       WriteFails
  <2> QED
    BY <2>1, ErrorsStay DEF Calling
<1> QED
  BY <1>1, <1>2, <1>3, <1>4, <1>5, <1>6, <1>7, <1>8, <1>9, <1>10, <1>11, <1>12 DEF Next,
     StreamerStep, ReaderStep, ZipStep

\* Which steps end a stream, and what they leave on record.
LEMMA StepEnd ==
  ASSUME IndInv, Next
  PROVE  EndInv'
<1> USE DEF IndInv
<1>0. /\ tar' = tar /\ (try' = try /\ AllHere => AllHere')
  BY EntriesGrow DEF AllHere, InTry
<1>1. CASE DiskFull \/ Done
  BY <1>0, <1>1 DEF EndInv, CutIsRecorded, Finished, Err, DiskFull, Done, vars, copyVars, zipVars
<1>2. CASE ZipStep
  <2>1. /\ UNCHANGED <<try, completed>> /\ wpc' = wpc /\ errs \subseteq errs'
        /\ rpc \in {"add", "over", "logged"} /\ rpc' \in {"add", "idle", "logged", "closed"}
        /\ rpc' \in {"idle", "add"} => rpc = "add"
    BY <1>2 DEF ZipStep, AddFile, AddFileFails, AddCreateFails, AddEnds, WriteLog, WriteLogFails,
       CloseZip, Add, WriteFails, copyVars, zipVars
  <2> QED
    BY <1>0, <2>1 DEF EndInv, CutIsRecorded, Err
<1>3. CASE StreamerStep
  <2>1. /\ UNCHANGED <<try, completed, rpc, ent>> /\ wpc # "closed"
    BY <1>3 DEF StreamerStep, StreamEnds, StreamBreaks, RecordLoads, RecordStores, ClosePipe,
       Streamer, LoadErrs, StoreErrs
  <2>2. rpc = "complete" => AllHere
    BY <2>1 DEF EndInv
  <2>3. completed => AllHere
    BY <2>1 DEF EndInv
  <2>4. rpc \in {"next", "unpack", "complete"} /\ wpc' \in {"close", "closed"} =>
          Finished' \/ CutIsRecorded'
    <3>1. CASE StreamEnds
      BY <1>0, <2>1, <3>1 DEF StreamEnds, Finished
    <3>2. CASE RecordStores
      BY <2>1, <3>2 DEF RecordStores, StoreErrs, CutIsRecorded, Err
    <3>3. CASE ClosePipe
      BY <1>0, <2>1, <3>3 DEF ClosePipe, Streamer, EndInv, Finished, CutIsRecorded, Err
    <3>4. CASE StreamBreaks \/ RecordLoads
      BY <3>4 DEF StreamBreaks, RecordLoads, Streamer
    <3> QED
      BY <1>3, <3>1, <3>2, <3>3, <3>4 DEF StreamerStep
  <2> QED
    BY <1>0, <2>1, <2>2, <2>3, <2>4 DEF EndInv
<1>4. CASE Copy \/ CopyFails \/ GiveUp
  <2>1. rpc = "idle" /\ ~completed' /\ rpc' # "complete" /\ (rpc' = "next" => wpc' = "stream") /\ rpc' # "unpack"
    BY <1>4 DEF Copy, CopyFails, GiveUp, Goto, zipVars, ErrInv
  <2> QED
    BY <2>1 DEF EndInv
<1>5. CASE FailLoads
  BY <1>0, <1>5 DEF EndInv, CutIsRecorded, Err, FailLoads, LoadErrs, TypeOK, ZipTypes, Goroutines
<1>6. CASE FailStores
  BY <1>0, <1>6 DEF EndInv, CutIsRecorded, Err, FailStores, StoreErrs
<1>7. CASE Complete \/ CompleteFails
  BY <1>0, <1>7 DEF EndInv, CutIsRecorded, Err, Complete, CompleteFails, Goto
<1>8. CASE Drain \/ Drained
  BY <1>0, <1>8 DEF EndInv, CutIsRecorded, Err, Drain, Drained, Goto
<1>9. CASE NextIsEnd
  <2>1. wpc' = "stream" /\ ~completed' /\ rpc' = "complete" /\ try' = try
    BY <1>9 DEF NextIsEnd, Goto, Take, Readable, EndInv
  <2>2. AllHere
    <3>1. tar \in {Append(t, EndMark) : t \in Tars}
      BY DEF TypeOK, CallTypes
    <3>2. ent \in DOMAIN tar /\ tar[ent].kind = "end" /\ rpc = "next"
      BY <1>9, <3>1, TarShape DEF NextIsEnd, Take, Readable, Finished, Place, Goto
    <3>3. ent = Len(tar) /\ Wanted \subseteq 1..Len(tar) /\ ent \notin Wanted
      BY <3>1, <3>2, TarShape DEF Wanted, Kinds
    <3> QED
      BY <3>2, <3>3 DEF AllHere, FilesInv
  <2> QED
    BY <1>0, <2>1, <2>2 DEF EndInv
<1>10. CASE NextIsEof
  <2>1. /\ UNCHANGED <<try, errs, ent>> /\ wpc' = "closed" /\ wpc = "closed" /\ ~completed'
        /\ rpc = "next" /\ rpc' = "complete"
    BY <1>10 DEF NextIsEof, Goto, Eof, EndInv
  <2>2. ASSUME Finished PROVE AllHere
    <3>1. Wanted \subseteq 1..Len(tar) /\ Len(tar) \in Nat
      BY TarShape DEF TypeOK, CallTypes, Wanted
    <3> QED
      BY <2>1, <2>2, <3>1 DEF AllHere, FilesInv, Finished, Place
  <2> QED
    BY <1>0, <2>1, <2>2 DEF EndInv, CutIsRecorded, Err, Finished
<1>11. CASE Untar /\ ~NextIsEnd /\ ~NextIsEof
  <2>1. /\ UNCHANGED <<try, errs, wpc, completed>> /\ rpc \in {"next", "unpack"}
        /\ rpc' \in {"next", "unpack", "fail"}
        /\ Take \/ Leave \/ rpc' = "fail"
    BY <1>11 DEF ReadsFile, Untar, Skip, NextMatches, NextIsEnd, NextIsEof, NextIsCut, ReadsZip,
       UnpackFile, UnpackCorrupt, UnpackToFullDisk, UnpackCut, Unpacks, UnpackFails, Goto, Put,
       WriteFails
  <2>2. ~completed
    BY <2>1 DEF EndInv
  <2>3. Take => wpc = "stream"
    BY DEF Take, Readable
  <2>4. Leave => Finished' = Finished
    BY <1>0 DEF Leave, Finished
  <2> QED
    BY <2>1, <2>2, <2>3, <2>4 DEF EndInv, CutIsRecorded, Err
<1> QED
  BY <1>1, <1>2, <1>3, <1>4, <1>5, <1>6, <1>7, <1>8, <1>9, <1>10, <1>11 DEF Next, ReaderStep,
     ZipStep

\* A file is cut short only by what ends its try, and a try begins with none.
LEMMA StepWhole ==
  ASSUME IndInv, Next
  PROVE  WholeInv'
<1> USE DEF IndInv
<1>0. \A name : IsOffered(name) => IsOffered(name)'
  BY EntriesGrow DEF IsOffered
<1>1. CASE Copy \/ CopyFails
  <2>1. /\ try' = try + 1 /\ entries' = entries
        /\ try \in Nat /\ \A e \in entries : e.try \in 1..try
    BY <1>1, TriesOfErrors DEF Copy, CopyFails, zipVars, FilesInv
  <2> QED
    BY <1>0, <2>1 DEF WholeInv
<1>2. CASE UnpackFile
  <2>1. rpc = "unpack" /\ entries' = entries \cup {[name |-> FileName, try |-> try, whole |-> TRUE]}
        /\ try' = try
    BY <1>2 DEF UnpackFile, Unpacks, Put
  <2>2. IsOffered(FileName)
    BY <2>1, NextFile DEF IsOffered, FileName, Place
  <2> QED
    BY <1>0, <2>1, <2>2 DEF WholeInv
<1>3. CASE UnpackCorrupt \/ UnpackToFullDisk \/ UnpackCut
  <2>1. /\ rpc = "unpack" /\ rpc' = "fail" /\ completed' = completed
        /\ entries' = entries \/ entries' = entries \cup {[name |-> FileName, try |-> try, whole |-> FALSE]}
    BY <1>3 DEF UnpackCorrupt, UnpackToFullDisk, UnpackCut, Unpacks, UnpackFails, Put
  <2>2. ~completed'
    BY <2>1 DEF EndInv
  <2>3. IsOffered(FileName)
    BY <2>1, NextFile DEF IsOffered, FileName, Place
  <2> QED
    BY <1>0, <2>1, <2>2, <2>3 DEF WholeInv
<1>4. CASE DiskFull \/ Done \/ ZipStep
  <2>1. UNCHANGED <<try, entries, completed>> /\ (rpc' \in {"next", "unpack", "complete"} => rpc' = rpc)
    BY <1>4 DEF DiskFull, Done, ZipStep, AddFile, AddFileFails, AddCreateFails, AddEnds, WriteLog,
       WriteLogFails, CloseZip, Add, WriteFails, copyVars, zipVars, vars
  <2> QED
    BY <1>0, <2>1 DEF WholeInv
<1>5. CASE StreamerStep
  <2>1. UNCHANGED <<try, entries, completed, rpc>>
    BY <1>5 DEF StreamerStep, StreamEnds, StreamBreaks, RecordLoads, RecordStores, ClosePipe, Streamer
  <2> QED
    BY <1>0, <2>1 DEF WholeInv
<1>6. CASE CallStep /\ ~Copy /\ ~CopyFails
  <2>1. /\ UNCHANGED <<try, entries>> /\ rpc' \notin {"next", "unpack", "complete"}
        /\ completed' => completed \/ rpc = "complete"
    BY <1>6 DEF CallStep, GiveUp, FailLoads, FailStores, Complete, CompleteFails, Drain, Drained, Goto
  <2> QED
    BY <1>0, <2>1 DEF WholeInv
<1>7. CASE Skip \/ NextMatches \/ NextIsEnd \/ NextIsEof \/ NextIsCut \/ ReadsZip
  <2>1. UNCHANGED <<try, entries, completed>> /\ rpc \in {"next", "unpack"}
    BY <1>7 DEF Skip, NextMatches, NextIsEnd, NextIsEof, NextIsCut, ReadsZip, Goto
  <2> QED
    BY <1>0, <2>1 DEF WholeInv
<1> QED
  BY <1>1, <1>2, <1>3, <1>4, <1>5, <1>6, <1>7 DEF Next, Untar, ReaderStep, ZipStep, CallStep

\* The errors of earlier tries are kept by every step.
LEMMA OldErrorsStay ==
  ASSUME IndInv, Next, NEW x \in errs, x.try < try
  PROVE  x \in errs'
<1> USE DEF IndInv
<1>1. CASE RecordStores
  BY <1>1 DEF RecordStores, Streamer, StoreErrs, ErrInv, Old
<1>2. CASE FailStores
  BY <1>2 DEF FailStores, StoreErrs, ErrInv, Old
<1>3. CASE ~RecordStores /\ ~FailStores
  <2>1. CASE DiskFull \/ Done
    BY <2>1 DEF DiskFull, Done, vars, zipVars
  <2>2. CASE ZipStep
    BY <2>2 DEF ZipStep, AddFile, AddFileFails, AddCreateFails, AddEnds, WriteLog, WriteLogFails,
       CloseZip, Add, WriteFails, copyVars, zipVars
  <2>3. CASE StreamerStep
    BY <1>3, <2>3 DEF StreamerStep, StreamEnds, StreamBreaks, RecordLoads, ClosePipe, LoadErrs
  <2>4. CASE CallStep
    BY <1>3, <2>4 DEF CallStep, Copy, CopyFails, GiveUp, FailLoads, Complete, CompleteFails,
       Drain, Drained, Goto, LoadErrs, zipVars
  <2>5. CASE Untar
    BY <2>5 DEF Untar, Skip, NextMatches, NextIsEnd, NextIsEof, NextIsCut, ReadsZip, UnpackFile,
       UnpackCorrupt, UnpackToFullDisk, UnpackCut, Unpacks, UnpackFails, Goto, Put, WriteFails
  <2> QED
    BY <2>1, <2>2, <2>3, <2>4, <2>5 DEF Next, ReaderStep, ZipStep, CallStep
<1> QED
  BY <1>1, <1>2, <1>3

\* Nothing is taken out of the archive, and a disk that refused stays broken.
LEMMA StepBatch ==
  ASSUME IndInv, Next
  PROVE  BatchInv'
<1> USE DEF IndInv
<1>1. CASE DiskFull \/ Done
  BY <1>1 DEF BatchInv, IsAdded, DiskFull, Done, vars, copyVars, zipVars
<1>2. CASE \E f \in Batch : AddFile(f) \/ AddFileFails(f) \/ AddCreateFails(f)
  BY <1>2 DEF BatchInv, IsAdded, AddFile, AddFileFails, AddCreateFails, Add, WriteFails,
     CanWrite, copyVars
<1>3. CASE AddEnds \/ WriteLog \/ WriteLogFails
  BY <1>3 DEF BatchInv, IsAdded, AddEnds, WriteLog, WriteLogFails, Add, WriteFails, zipVars
<1>4. CASE CloseZip
  BY <1>4 DEF BatchInv, IsAdded, CloseZip
<1>5. CASE StreamerStep \/ CallStep \/ Untar
  <2>1. UNCHANGED <<todo, added, closeErr>> /\ (disk = "broken" => disk' = "broken")
    <3>1. CASE StreamerStep
      BY <3>1 DEF StreamerStep, StreamEnds, StreamBreaks, RecordLoads, RecordStores, ClosePipe,
         Streamer, LoadErrs, StoreErrs
    <3>2. CASE CallStep
      BY <3>2 DEF CallStep, Copy, CopyFails, GiveUp, FailLoads, FailStores, Complete,
         CompleteFails, Drain, Drained, Goto, LoadErrs, StoreErrs, zipVars
    <3>3. CASE Untar
      BY <3>3 DEF Untar, Skip, NextMatches, NextIsEnd, NextIsEof, NextIsCut, ReadsZip,
         UnpackFile, UnpackCorrupt, UnpackToFullDisk, UnpackCut, Unpacks, UnpackFails, Goto, Put,
         WriteFails
    <3> QED
      BY <1>5, <3>1, <3>2, <3>3
  <2>2. rpc \notin {"add", "over", "logged", "closed"} /\ rpc' \notin {"add", "logged", "closed"}
    <3>1. CASE StreamerStep
      BY <3>1 DEF QuietAfterReturn, Calling, StreamerStep, StreamEnds, StreamBreaks, RecordLoads,
         RecordStores, ClosePipe, Streamer, LoadErrs, StoreErrs
    <3>2. CASE CallStep
      BY <3>2 DEF CallStep, Copy, CopyFails, GiveUp, FailLoads, FailStores, Complete,
         CompleteFails, Drain, Drained, Goto, LoadErrs, StoreErrs, zipVars
    <3>3. CASE Untar
      BY <3>3 DEF Untar, Skip, NextMatches, NextIsEnd, NextIsEof, NextIsCut, ReadsZip,
         UnpackFile, UnpackCorrupt, UnpackToFullDisk, UnpackCut, Unpacks, UnpackFails, Goto, Put,
         WriteFails
    <3> QED
      BY <1>5, <3>1, <3>2, <3>3
  <2>3. ASSUME NEW f \in Batch, Err(f, 0) \in errs
        PROVE  Err(f, 0) \in errs'
    <3>1. CASE try > 0
      BY <2>3, <3>1, OldErrorsStay, TriesOfErrors DEF Err
    <3>2. CASE try = 0
      <4>1. rpc \notin Calling \cup {"drain"}
        BY <3>2 DEF FilesInv
      <4>2. wpc = "closed"
        BY <4>1 DEF QuietAfterReturn
      <4> QED
        BY <1>5, <2>3, <4>1, <4>2 DEF Calling, StreamerStep, StreamEnds, StreamBreaks,
           RecordLoads, RecordStores, ClosePipe, Streamer, LoadErrs, StoreErrs, CallStep, Copy,
           CopyFails, GiveUp, FailLoads, FailStores, Complete, CompleteFails, Drain, Drained,
           Goto, zipVars, Untar, Skip, NextMatches, NextIsEnd, NextIsEof, NextIsCut, ReadsZip,
           UnpackFile, UnpackCorrupt, UnpackToFullDisk, UnpackCut, Unpacks
    <3> QED
      BY <3>1, <3>2, TriesOfErrors
  <2> QED
    BY <2>1, <2>2, <2>3 DEF BatchInv, IsAdded
<1> QED
  BY <1>1, <1>2, <1>3, <1>4, <1>5 DEF Next, ReaderStep, CallStep

-----------------------------------------------------------------------------
(***************************************************************************)
(* The theorems.                                                           *)
(***************************************************************************)

\* The archive is empty and its tar unread at first.
LEMMA InitHolds == Init => IndInv
<1> SUFFICES ASSUME Init PROVE IndInv
  OBVIOUS
<1> USE DEF Init
<1>1. tar \in {Append(t, EndMark) : t \in Tars} /\ Len(tar) \in Nat
  BY TarShape
<1>2. \A i \in DOMAIN tar : BodyLen(i) \in Nat
  <2>1. tar \in {Append(t, EndMark) : t \in Tars}
    OBVIOUS
  <2> HIDE DEF Init
  <2> QED
    BY <2>1, TarShape
<1>3. CallTypes
  <2>1. n \in 0..(IF cur = 0 THEN 0 ELSE tar[cur].files) /\ cur \in 0..Len(tar) /\ ent \in 1..(Len(tar) + 1)
    <3>1. n = 0 /\ cur = 0 /\ ent = 1
      OBVIOUS
    <3> HIDE DEF Init
    <3> QED
      BY <1>1, <3>1
  <2>2. try \in 0..MaxTries /\ unit \in Nat
    BY TriesAreNat
  <2>3. rpc = "add" /\ wpc = "closed" /\ caller \in Callers /\ completed \in BOOLEAN
    OBVIOUS
  <2> HIDE DEF Init
  <2> QED
    BY <1>1, <2>1, <2>2, <2>3 DEF CallTypes, Streaming
<1>4. ZipTypes
  BY DEF ZipTypes, Goroutines
<1>5. Place
  BY <1>1, <1>2, TarShape DEF Place, Finished
<1>6. QuietAfterReturn /\ FilesInv /\ ErrInv /\ EndInv /\ WholeInv /\ BatchInv
  BY DEF QuietAfterReturn, FilesInv, ManifestIsWhole, ErrInv, EndInv, WholeInv, BatchInv, Calling, Goroutines
<1> QED
  BY <1>3, <1>4, <1>5, <1>6 DEF IndInv, TypeOK

\* Every step keeps all of it, as a stutter does.
LEMMA StepHolds == IndInv /\ [Next]_vars => IndInv'
<1> SUFFICES ASSUME IndInv, [Next]_vars PROVE IndInv'
  OBVIOUS
<1>1. CASE Next
  <2>1. TypeOK' /\ Place'
    <3>1. CASE Done
      BY <3>1, StaysInPlace DEF IndInv, Done, vars, copyVars, zipVars, TypeOK, CallTypes,
         ZipTypes, Place, Finished, BodyLen, Wanted, IsZip
    <3> QED
      BY <1>1, <3>1, ZipTypeOK, StreamerTypeOK, CallTypeOK, UntarTypeOK DEF IndInv, Next,
         ReaderStep, ZipStep, CallStep
  <2>2. QuietAfterReturn'
    BY <1>1, StepQuiet DEF IndInv
  <2>3. FilesInv'
    BY <1>1, OutsideFiles, UntarFiles DEF IndInv
  <2> QED
    BY <1>1, <2>1, <2>2, <2>3, StepErr, StepEnd, StepWhole, StepBatch DEF IndInv
<1>2. CASE UNCHANGED vars
  <2>1. \A i : InTry(i)' = InTry(i) /\ BodyLen(i)' = BodyLen(i)
    BY <1>2 DEF vars, copyVars, zipVars, InTry, BodyLen
  <2>2. TypeOK' /\ Place' /\ QuietAfterReturn'
    BY <1>2, <2>1 DEF IndInv, vars, copyVars, zipVars, TypeOK, CallTypes, ZipTypes,
       QuietAfterReturn, Place, Finished, Wanted, IsZip
  <2>3. FilesInv' /\ ErrInv' /\ EndInv' /\ WholeInv' /\ BatchInv'
    BY <1>2, <2>1 DEF IndInv, vars, copyVars, zipVars, FilesInv, ManifestIsWhole, ErrInv, Old,
       EndInv, AllHere, CutIsRecorded, Err, Finished, Wanted, WholeInv, IsOffered, BatchInv,
       IsAdded
  <2> QED
    BY <2>2, <2>3 DEF IndInv
<1> QED
  BY <1>1, <1>2

\* So every reachable state has it.
LEMMA Invariance == Spec => []IndInv
<1> QED
  BY InitHolds, StepHolds, PTL DEF Spec

\* Every reachable state has its types: Reader never leaves the tar.
THEOREM TypeCorrect == Spec => []TypeOK
<1>1. IndInv => TypeOK
  BY DEF IndInv
<1> QED
  BY <1>1, Invariance, PTL

\* Streamer is gone whenever the call has come back, for every tar and every
\* place where the stream or the unpacking may end.
THEOREM StreamerIsGone == Spec => []QuietAfterReturn
<1>1. IndInv => QuietAfterReturn
  BY DEF IndInv
<1> QED
  BY <1>1, Invariance, PTL

\* What a try has put there is there.
LEMMA HereIsThere == AllHere => AllThere
  BY DEF AllHere, InTry, AllThere, HasEntry

\* A job is completed only with all files, or with the error of its stream.
THEOREM CompletionIsExplained == Spec => []CompletedIsExplained
<1>1. IndInv => CompletedIsExplained
  BY HereIsThere DEF IndInv, EndInv, AllThere, CutIsRecorded, CompletedIsExplained
<1> QED
  BY <1>1, Invariance, PTL

\* The manifest lists nothing that is not there as a whole.
THEOREM ManifestHolds == Spec => []ManifestIsWhole
<1>1. IndInv => ManifestIsWhole
  BY DEF IndInv, FilesInv
<1> QED
  BY <1>1, Invariance, PTL

\* Each try that went wrong keeps an error, whatever AddError overwrites.
THEOREM ErrorSurvives == Spec => []SomeErrorSurvives
<1>1. IndInv => SomeErrorSurvives
  <2> SUFFICES ASSUME IndInv, NEW t \in 1..try, Failed(t)
               PROVE  \E x \in errs : x.try = t
    BY DEF SomeErrorSurvives
  <2>1. try \in Nat
    BY TriesOfErrors DEF IndInv
  <2>2. CASE t < try
    BY <2>2 DEF IndInv, ErrInv
  <2>3. CASE t = try
    BY <2>1, <2>3 DEF IndInv, ErrInv, Failed
  <2> QED
    BY <2>1, <2>2, <2>3
<1> QED
  BY <1>1, Invariance, PTL

\* A job that is completed left the whole of each file behind, and that last: with
\* all files of its try there, the copies of an earlier try are not the latest.
THEOREM LatestIsWhole == Spec => []LatestCopyWins
<1>1. IndInv => LatestCopyWins
  <2> SUFFICES ASSUME IndInv, completed, Err("streamer", try) \notin errs, NEW e \in entries,
                      \A f \in entries : f.name = e.name => f.try <= e.try
               PROVE  e.try = try /\ e.whole
    BY DEF LatestCopyWins
  <2>1. AllHere /\ IsOffered(e.name)
    BY DEF IndInv, EndInv, CutIsRecorded, WholeInv
  <2>2. [name |-> e.name, try |-> try, whole |-> TRUE] \in entries
    BY <2>1 DEF AllHere, InTry, IsOffered
  <2>3. try <= e.try /\ e.try \in 1..try /\ try \in Nat
    BY <2>2, TriesOfErrors DEF IndInv, FilesInv
  <2> QED
    BY <2>3 DEF IndInv, WholeInv
<1> QED
  BY <1>1, Invariance, PTL

\* A closed archive is complete, names what it lacks, or Close said no.
THEOREM ArchiveIsExplained == Spec => []ClosedIsExplained
<1>1. IndInv => ClosedIsExplained
  BY DEF IndInv, BatchInv, ClosedIsExplained
<1> QED
  BY <1>1, Invariance, PTL

-----------------------------------------------------------------------------
(***************************************************************************)
(* The calls as an Extraction.                                             *)
(***************************************************************************)

\* The ranks of what there is of the results.
LEMMA Ranks ==
  /\ DOMAIN E!Rank = {"nothing", "partial", "full", "empty"}
  /\ E!Rank["nothing"] = 0 /\ E!Rank["partial"] = 1
  /\ E!Rank["full"] = 2 /\ E!Rank["empty"] = 2
BY DEF E!Rank

\* What the archive has only grows.
LEMMA GotGrows ==
  ASSUME IndInv, Next
  PROVE  Got' \in DOMAIN E!Rank /\ E!Rank[Got] <= E!Rank[Got']
<1>1. /\ Wanted' = Wanted /\ (AllThere => AllThere') /\ entries \subseteq entries'
      /\ Wanted = {} => AllThere
  BY EntriesGrow DEF AllThere
<1>2. completed => completed'
  <2>1. CASE DiskFull \/ Done
    BY <2>1 DEF DiskFull, Done, vars
  <2>2. CASE ZipStep
    BY <2>2 DEF ZipStep, AddFile, AddFileFails, AddCreateFails, AddEnds, WriteLog, WriteLogFails,
       CloseZip, Add, WriteFails, copyVars, zipVars
  <2>3. CASE StreamerStep
    <3>1. UNCHANGED completed
      BY <2>3 DEF StreamerStep, StreamEnds, StreamBreaks, RecordLoads, RecordStores, ClosePipe,
         Streamer, LoadErrs, StoreErrs
    <3> QED
      BY <3>1
  <2>4. CASE CallStep
    BY <2>4 DEF CallStep, Copy, CopyFails, GiveUp, FailLoads, FailStores, Complete,
       CompleteFails, Drain, Drained, Goto, LoadErrs, StoreErrs, zipVars
  <2>5. CASE Untar
    BY <2>5 DEF Untar, Skip, NextMatches, NextIsEnd, NextIsEof, NextIsCut, ReadsZip, UnpackFile,
       UnpackCorrupt, UnpackToFullDisk, UnpackCut, Unpacks, UnpackFails, Goto, Put, WriteFails
  <2> QED
    BY <2>1, <2>2, <2>3, <2>4, <2>5 DEF Next, ReaderStep, ZipStep, CallStep
<1>3. CASE Got' = Got
  BY <1>3, Ranks DEF Got
<1>4. CASE Got' # Got
  <2>1. Got = "nothing" \/ (Got = "partial" /\ Got' = "full")
    BY <1>1, <1>2, <1>4 DEF Got
  <2>2. Got' \in {"nothing", "partial", "full", "empty"}
    BY DEF Got
  <2> QED
    BY <2>1, <2>2, Ranks
<1> QED
  BY <1>3, <1>4

\* An error stays, as far as the archive has one.
LEMMA ReportedStays ==
  ASSUME IndInv, Next
  PROVE  Reported' \in {Reported, TRUE}
<1>1. Reported => Reported'
  <2> SUFFICES ASSUME NEW x \in errs, x.try > 0
               PROVE  \E y \in errs' : y.try > 0
    BY DEF Reported
  <2>1. CASE x \in errs'
    BY <2>1
  <2>2. CASE x \notin errs'
    <3>1. x.try = try
      BY <2>2, OldErrorsStay, TriesOfErrors DEF IndInv, ErrInv
    <3>2. RecordStores \/ FailStores
      <4>1. CASE DiskFull \/ Done
        BY <2>2, <4>1 DEF DiskFull, Done, vars, zipVars
      <4>2. CASE ZipStep
        BY <2>2, <4>2 DEF ZipStep, AddFile, AddFileFails, AddCreateFails, AddEnds, WriteLog,
           WriteLogFails, CloseZip, Add, WriteFails, copyVars, zipVars
      <4>3. CASE StreamerStep
        BY <2>2, <4>3 DEF StreamerStep, StreamEnds, StreamBreaks, RecordLoads, ClosePipe, LoadErrs
      <4>4. CASE CallStep
        BY <2>2, <4>4 DEF CallStep, Copy, CopyFails, GiveUp, FailLoads, Complete, CompleteFails,
           Drain, Drained, Goto, LoadErrs, zipVars
      <4>5. CASE Untar
        BY <2>2, <4>5 DEF Untar, Skip, NextMatches, NextIsEnd, NextIsEof, NextIsCut, ReadsZip,
           UnpackFile, UnpackCorrupt, UnpackToFullDisk, UnpackCut, Unpacks, UnpackFails, Goto,
           Put, WriteFails
      <4> QED
        BY <4>1, <4>2, <4>3, <4>4, <4>5 DEF Next, ReaderStep, ZipStep, CallStep
    <3>3. PICK g \in Goroutines : Err(g, try) \in errs'
      BY <3>2 DEF RecordStores, FailStores, StoreErrs, Goroutines
    <3> QED
      BY <3>1, <3>3 DEF Err
  <2> QED
    BY <2>1, <2>2
<1>2. Reported \in BOOLEAN /\ Reported' \in BOOLEAN
  BY DEF Reported
<1> QED
  BY <1>1, <1>2

\* Outside of a call nothing changes of what is extracted.
LEMMA OutsideCall ==
  ASSUME IndInv, Next, rpc \notin Calling
  PROVE  /\ Got' = Got
         /\ rpc' \in Calling => Reported' = Reported
<1>1. UNCHANGED <<tar, entries, completed>> /\ (rpc' \in Calling => errs' = errs)
  <2>1. CASE DiskFull \/ Done
    BY <2>1 DEF DiskFull, Done, vars, copyVars, zipVars
  <2>2. CASE ZipStep
    BY <2>2 DEF Calling, ZipStep, AddFile, AddFileFails, AddCreateFails, AddEnds, WriteLog,
       WriteLogFails, CloseZip, Add, WriteFails, copyVars, zipVars
  <2>3. CASE StreamerStep
    <3>1. UNCHANGED <<tar, entries, completed, rpc>>
      BY <2>3 DEF StreamerStep, StreamEnds, StreamBreaks, RecordLoads, RecordStores, ClosePipe,
         Streamer, LoadErrs, StoreErrs
    <3> QED
      BY <3>1
  <2>4. CASE CallStep
    BY <2>4 DEF Calling, CallStep, Copy, CopyFails, GiveUp, FailLoads, FailStores, Complete,
       CompleteFails, Drain, Drained, Goto, LoadErrs, StoreErrs, zipVars
  <2>5. CASE Untar
    BY <2>5 DEF Calling, Untar, Skip, NextMatches, NextIsEnd, NextIsEof, NextIsCut, ReadsZip,
       UnpackFile, UnpackCorrupt, UnpackToFullDisk, UnpackCut, Unpacks, UnpackFails, Goto, Put,
       WriteFails
  <2> QED
    BY <2>1, <2>2, <2>3, <2>4, <2>5 DEF Next, ReaderStep, ZipStep, CallStep
<1>2. Wanted' = Wanted /\ (AllThere' <=> AllThere)
  BY <1>1 DEF AllThere, HasEntry, Wanted
<1> QED
  BY <1>1, <1>2 DEF Got, Reported

\* A call comes back with the results or an error.
LEMMA CallEnds ==
  ASSUME IndInv, Next, rpc \in Calling, rpc' \notin Calling
  PROVE  Got' \in {"full", "empty"} \/ Reported'
<1>0. try \in Nat /\ try > 0
  BY TriesOfErrors DEF IndInv, FilesInv
<1>1. Complete \/ FailStores
  <2>1. CASE DiskFull \/ Done
    BY <2>1 DEF DiskFull, Done, vars, copyVars
  <2>2. CASE ZipStep
    BY <2>2 DEF Calling, ZipStep, AddFile, AddFileFails, AddCreateFails, AddEnds, WriteLog,
       WriteLogFails, CloseZip, Add, WriteFails, copyVars, zipVars
  <2>3. CASE StreamerStep
    <3>1. UNCHANGED rpc
      BY <2>3 DEF StreamerStep, StreamEnds, StreamBreaks, RecordLoads, RecordStores, ClosePipe,
         Streamer, LoadErrs, StoreErrs
    <3> QED
      BY <3>1
  <2>4. CASE CallStep
    BY <2>4 DEF Calling, CallStep, Copy, CopyFails, GiveUp, FailLoads, CompleteFails, Drain,
       Drained, Goto
  <2>5. CASE Untar
    BY <2>5 DEF Calling, Untar, Skip, NextMatches, NextIsEnd, NextIsEof, NextIsCut, ReadsZip,
       UnpackFile, UnpackCorrupt, UnpackToFullDisk, UnpackCut, Unpacks, UnpackFails, Goto, Put,
       WriteFails
  <2> QED
    BY <2>1, <2>2, <2>3, <2>4, <2>5 DEF Next, ReaderStep, ZipStep, CallStep
<1>2. CASE Complete
  <2>1. completed' /\ errs' = errs
    BY <1>2 DEF Complete, Goto
  <2>2. AllThere \/ Err("streamer", try) \in errs
    BY <1>2, HereIsThere DEF IndInv, EndInv, CutIsRecorded, Complete, Goto
  <2>3. CASE AllThere
    <3>1. AllThere'
      BY <2>3, EntriesGrow DEF AllThere
    <3> QED
      BY <2>1, <3>1 DEF Got
  <2>4. CASE Err("streamer", try) \in errs
    BY <1>0, <2>1, <2>4 DEF Reported, Err
  <2> QED
    BY <2>2, <2>3, <2>4
<1>3. CASE FailStores
  <2>1. Err("reader", try) \in errs'
    BY <1>3 DEF FailStores, StoreErrs
  <2> QED
    BY <1>0, <2>1 DEF Reported, Err
<1> QED
  BY <1>1, <1>2, <1>3

\* Kubectl.Copy and UntarIntoZip together keep the promise the callers rely on:
\* the results or an error, for any tar and wherever its stream breaks.
THEOREM ImplementsExtraction == Spec => IsExtraction
<1>1. Init => E!Init
  <2> SUFFICES ASSUME Init PROVE E!Init
    OBVIOUS
  <2>1. rpc \notin Calling /\ ~Reported /\ entries = {} /\ ~completed
    BY DEF Init, Calling, Reported
  <2>2. AllThere => Wanted = {}
    <3>1. tar \in {Append(t, EndMark) : t \in Tars}
      BY DEF Init
    <3>2. \A i \in Wanted : 1 \in 1..tar[i].files
      BY <3>1, TarShape DEF Wanted
    <3> QED
      BY <2>1, <3>2 DEF AllThere, HasEntry
  <2> QED
    BY <2>1, <2>2 DEF E!Init, Got
<1>2. IndInv /\ [Next]_vars => [E!Next]_(E!vars)
  <2> SUFFICES ASSUME IndInv, [Next]_vars PROVE [E!Next]_(E!vars)
    OBVIOUS
  <2>1. CASE Next
    <3>1. Reported' \in {Reported, TRUE}
      BY <2>1, ReportedStays
    <3>2. CASE rpc \notin Calling
      <4>1. Got' = Got
        BY <2>1, <3>2, OutsideCall
      <4>2. CASE rpc' \in Calling
        BY <2>1, <3>2, <4>1, <4>2, OutsideCall DEF E!Next, E!Begin
      <4>3. CASE rpc' \notin Calling /\ Reported' = TRUE
        BY <3>2, <4>1, <4>3 DEF E!Next, E!Report
      <4>4. CASE rpc' \notin Calling /\ Reported' = Reported
        BY <3>2, <4>1, <4>4 DEF E!vars
      <4> QED
        BY <3>1, <4>2, <4>3, <4>4
    <3>3. CASE rpc \in Calling
      <4>1. E!Grows
        BY <2>1, <3>1, GotGrows DEF E!Grows
      <4> QED
        BY <2>1, <3>3, <4>1, CallEnds DEF E!Next, E!Unpack, E!End
    <3> QED
      BY <3>2, <3>3
  <2>2. CASE UNCHANGED vars
    BY <2>2 DEF vars, copyVars, zipVars, E!vars, Got, AllThere, HasEntry, Wanted, Reported
  <2> QED
    BY <2>1, <2>2
<1> QED
  BY <1>1, <1>2, Invariance, PTL DEF Spec, IsExtraction, E!Spec
=============================================================================
