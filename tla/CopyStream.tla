----------------------------- MODULE CopyStream -----------------------------
(***************************************************************************)
(* From a container to the archive: Kubectl.Copy (internal/kubectl.go),    *)
(* UntarIntoZip (internal/extraction), the callers extractFromRemote and   *)
(* copyAgentDiagnostics, and the ZipFile they write to (internal/archive). *)
(*                                                                         *)
(* Two goroutines are joined by an io.Pipe, which has no buffer:           *)
(*   - Streamer writes the tar that the remote command produces, records   *)
(*     an error if the connection breaks, and closes the pipe;             *)
(*   - Reader unpacks the tar into the archive, records an error if it     *)
(*     cannot, and drains the pipe before it comes back.                   *)
(* Both record errors with ZipFile.AddError, which takes no lock: it reads *)
(* the slice errs and stores a longer one.                                 *)
(*                                                                         *)
(* Before the copy Reader has filled the archive with a batch of files     *)
(* (ZipFile.Add), after it it writes the log and closes the archive.       *)
(***************************************************************************)
EXTENDS Naturals, Sequences

CONSTANTS
  Tars,      \* the tars a container may offer: sequences of entries
  Batch,     \* names of the files handed to ZipFile.Add
  MaxTries,  \* how often the informer may start an extraction
  Callers,   \* the callers looked at: "stack", "agent"
  Faults     \* what may go wrong besides a stream that breaks

(***************************************************************************)
(* An entry of the tar: "other" is a file UntarIntoZip ignores, "tgz" and  *)
(* "zip" hold an archive of files, of which the last cannot be unpacked    *)
(* unless it is sound; "file" is copied as it is. "end" is the end marker. *)
(***************************************************************************)
Kinds   == {"tgz", "zip", "file"}
Entries == {e \in [kind : Kinds \cup {"other"}, files : Nat \ {0}, sound : BOOLEAN] :
              e.kind \notin {"tgz", "zip"} => e.files = 1 /\ e.sound}
EndMark == [kind |-> "end", files |-> 1, sound |-> TRUE]

\* diskFull : what is written to the archive does not reach the disk
\* delete   : completeJob cannot delete the Pod or its Secret
\* source   : a file of the batch cannot be produced
AllFaults == {"diskFull", "delete", "source"}

Log == "eck-diagnostics.log"

ASSUME TarsAreTars  == Tars \subseteq Seq(Entries)
ASSUME TriesAreNat  == MaxTries \in Nat
ASSUME KnownCallers == Callers \subseteq {"stack", "agent"}
ASSUME KnownFaults  == Faults \subseteq AllFaults
ASSUME NameIsNotLog == Log \notin Batch

VARIABLES
  caller,    \* "stack" or "agent"
  tar,       \* what the container has to offer, with its end marker
  rpc, wpc,  \* where Reader and Streamer are
  try,       \* the extraction under way, or the last one
  ent, unit, \* the next piece of the tar to go through the pipe
  cur,       \* the entry Reader unpacks
  n,         \* files of that entry that were unpacked
  added,     \* ZipFile.Writer: the files created outside of a copy
  entries,   \* ZipFile.Writer: the files created by a copy, by name and try
  manifest,  \* ZipFile.manifest: the entries and tries it lists
  errs,      \* ZipFile.errs
  loaded,    \* what each goroutine has read of errs, in AddError
  disk,      \* "ok", "full", or "broken": the zip.Writer has seen an error
  todo,      \* ZipFile.Add: files still to be added
  completed, \* UntarIntoZip returned no error; a stack job is completed then
  closeErr   \* ZipFile.Close returned an error

copyVars == <<caller, tar, rpc, wpc, try, ent, unit, cur, n>>
zipVars  == <<added, entries, manifest, errs, loaded, disk, todo, closeErr>>
vars == <<copyVars, zipVars, completed>>

Err(who, t) == [who |-> who, try |-> t]

\* The pieces of the body of entry i: its files, and for an archive what
\* follows the last file; the end marker is followed by padding.
BodyLen(i) == tar[i].files + (IF tar[i].kind \in {"tgz", "zip"} THEN 1 ELSE 0)

Wanted == {i \in DOMAIN tar : tar[i].kind \in Kinds}

Finished == ent > Len(tar)

-----------------------------------------------------------------------------
(***************************************************************************)
(* ZipFile                                                                 *)
(***************************************************************************)

\* A write succeeds as long as the buffer takes it, and fails for good once
\* the disk has refused the buffer's contents.
CanWrite   == disk # "broken"
WriteFails == disk # "ok" /\ disk' = "broken"

\* Create and the writes that follow it: the file is whole or cut short.
Add(name, whole) == added' = added \cup {[name |-> name, whole |-> whole]}
Put(name, whole) ==
  entries' = entries \cup {[name |-> name, try |-> try, whole |-> whole]}

DiskFull ==
  /\ "diskFull" \in Faults /\ disk = "ok" /\ rpc # "closed"
  /\ disk' = "full"
  /\ UNCHANGED <<copyVars, added, entries, manifest, errs, loaded, todo, closeErr, completed>>

\* One turn of the loop in Add, over a map in no particular order.
AddFile(f) ==
  /\ rpc = "add" /\ f \in todo /\ CanWrite
  /\ Add(f, TRUE)
  /\ todo' = todo \ {f}
  /\ UNCHANGED <<copyVars, entries, manifest, errs, loaded, disk, closeErr, completed>>

\* The function of the file fails, or a write to the archive.
AddFileFails(f) ==
  /\ rpc = "add" /\ f \in todo /\ CanWrite
  /\ \/ "source" \in Faults /\ UNCHANGED disk
     \/ WriteFails
  /\ Add(f, FALSE)
  /\ errs' = errs \cup {Err(f, 0)}
  /\ todo' = todo \ {f}
  /\ UNCHANGED <<copyVars, entries, manifest, loaded, closeErr, completed>>

\* The file cannot be created: Add returns, and leaves the others out.
AddCreateFails(f) ==
  /\ rpc = "add" /\ f \in todo
  /\ WriteFails
  /\ errs' = errs \cup {Err(f, 0)}
  /\ todo' = {}
  /\ UNCHANGED <<copyVars, added, entries, manifest, loaded, closeErr, completed>>

AddEnds ==
  /\ rpc = "add" /\ todo = {}
  /\ rpc' = "idle"
  /\ UNCHANGED <<caller, tar, wpc, try, ent, unit, cur, n, zipVars, completed>>

\* AddError in two steps, by goroutine g.
LoadErrs(g) ==
  /\ loaded' = [loaded EXCEPT ![g] = errs]
  /\ UNCHANGED errs

\* Mistake: the new error takes the place of the others.
StoreOnly(g) ==
  /\ errs' = {Err(g, try)}
  /\ loaded' = [loaded EXCEPT ![g] = {}]

StoreErrs(g) ==
  /\ errs' = loaded[g] \cup {Err(g, try)}
  /\ loaded' = [loaded EXCEPT ![g] = {}]

\* addDiagnosticLogToArchive, at the end of Run.
WriteLog ==
  /\ rpc = "over" /\ CanWrite
  /\ Add(Log, TRUE)
  /\ rpc' = "logged"
  /\ UNCHANGED <<caller, tar, wpc, try, ent, unit, cur, n, entries, manifest, errs,
                 loaded, disk, todo, closeErr, completed>>

WriteLogFails ==
  /\ rpc = "over" /\ WriteFails
  /\ errs' = errs \cup {Err(Log, 0)}
  /\ rpc' = "logged"
  /\ UNCHANGED <<caller, tar, wpc, try, ent, unit, cur, n, added, entries, manifest, loaded, todo,
                 closeErr, completed>>

\* Mistake: the error of the zip.Writer is dropped.
CloseSilently ==
  /\ rpc = "logged"
  /\ closeErr' = FALSE
  /\ rpc' = "closed"
  /\ UNCHANGED <<caller, tar, wpc, try, ent, unit, cur, n, added, entries, manifest, errs, loaded,
                 disk, todo, completed>>

\* Close writes the manifest and the errors, flushes, and closes the file,
\* whichever of these fails.
CloseZip ==
  /\ rpc = "logged"
  /\ closeErr' = (disk # "ok")
  /\ rpc' = "closed"
  /\ UNCHANGED <<caller, tar, wpc, try, ent, unit, cur, n, added, entries, manifest, errs, loaded,
                 disk, todo, completed>>

-----------------------------------------------------------------------------
(***************************************************************************)
(* Streamer                                                                *)
(***************************************************************************)
Streamer(from, to) ==
  /\ wpc = from /\ wpc' = to
  /\ UNCHANGED <<caller, tar, rpc, try, ent, unit, cur, n, added, entries, manifest, disk, todo,
                 closeErr, completed>>

\* The remote command ended well and all it wrote was taken.
StreamEnds == Finished /\ Streamer("stream", "close") /\ UNCHANGED <<errs, loaded>>

\* Mistake: the pipe is closed and no error recorded.
StreamEndsEarly == Streamer("stream", "close") /\ UNCHANGED <<errs, loaded>>

\* The connection breaks, the context is done, or the command failed.
StreamBreaks == Streamer("stream", "record") /\ UNCHANGED <<errs, loaded>>

RecordLoads  == Streamer("record", "recording") /\ LoadErrs("streamer")
RecordStores == Streamer("recording", "close") /\ StoreErrs("streamer")

\* The deferred Close: from now on a read returns io.EOF.
ClosePipe == Streamer("close", "closed") /\ UNCHANGED <<errs, loaded>>

-----------------------------------------------------------------------------
(***************************************************************************)
(* Reader: the pipe                                                        *)
(***************************************************************************)
Readable == wpc = "stream" /\ ~Finished
Eof      == wpc = "closed"

\* One piece goes through the pipe.
Take ==
  /\ Readable
  /\ IF unit < BodyLen(ent) THEN unit' = unit + 1 /\ UNCHANGED ent
                            ELSE unit' = 0 /\ ent' = ent + 1

Leave == UNCHANGED <<ent, unit>>

\* Reader goes from one place to another and touches nothing of the archive.
Goto(from, to) ==
  /\ rpc = from /\ rpc' = to
  /\ UNCHANGED <<caller, tar, wpc, try, added, entries, manifest, errs, loaded, disk, todo,
                 closeErr>>

\* Copy has made a pipe and started Streamer.
Copy ==
  /\ try < MaxTries
  /\ rpc = "idle" /\ rpc' = "next"
  /\ wpc' = "stream"
  /\ try' = try + 1
  /\ ent' = 1 /\ unit' = 0 /\ cur' = 0 /\ n' = 0
  /\ UNCHANGED <<caller, tar, zipVars, completed>>

\* The executor cannot be made: Copy returns an error and starts nothing.
CopyFails ==
  /\ try < MaxTries
  /\ rpc = "idle"
  /\ try' = try + 1
  /\ errs' = errs \cup {Err("reader", try + 1)}
  /\ rpc' = IF caller = "agent" THEN "over" ELSE "idle"
  /\ UNCHANGED <<caller, tar, wpc, ent, unit, cur, n, added, entries, manifest, loaded, disk, todo,
                 closeErr, completed>>

\* No further update of the Pod arrives: the job timed out or was aborted.
GiveUp ==
  /\ Goto("idle", "over")
  /\ UNCHANGED <<ent, unit, cur, n, completed>>

(***************************************************************************)
(* Reader: UntarIntoZip                                                    *)
(***************************************************************************)

\* tarReader.Next skips what is left of an entry, and UntarIntoZip entries
\* without the prefix.
Skip ==
  /\ Goto("next", "next")
  /\ Take
  /\ unit > 0 \/ tar[ent].kind = "other"
  /\ UNCHANGED <<cur, n, completed>>

NextMatches ==
  /\ Goto("next", "unpack")
  /\ unit = 0 /\ ent \in Wanted
  /\ Take
  /\ cur' = ent /\ n' = 0
  /\ UNCHANGED completed

NextIsEnd ==
  /\ Goto("next", "complete")
  /\ Take
  /\ unit = 0 /\ tar[ent].kind = "end"
  /\ UNCHANGED <<cur, n, completed>>

\* Between two entries io.EOF is a regular end, unless part of the next
\* header has come through.
NextIsEof ==
  /\ Eof /\ unit = 0
  /\ Goto("next", "complete")
  /\ UNCHANGED <<ent, unit, cur, n, completed>>

NextIsCut ==
  /\ Eof
  /\ Goto("next", "fail")
  /\ UNCHANGED <<ent, unit, cur, n, completed>>

\* A file of the current entry: RepackageTarGzip and io.Copy unpack while they
\* read, RepackageZip has read everything before.
IsZip       == tar[cur].kind = "zip"
ZipIsRead   == ent # cur
FileName    == <<cur, n + 1>>
FileIsSound == n + 1 < tar[cur].files \/ tar[cur].sound

\* Mistake: one file too many is read.
OnePastLast == n = tar[cur].files

LastFile    == n + 1 = tar[cur].files

ReadsZip ==
  /\ Goto("unpack", "unpack")
  /\ IsZip /\ ~ZipIsRead /\ Take
  /\ UNCHANGED <<cur, n, completed>>

ReadsFile == IF IsZip THEN ZipIsRead /\ Leave ELSE Take

\* The pieces of state that unpacking a file changes besides the archive.
Unpacks ==
  /\ rpc = "unpack"
  /\ UNCHANGED <<caller, tar, wpc, try, cur, added, errs, loaded, todo, closeErr, completed>>

\* Mistake: the manifest lists an entry when its first file is there.
ListFirst ==
  /\ Unpacks /\ ReadsFile
  /\ FileIsSound /\ CanWrite
  /\ Put(FileName, TRUE)
  /\ n' = n + 1
  /\ manifest' = IF n = 0 THEN manifest \cup {[ent |-> cur, try |-> try]} ELSE manifest
  /\ rpc' = IF LastFile THEN "next" ELSE "unpack"
  /\ UNCHANGED disk

\* Mistake: a file whose name the archive has already is not written again.
SkipKnown ==
  /\ Unpacks /\ ReadsFile
  /\ FileIsSound /\ CanWrite
  /\ IF \E e \in entries : e.name = FileName THEN UNCHANGED entries ELSE Put(FileName, TRUE)
  /\ n' = n + 1
  /\ manifest' = IF LastFile THEN manifest \cup {[ent |-> cur, try |-> try]} ELSE manifest
  /\ rpc' = IF LastFile THEN "next" ELSE "unpack"
  /\ UNCHANGED disk

\* The file is unpacked; after the last one the manifest gets an entry.
UnpackFile ==
  /\ Unpacks /\ ReadsFile
  /\ FileIsSound /\ CanWrite
  /\ Put(FileName, TRUE)
  /\ n' = n + 1
  /\ manifest' = IF LastFile THEN manifest \cup {[ent |-> cur, try |-> try]} ELSE manifest
  /\ rpc' = IF LastFile THEN "next" ELSE "unpack"
  /\ UNCHANGED disk

\* What stops the unpacking of a file may leave part of it behind.
UnpackFails(begun) ==
  /\ IF begun THEN Put(FileName, FALSE) ELSE UNCHANGED entries
  /\ rpc' = "fail"
  /\ UNCHANGED <<manifest, n>>

\* Mistake: a corrupt archive is passed over.
PassOverCorrupt ==
  /\ Unpacks /\ ReadsFile /\ ~FileIsSound /\ CanWrite
  /\ rpc' = "next"
  /\ UNCHANGED <<entries, manifest, n, disk>>

\* The archive inside the tar is corrupt. A zip is found to be before any of
\* its files is created, or at the file.
UnpackCorrupt ==
  /\ Unpacks /\ ReadsFile /\ ~FileIsSound /\ CanWrite
  /\ \E begun \in BOOLEAN : UnpackFails(begun)
  /\ UNCHANGED disk

\* Create fails, or a write to the file it created.
UnpackToFullDisk ==
  /\ Unpacks /\ ReadsFile /\ WriteFails
  /\ \E begun \in (IF CanWrite THEN BOOLEAN ELSE {FALSE}) : UnpackFails(begun)

\* The stream broke within the entry. A plain file was created before.
UnpackCut ==
  /\ Unpacks /\ Eof /\ (IsZip => ~ZipIsRead)
  /\ \E begun \in (IF IsZip \/ ~CanWrite THEN {FALSE}
                   ELSE IF tar[cur].kind = "file" THEN {TRUE} ELSE BOOLEAN) : UnpackFails(begun)
  /\ Leave /\ UNCHANGED disk

(***************************************************************************)
(* Reader: extractFromRemote and copyAgentDiagnostics                      *)
(***************************************************************************)

\* file.AddError, for the error of UntarIntoZip or of completeJob.
FailLoads ==
  /\ rpc = "fail" /\ rpc' = "failing"
  /\ LoadErrs("reader")
  /\ UNCHANGED <<caller, tar, wpc, try, ent, unit, cur, n, added, entries, manifest, disk, todo,
                 closeErr, completed>>

FailStores ==
  /\ rpc = "failing" /\ rpc' = "drain"
  /\ StoreErrs("reader")
  /\ UNCHANGED <<caller, tar, wpc, try, ent, unit, cur, n, added, entries, manifest, disk, todo,
                 closeErr, completed>>

\* UntarIntoZip returned no error: a stack job is completed, that is, marked
\* done and its Pod deleted.
Complete ==
  /\ Goto("complete", "drain")
  /\ completed' = TRUE
  /\ UNCHANGED <<ent, unit, cur, n>>

CompleteFails ==
  /\ "delete" \in Faults /\ caller = "stack"
  /\ Goto("complete", "fail")
  /\ completed' = TRUE
  /\ UNCHANGED <<ent, unit, cur, n>>

\* The deferred io.Copy(io.Discard, reader).
Drain ==
  /\ Goto("drain", "drain")
  /\ Take
  /\ UNCHANGED <<cur, n, completed>>

\* Mistake: the call comes back without having drained the pipe.
ReturnAtOnce ==
  /\ Goto("drain", IF completed \/ caller = "agent" THEN "over" ELSE "idle")
  /\ UNCHANGED <<ent, unit, cur, n, completed>>

\* The pipe is at its end: the call comes back. A stack job that is not done is
\* tried again when its Pod is next updated.
Drained ==
  /\ Eof
  /\ Goto("drain", IF completed \/ caller = "agent" THEN "over" ELSE "idle")
  /\ UNCHANGED <<ent, unit, cur, n, completed>>

-----------------------------------------------------------------------------
Init ==
  /\ caller \in Callers
  /\ tar \in {Append(t, EndMark) : t \in Tars}
  /\ rpc = "add" /\ wpc = "closed"
  /\ try = 0 /\ ent = 1 /\ unit = 0 /\ cur = 0 /\ n = 0
  /\ added = {} /\ entries = {} /\ manifest = {} /\ errs = {}
  /\ loaded = [g \in {"reader", "streamer"} |-> {}]
  /\ disk = "ok"
  /\ todo = Batch
  /\ completed = FALSE
  /\ closeErr = FALSE

StreamerStep == StreamEnds \/ StreamBreaks \/ RecordLoads \/ RecordStores \/ ClosePipe

Untar ==
  \/ Skip \/ NextMatches \/ NextIsEnd \/ NextIsEof \/ NextIsCut
  \/ ReadsZip \/ UnpackFile \/ UnpackCorrupt \/ UnpackToFullDisk \/ UnpackCut

ReaderStep ==
  \/ \E f \in Batch : AddFile(f) \/ AddFileFails(f) \/ AddCreateFails(f)
  \/ AddEnds \/ Copy \/ CopyFails \/ GiveUp
  \/ Untar \/ FailLoads \/ FailStores \/ Complete \/ CompleteFails \/ Drain \/ Drained
  \/ WriteLog \/ WriteLogFails \/ CloseZip

\* The archive is closed: no step is left.
Done == rpc = "closed" /\ wpc = "closed" /\ UNCHANGED vars

Next == DiskFull \/ StreamerStep \/ ReaderStep \/ Done

Spec == Init /\ [][Next]_vars

(***************************************************************************)
(* Both goroutines run when they can: the remote command writes what it    *)
(* has as long as somebody reads it, and ends. Nothing makes a connection  *)
(* break; while nobody reads, Streamer waits in its write to the pipe.     *)
(***************************************************************************)
FairSpec == Spec /\ WF_vars(StreamEnds \/ RecordLoads \/ RecordStores \/ ClosePipe)
                 /\ WF_vars(ReaderStep)

-----------------------------------------------------------------------------
Streaming == {"stream", "record", "recording", "close"}
Calling   == {"next", "unpack", "complete", "fail", "failing"}

Goroutines == {"reader", "streamer"}
Errors     == [who : Batch \cup Goroutines \cup {Log}, try : 0..MaxTries]

CallTypes ==
  /\ caller \in Callers /\ tar \in {Append(t, EndMark) : t \in Tars}
  /\ rpc \in Calling \cup {"add", "idle", "drain", "over", "logged", "closed"}
  /\ wpc \in Streaming \cup {"closed"}
  /\ try \in 0..MaxTries
  /\ ent \in 1..(Len(tar) + 1) /\ unit \in Nat
  /\ cur \in 0..Len(tar) /\ n \in 0..(IF cur = 0 THEN 0 ELSE tar[cur].files)
  /\ completed \in BOOLEAN

ZipTypes ==
  /\ added \subseteq [name : Batch \cup {Log}, whole : BOOLEAN]
  /\ entries \subseteq [name : Nat \X Nat, try : 0..MaxTries, whole : BOOLEAN]
  /\ manifest \subseteq [ent : Nat, try : 0..MaxTries]
  /\ errs \subseteq Errors /\ loaded \in [Goroutines -> SUBSET Errors]
  /\ disk \in {"ok", "full", "broken"}
  /\ todo \subseteq Batch /\ closeErr \in BOOLEAN

\* Every variable has its type; Reader stays inside the tar and unpacks no more
\* files than there are.
TypeOK == CallTypes /\ ZipTypes

\* The archive holds the whole of a file, or of what an entry has to offer.
IsAdded(f)  == [name |-> f, whole |-> TRUE] \in added
HasEntry(i) == \A k \in 1..tar[i].files : \E e \in entries : e.name = <<i, k>> /\ e.whole

\* When the call has come back, its Streamer is gone. So none is left behind
\* that blocks on a pipe nobody reads, and none records an error while Close
\* writes the errors file or after it.
QuietAfterReturn == rpc \notin Calling \cup {"drain"} => wpc = "closed"

\* A job is completed only when the archive has everything the container had
\* to offer, or the error of the stream that broke is already on record. The
\* case is a stream that breaks between two entries: the pipe is closed
\* without an error, and UntarIntoZip takes it for the end of the tar.
CompletedIsExplained ==
  completed => (\A i \in Wanted : HasEntry(i)) \/ Err("streamer", try) \in errs

\* The manifest lists only diagnostics that are in the archive as a whole, from
\* the try that listed them.
ManifestIsWhole ==
  \A m \in manifest : \A k \in 1..tar[m.ent].files :
    [name |-> <<m.ent, k>>, try |-> m.try, whole |-> TRUE] \in entries

\* Repeats are told apart by their order. Of the files that several tries began,
\* unpacking the archive leaves the latest copy: once a job is completed that is
\* the one of the try that completed it, and whole, whatever the tries before it
\* left behind, or the error of the stream that broke is on record.
LatestCopyWins ==
  completed /\ Err("streamer", try) \notin errs =>
    \A e \in entries :
      (\A f \in entries : f.name = e.name => f.try <= e.try) => e.try = try /\ e.whole

\* Reader and Streamer may record at the same time, and then the last store
\* wins. A try that was not completed still leaves one error behind, and no
\* error of an earlier try is lost by it.
Failed(t) == t < try \/ (~completed /\ rpc \notin Calling)
SomeErrorSurvives == \A t \in 1..try : Failed(t) => \E x \in errs : x.try = t

\* What Close leaves: unless it returned an error itself, each file of the
\* batch is there as a whole or has an error, although Add stops at the first
\* file it cannot create and does not name the others.
ClosedIsExplained ==
  rpc = "closed" /\ ~closeErr =>
    /\ IsAdded(Log)
    /\ \A f \in Batch : IsAdded(f) \/ Err(f, 0) \in errs

(***************************************************************************)
(* The calls as an Extraction.                                             *)
(***************************************************************************)
AllThere == \A i \in Wanted : HasEntry(i)
Got ==
  IF AllThere /\ Wanted # {} THEN "full"
  ELSE IF AllThere THEN IF completed THEN "empty" ELSE "nothing"
  ELSE IF entries # {} THEN "partial" ELSE "nothing"
Reported == \E x \in errs : x.try > 0

E == INSTANCE Extraction WITH
       extracting <- rpc \in Calling,
       got        <- Got,
       reported   <- Reported

\* Whatever the streams do, a call comes back with the results or an error.
IsExtraction == E!Spec

\* Reader and Streamer come to an end and the archive is closed: neither waits
\* for ever for the other at the pipe.
Ends == <>(rpc = "closed" /\ wpc = "closed")
=============================================================================
