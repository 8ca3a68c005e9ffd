------------------------------ MODULE FileStore ------------------------------
(***************************************************************************)
(* The bytes of attached files: blobs kept once per content, the rows that *)
(* count them, the files and staged imports that refer to them, and the    *)
(* two sweeps that remove what nobody refers to.                           *)
(*                                                                         *)
(* The blobs are in a store outside the database, so no transaction covers *)
(* both.  What keeps them in step is an order: a writer locks the row of a *)
(* content before it writes its bytes, a sweep locks the row before it     *)
(* removes them.  A step of the model is one database or store call; a     *)
(* request that dies rolls its rows back, and the bytes it wrote stay.     *)
(* A process is taken to stop when its connection does: the code has no    *)
(* answer to one that goes on removing bytes after it lost its lock.       *)
(*                                                                         *)
(* A content stands for its hash; every content is of the same size.       *)
(***************************************************************************)
EXTENDS Naturals, Sequences, FiniteSets

CONSTANTS
    Content,       \* the distinct bytes people upload
    FileName,      \* names on a page, equal names folded to one case
    FileTask,      \* requests and sweeps in flight at once (bound)
    Quota,         \* how many contents the workspace may hold
    MaxVersions    \* versions of one file (bound)

ASSUME FileStoreAssumption == Quota \in Nat /\ MaxVersions \in Nat

VARIABLES
    bytes,         \* the contents the store has
    blob,          \* file_blobs: no row, or how long ago it was touched
    file,          \* the contents of each file's versions; empty when there is no file
    kept,          \* import_file_versions: contents an import waits with
    unpaid,        \* contents whose row once came into being without a look at the quota
    task           \* the requests and sweeps in flight

fileVars == <<bytes, blob, file, kept, unpaid, task>>

(* name is the file whose name lock is held, had whether it had versions   *)
(* then; locked are the rows locked, adding the versions to append, and    *)
(* todo the staged versions an import has still to carry over.             *)
FileOp == {"none", "upload", "stage", "restore", "attach", "sweep", "orphan"}
FileRequest ==
    [op : FileOp, pc : {"idle", "named", "quota", "touched", "ready", "removed"},
     name : FileName \cup {"none"}, had : BOOLEAN, of : Content \cup {"none"},
     locked : SUBSET Content, adding : Seq(Content), todo : SUBSET Content]

NoFileTask == [op |-> "none", pc |-> "idle", name |-> "none", had |-> FALSE, of |-> "none",
               locked |-> {}, adding |-> <<>>, todo |-> {}]

FilesInit ==
    /\ bytes = {} /\ kept = {} /\ unpaid = {}
    /\ blob = [c \in Content |-> "none"]
    /\ file = [n \in FileName |-> <<>>]
    /\ task = [w \in FileTask |-> NoFileTask]

Contents(s) == {s[i] : i \in DOMAIN s}
Latest(s, c) == s # <<>> /\ s[Len(s)] = c

(* What a version of a file or a staged import refers to.                  *)
Referenced(c) == c \in kept \/ \E n \in FileName : c \in Contents(file[n])

(* Locks.  The mutated forms stand before the definitions they would       *)
(* replace, as in the other modules.                                       *)
NameFreeAlways(w, n) == TRUE
NameFree(w, n) == \A v \in FileTask \ {w} : task[v].name # n

RowFreeAlways(w, c) == TRUE
RowFree(w, c) == \A v \in FileTask \ {w} : c \notin task[v].locked

QuotaFreeAlways(w) == TRUE
QuotaFree(w) == \A v \in FileTask \ {w} : task[v].op \in {"upload", "stage"} => task[v].pc \in {"idle", "named"}

(* The quota counts each content once, and one already held costs nothing. *)
Counted == {c \in Content : blob[c] # "none"}
Admitted(c) == c \in Counted \/ Cardinality(Counted) + 1 =< Quota

Begin(w, r) == task[w].pc = "idle" /\ task' = [task EXCEPT ![w] = r]
Advance(w, pc) == task' = [task EXCEPT ![w].pc = pc]
EndTask(w) == task' = [task EXCEPT ![w] = NoFileTask]

----------------------------------------------------------------------------
(* uploadFileVersion: the name lock, and nothing to do if the bytes are    *)
(* those of the latest version.                                            *)
UploadBegin(w, n, c) ==
    /\ NameFree(w, n) /\ Len(file[n]) < MaxVersions
    /\ ~Latest(file[n], c)
    /\ Begin(w, [NoFileTask EXCEPT !.op = "upload", !.pc = "named", !.name = n,
                                   !.had = file[n] # <<>>, !.of = c])
    /\ UNCHANGED <<bytes, blob, file, kept, unpaid>>

UploadQuota(w) ==
    /\ task[w].op = "upload" /\ task[w].pc = "named"
    /\ QuotaFree(w) /\ Admitted(task[w].of)
    /\ Advance(w, "quota")
    /\ UNCHANGED <<bytes, blob, file, kept, unpaid>>

(* An import that is being read stages a content under the same quota.     *)
StageBegin(w, c) ==
    /\ QuotaFree(w) /\ Admitted(c)
    /\ Begin(w, [NoFileTask EXCEPT !.op = "stage", !.pc = "quota", !.of = c])
    /\ UNCHANGED <<bytes, blob, file, kept, unpaid>>

(* restoreFileVersion: the bytes of an older version become the latest.    *)
RestoreBegin(w, n, c) ==
    /\ NameFree(w, n) /\ Len(file[n]) < MaxVersions
    /\ c \in Contents(file[n]) /\ ~Latest(file[n], c)
    /\ Begin(w, [NoFileTask EXCEPT !.op = "restore", !.pc = "quota", !.name = n,
                                   !.had = TRUE, !.of = c])
    /\ UNCHANGED <<bytes, blob, file, kept, unpaid>>

(* touchBlob: the row's lock, whether the row is there or not.             *)
Touch(w) ==
    /\ task[w].pc = "quota"
    /\ RowFree(w, task[w].of)
    /\ task' = [task EXCEPT ![w].pc = "touched", ![w].locked = @ \cup {task[w].of}]
    /\ UNCHANGED <<bytes, blob, file, kept, unpaid>>

(* staged.commit: the bytes are linked into the store, or are there.       *)
Write(w) ==
    /\ task[w].op \in {"upload", "stage"} /\ task[w].pc = "touched"
    /\ bytes' = bytes \cup {task[w].of}
    /\ task' = [task EXCEPT ![w].pc = "ready", ![w].adding = <<task[w].of>>]
    /\ UNCHANGED <<blob, file, kept, unpaid>>

(* A restore is refused when the store no longer has the bytes.            *)
RestoreCheck(w) ==
    /\ task[w].op = "restore" /\ task[w].pc = "touched"
    /\ task[w].of \in bytes
    /\ task' = [task EXCEPT ![w].pc = "ready", ![w].adding = <<task[w].of>>]
    /\ UNCHANGED <<bytes, blob, file, kept, unpaid>>

----------------------------------------------------------------------------
(* carryFiles and attachImportedFile: what an import staged for a page is  *)
(* read, and then added under one name in one transaction.  The order of   *)
(* the versions is left open.                                              *)
AttachBegin(w, n, S) ==
    /\ NameFree(w, n) /\ Len(file[n]) + Cardinality(S) =< MaxVersions
    /\ S # {} /\ S \subseteq kept
    /\ Begin(w, [NoFileTask EXCEPT !.op = "attach", !.pc = "named", !.name = n,
                                   !.had = file[n] # <<>>, !.todo = S])
    /\ UNCHANGED <<bytes, blob, file, kept, unpaid>>

(* A version equal to the one before it adds nothing.                      *)
AttachNext(w, c) ==
    /\ task[w].op = "attach" /\ task[w].pc = "named" /\ c \in task[w].todo
    /\ IF Latest(file[task[w].name] \o task[w].adding, c)
         THEN task' = [task EXCEPT ![w].todo = @ \ {c}]
         ELSE /\ RowFree(w, c)
              /\ task' = [task EXCEPT ![w].pc = "touched", ![w].of = c,
                                      ![w].todo = @ \ {c}, ![w].locked = @ \cup {c}]
    /\ UNCHANGED <<bytes, blob, file, kept, unpaid>>

(* A version whose bytes are gone is left out; its row has been touched.   *)
AttachAfterReset(w) ==
    /\ task[w].op = "attach" /\ task[w].pc = "touched"
    /\ task' = [task EXCEPT ![w].pc = "named", ![w].of = "none",
                            ![w].adding = IF task[w].of \in bytes THEN Append(@, "none") ELSE @]
    /\ UNCHANGED <<bytes, blob, file, kept, unpaid>>
AttachCheck(w) ==
    /\ task[w].op = "attach" /\ task[w].pc = "touched"
    /\ task' = [task EXCEPT ![w].pc = "named", ![w].of = "none",
                            ![w].adding = IF task[w].of \in bytes THEN Append(@, task[w].of) ELSE @]
    /\ UNCHANGED <<bytes, blob, file, kept, unpaid>>

(* The commit of a writer: its rows count as touched, and its versions are *)
(* appended, or staged.  A file that was deleted since its name was locked *)
(* refuses the update.                                                     *)
TouchedRows(w) == [c \in Content |-> IF c \in task[w].locked THEN "fresh" ELSE blob[c]]
Unasked(w) == {c \in task[w].locked : blob[c] = "none"}

CommitVersion(w) ==
    /\ \/ task[w].op \in {"upload", "restore"} /\ task[w].pc = "ready"
       \/ task[w].op = "attach" /\ task[w].pc = "named" /\ task[w].todo = {}
    /\ task[w].had /\ task[w].adding # <<>> => file[task[w].name] # <<>>
    /\ file' = [file EXCEPT ![task[w].name] = @ \o task[w].adding]
    /\ blob' = TouchedRows(w)
    /\ unpaid' = IF task[w].op = "upload" THEN unpaid ELSE unpaid \cup Unasked(w)
    /\ EndTask(w)
    /\ UNCHANGED <<bytes, kept>>

CommitStage(w) ==
    /\ task[w].op = "stage" /\ task[w].pc = "ready"
    /\ kept' = kept \cup {task[w].of}
    /\ blob' = TouchedRows(w)
    /\ EndTask(w)
    /\ UNCHANGED <<bytes, file, unpaid>>

(* A refusal, an error, a deadlock or the end of the process: the          *)
(* transaction is rolled back, the store is not.                           *)
AbortFile(w) ==
    /\ task[w].pc # "idle" /\ EndTask(w)
    /\ UNCHANGED <<bytes, blob, file, kept, unpaid>>

----------------------------------------------------------------------------
(* deleteFile takes no name lock; dropStagedFiles ends an import.          *)
DeleteFile(n) ==
    /\ file[n] # <<>>
    /\ file' = [file EXCEPT ![n] = <<>>]
    /\ UNCHANGED <<bytes, blob, kept, unpaid, task>>

DropStaged(S) ==
    /\ S # {} /\ S \subseteq kept
    /\ kept' = kept \ S
    /\ UNCHANGED <<bytes, blob, file, unpaid, task>>

(* An hour passes since a row was touched.                                 *)
AgeBlob(c) ==
    /\ blob[c] = "fresh"
    /\ blob' = [blob EXCEPT ![c] = "stale"]
    /\ UNCHANGED <<bytes, file, kept, unpaid, task>>

(* sweepFileBlobs: the row is locked if it is still untouched and          *)
(* unreferenced, skipped if somebody has it.                               *)
MaySweepVersionsOnly(c) == blob[c] = "stale" /\ \A n \in FileName : c \notin Contents(file[n])
MaySweep(c) == blob[c] = "stale" /\ ~Referenced(c)

SweepLock(w, c) ==
    /\ RowFree(w, c) /\ MaySweep(c)
    /\ Begin(w, [NoFileTask EXCEPT !.op = "sweep", !.pc = "touched", !.of = c, !.locked = {c}])
    /\ UNCHANGED <<bytes, blob, file, kept, unpaid>>

(* sweepOrphanBlobs claims a key listed earlier by inserting its row, and  *)
(* leaves it alone if there is one.                                        *)
OrphanClaim(w, c) ==
    /\ RowFree(w, c) /\ blob[c] = "none"
    /\ Begin(w, [NoFileTask EXCEPT !.op = "orphan", !.pc = "touched", !.of = c, !.locked = {c}])
    /\ UNCHANGED <<bytes, blob, file, kept, unpaid>>

RemoveBytes(w) ==
    /\ task[w].op \in {"sweep", "orphan"} /\ task[w].pc = "touched"
    /\ bytes' = bytes \ {task[w].of}
    /\ Advance(w, "removed")
    /\ UNCHANGED <<blob, file, kept, unpaid>>

RemoveRow(w) ==
    /\ task[w].op \in {"sweep", "orphan"} /\ task[w].pc = "removed"
    /\ blob' = [blob EXCEPT ![task[w].of] = "none"]
    /\ EndTask(w)
    /\ UNCHANGED <<bytes, file, kept, unpaid>>

FilesNext ==
    \/ \E w \in FileTask :
         \/ \E n \in FileName, c \in Content : UploadBegin(w, n, c) \/ RestoreBegin(w, n, c)
         \/ UploadQuota(w) \/ Touch(w) \/ Write(w) \/ RestoreCheck(w)
         \/ \E n \in FileName, S \in SUBSET Content : AttachBegin(w, n, S)
         \/ \E c \in Content : StageBegin(w, c) \/ AttachNext(w, c)
         \/ AttachCheck(w) \/ CommitVersion(w) \/ CommitStage(w) \/ AbortFile(w)
         \/ \E c \in Content : SweepLock(w, c) \/ OrphanClaim(w, c)
         \/ RemoveBytes(w) \/ RemoveRow(w)
    \/ \E n \in FileName : DeleteFile(n)
    \/ \E S \in SUBSET Content : DropStaged(S)
    \/ \E c \in Content : AgeBlob(c)

FilesSpec == FilesInit /\ [][FilesNext]_fileVars

----------------------------------------------------------------------------
(* The types of the store, its rows and the requests in flight.            *)
FilesTypeOK ==
    /\ bytes \subseteq Content /\ kept \subseteq Content /\ unpaid \subseteq Content
    /\ blob \in [Content -> {"none", "fresh", "stale"}]
    /\ file \in [FileName -> Seq(Content)]
    /\ task \in [FileTask -> FileRequest]

(* Whatever uploads, restores, imports, deletes and sweeps interleave, and *)
(* wherever they die, the bytes of every version of every file and of      *)
(* every staged import are in the store.                                   *)
BytesThere == \A c \in Content : Referenced(c) => c \in bytes

(* What somebody refers to is counted, and so out of the orphan sweep's    *)
(* reach.                                                                  *)
RowThere == \A c \in Content : Referenced(c) => blob[c] # "none"

(* Uploads and imports side by side never take the workspace over its      *)
(* quota.  A content whose row an import once made for bytes that were     *)
(* gone is not part of it: attachImportedFile does not ask.                *)
QuotaKept == Cardinality(Counted \ unpaid) =< Quota

(* A version always differs from the one before it, also when uploads and  *)
(* restores of one name meet.                                              *)
VersionsDiffer ==
    \A n \in FileName : \A i \in 1 .. Len(file[n]) - 1 : file[n][i] # file[n][i + 1]

=============================================================================
