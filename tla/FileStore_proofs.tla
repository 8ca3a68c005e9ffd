-------------------------- MODULE FileStore_proofs --------------------------
(***************************************************************************)
(* What FileStore promises, for any contents, files and requests.          *)
(*                                                                         *)
(* BytesThere and RowThere rest on one invariant, StoreInv: the locks of   *)
(* two requests have no row in common; what a writer is about to add is    *)
(* locked by it and in the store; what a sweep removes is locked by it and *)
(* referred to by nobody.  VersionsDiffer rests on NamesInv: one request   *)
(* at a time works on a file, and what it is to add differs from what is   *)
(* there.  QuotaKept rests on QuotaInv: one request at a time has room     *)
(* reserved, and there is room for it.                                     *)
(***************************************************************************)
EXTENDS FileStore, FiniteSetTheorems, TLAPS

Works(w) == task[w].op \in {"upload", "stage", "restore", "sweep", "orphan"}
Sweeps(w) == task[w].op \in {"sweep", "orphan"}

(* A request knows the content it is about, and has its row locked by the  *)
(* time it touches the store.                                              *)
KnowsItsContent ==
    \A w \in FileTask :
        /\ Works(w) => task[w].of \in Content
        /\ task[w].pc = "quota" => Works(w)
        /\ task[w].pc \in {"touched", "ready", "removed"} => task[w].of \in task[w].locked

LocksApart == \A v, w \in FileTask : v # w => task[v].locked \cap task[w].locked = {}

(* What a request is about to add is locked by it and in the store.        *)
ReadyIsThere ==
    \A w \in FileTask :
        /\ \A c \in Contents(task[w].adding) : c \in task[w].locked /\ c \in bytes
        /\ task[w].pc = "ready" => task[w].of \in bytes

(* What a sweep has locked nobody refers to, and it has no other step left *)
(* than the removal.                                                       *)
SweptIsFree ==
    \A w \in FileTask :
        Sweeps(w) => /\ task[w].adding = <<>> /\ task[w].pc \in {"touched", "removed"}
                     /\ ~Referenced(task[w].of)

StoreInv ==
    /\ FilesTypeOK /\ KnowsItsContent /\ LocksApart /\ ReadyIsThere /\ SweptIsFree
    /\ BytesThere /\ RowThere

----------------------------------------------------------------------------
LEMMA IdleTask == NoFileTask \in FileRequest
  BY DEF NoFileTask, FileRequest, FileOp

LEMMA RowAdvanced ==
  ASSUME NEW r \in FileRequest, NEW pc \in {"quota", "removed"}
  PROVE  [r EXCEPT !.pc = pc] \in FileRequest
  BY DEF FileRequest

LEMMA RowReady ==
  ASSUME NEW r \in FileRequest, NEW s \in Seq(Content)
  PROVE  [r EXCEPT !.pc = "ready", !.adding = s] \in FileRequest
  BY DEF FileRequest

LEMMA RowCarried ==
  ASSUME NEW r \in FileRequest, NEW s \in Seq(Content)
  PROVE  [r EXCEPT !.pc = "named", !.of = "none", !.adding = s] \in FileRequest
  BY DEF FileRequest

LEMMA NoContents == Contents(<<>>) = {}
  BY DEF Contents

LEMMA ContentsOne == \A c : Contents(<<c>>) = {c}
  BY DEF Contents

LEMMA ContentsConcat ==
  ASSUME NEW s \in Seq(Content), NEW t \in Seq(Content)
  PROVE  Contents(s \o t) = Contents(s) \cup Contents(t)
<1>1. ASSUME NEW c, c \in Contents(s \o t) PROVE c \in Contents(s) \cup Contents(t)
  <2>1. PICK i \in 1 .. Len(s) + Len(t) : c = (s \o t)[i]
    BY <1>1 DEF Contents
  <2>2. CASE i =< Len(s)
    BY <2>1, <2>2 DEF Contents
  <2>3. CASE i > Len(s)
    <3>1. i - Len(s) \in 1 .. Len(t) /\ c = t[i - Len(s)]
      BY <2>1, <2>3
    <3>. QED
      BY <3>1 DEF Contents
  <2>. QED
    BY <2>1, <2>2, <2>3
<1>2. ASSUME NEW c, c \in Contents(s) PROVE c \in Contents(s \o t)
  <2>1. PICK i \in 1 .. Len(s) : c = s[i]
    BY <1>2 DEF Contents
  <2>2. i \in 1 .. Len(s \o t) /\ (s \o t)[i] = c
    BY <2>1
  <2>. QED
    BY <2>2 DEF Contents
<1>3. ASSUME NEW c, c \in Contents(t) PROVE c \in Contents(s \o t)
  <2>1. PICK i \in 1 .. Len(t) : c = t[i]
    BY <1>3 DEF Contents
  <2>2. i + Len(s) \in 1 .. Len(s \o t) /\ (s \o t)[i + Len(s)] = c
    BY <2>1
  <2>. QED
    BY <2>2 DEF Contents
<1>. QED
  BY <1>1, <1>2, <1>3

LEMMA ContentsAppend ==
  ASSUME NEW s \in Seq(Content), NEW c \in Content
  PROVE  Contents(Append(s, c)) = Contents(s) \cup {c}
<1>1. Append(s, c) = s \o <<c>> /\ <<c>> \in Seq(Content)
  OBVIOUS
<1>. QED
  BY <1>1, ContentsConcat, ContentsOne

----------------------------------------------------------------------------
LEMMA TypeInit == FilesInit => FilesTypeOK
  BY IdleTask DEF FilesInit, FilesTypeOK

LEMMA TypeStep == FilesTypeOK /\ KnowsItsContent /\ [FilesNext]_fileVars => FilesTypeOK'
<1> SUFFICES ASSUME FilesTypeOK, KnowsItsContent, [FilesNext]_fileVars PROVE FilesTypeOK'
  OBVIOUS
<1>1. CASE UNCHANGED fileVars
  BY <1>1 DEF fileVars, FilesTypeOK
<1>2. ASSUME NEW w \in FileTask, NEW n \in FileName, NEW c \in Content, UploadBegin(w, n, c)
      PROVE  FilesTypeOK'
  <2>1. task' \in [FileTask -> FileRequest]
    BY <1>2, IdleTask DEF UploadBegin, FilesTypeOK, FileRequest, FileOp, NoFileTask, Begin
  <2>2. bytes' \subseteq Content /\ kept' \subseteq Content /\ unpaid' \subseteq Content
    BY <1>2 DEF UploadBegin, FilesTypeOK, FileRequest
  <2>3. blob' \in [Content -> {"none", "fresh", "stale"}]
    BY <1>2 DEF UploadBegin, FilesTypeOK
  <2>4. file' \in [FileName -> Seq(Content)]
    BY <1>2 DEF UploadBegin, FilesTypeOK, FileRequest
  <2>. QED
    BY <2>1, <2>2, <2>3, <2>4 DEF FilesTypeOK
<1>3. ASSUME NEW w \in FileTask, NEW n \in FileName, NEW c \in Content, RestoreBegin(w, n, c)
      PROVE  FilesTypeOK'
  <2>1. task' \in [FileTask -> FileRequest]
    BY <1>3, IdleTask DEF RestoreBegin, FilesTypeOK, FileRequest, FileOp, NoFileTask, Begin
  <2>2. bytes' \subseteq Content /\ kept' \subseteq Content /\ unpaid' \subseteq Content
    BY <1>3 DEF RestoreBegin, FilesTypeOK, FileRequest
  <2>3. blob' \in [Content -> {"none", "fresh", "stale"}]
    BY <1>3 DEF RestoreBegin, FilesTypeOK
  <2>4. file' \in [FileName -> Seq(Content)]
    BY <1>3 DEF RestoreBegin, FilesTypeOK, FileRequest
  <2>. QED
    BY <2>1, <2>2, <2>3, <2>4 DEF FilesTypeOK
<1>4. ASSUME NEW w \in FileTask, UploadQuota(w)
      PROVE  FilesTypeOK'
  <2>1. task' \in [FileTask -> FileRequest]
    <3>1. task[w] \in FileRequest /\ task' = [task EXCEPT ![w] = [task[w] EXCEPT !.pc = "quota"]]
      BY <1>4 DEF UploadQuota, Advance, FilesTypeOK
    <3>2. [task[w] EXCEPT !.pc = "quota"] \in FileRequest
      BY <3>1, RowAdvanced
    <3>. QED
      BY <3>1, <3>2 DEF FilesTypeOK
  <2>2. bytes' \subseteq Content /\ kept' \subseteq Content /\ unpaid' \subseteq Content
    BY <1>4 DEF UploadQuota, FilesTypeOK, FileRequest
  <2>3. blob' \in [Content -> {"none", "fresh", "stale"}]
    BY <1>4 DEF UploadQuota, FilesTypeOK
  <2>4. file' \in [FileName -> Seq(Content)]
    BY <1>4 DEF UploadQuota, FilesTypeOK, FileRequest
  <2>. QED
    BY <2>1, <2>2, <2>3, <2>4 DEF FilesTypeOK
<1>5. ASSUME NEW w \in FileTask, Touch(w)
      PROVE  FilesTypeOK'
  <2>1. task' \in [FileTask -> FileRequest]
    <3>1. task[w].of \in Content /\ task[w] \in FileRequest
      BY <1>5 DEF Touch, FilesTypeOK, FileRequest, KnowsItsContent, Works
    <3>2. [task[w] EXCEPT !.pc = "touched", !.locked = @ \cup {task[w].of}]
             \in FileRequest
      BY <3>1 DEF FileRequest
    <3>3. task' = [task EXCEPT ![w] = [task[w] EXCEPT !.pc = "touched", !.locked = @ \cup {task[w].of}]]
      BY <1>5 DEF Touch, FilesTypeOK
    <3>. QED
      BY <3>2, <3>3 DEF FilesTypeOK
  <2>2. bytes' \subseteq Content /\ kept' \subseteq Content /\ unpaid' \subseteq Content
    BY <1>5 DEF Touch, FilesTypeOK, FileRequest
  <2>3. blob' \in [Content -> {"none", "fresh", "stale"}]
    BY <1>5 DEF Touch, FilesTypeOK
  <2>4. file' \in [FileName -> Seq(Content)]
    BY <1>5 DEF Touch, FilesTypeOK, FileRequest
  <2>. QED
    BY <2>1, <2>2, <2>3, <2>4 DEF FilesTypeOK
<1>6. ASSUME NEW w \in FileTask, Write(w)
      PROVE  FilesTypeOK'
  <2>1. task' \in [FileTask -> FileRequest]
    <3>1. task[w].of \in Content /\ task[w] \in FileRequest
      BY <1>6 DEF Write, FilesTypeOK, FileRequest, KnowsItsContent, Works
    <3>4. <<task[w].of>> \in Seq(Content)
      BY <3>1
    <3>2. [task[w] EXCEPT !.pc = "ready", !.adding = <<task[w].of>>]
             \in FileRequest
      BY <3>1, <3>4, RowReady, Zenon
    <3>3. task' = [task EXCEPT ![w] = [task[w] EXCEPT !.pc = "ready", !.adding = <<task[w].of>>]]
      BY <1>6 DEF Write, FilesTypeOK
    <3>. QED
      BY <3>2, <3>3 DEF FilesTypeOK
  <2>2. bytes' \subseteq Content /\ kept' \subseteq Content /\ unpaid' \subseteq Content
    BY <1>6 DEF Write, FilesTypeOK, FileRequest, KnowsItsContent, Works
  <2>3. blob' \in [Content -> {"none", "fresh", "stale"}]
    BY <1>6 DEF Write, FilesTypeOK
  <2>4. file' \in [FileName -> Seq(Content)]
    BY <1>6 DEF Write, FilesTypeOK, FileRequest
  <2>. QED
    BY <2>1, <2>2, <2>3, <2>4 DEF FilesTypeOK
<1>7. ASSUME NEW w \in FileTask, RestoreCheck(w)
      PROVE  FilesTypeOK'
  <2>1. task' \in [FileTask -> FileRequest]
    <3>1. task[w].of \in Content /\ task[w] \in FileRequest
      BY <1>7 DEF RestoreCheck, FilesTypeOK, FileRequest, KnowsItsContent, Works
    <3>4. <<task[w].of>> \in Seq(Content)
      BY <3>1
    <3>2. [task[w] EXCEPT !.pc = "ready", !.adding = <<task[w].of>>]
             \in FileRequest
      BY <3>1, <3>4, RowReady, Zenon
    <3>3. task' = [task EXCEPT ![w] = [task[w] EXCEPT !.pc = "ready", !.adding = <<task[w].of>>]]
      BY <1>7 DEF RestoreCheck, FilesTypeOK
    <3>. QED
      BY <3>2, <3>3 DEF FilesTypeOK
  <2>2. bytes' \subseteq Content /\ kept' \subseteq Content /\ unpaid' \subseteq Content
    BY <1>7 DEF RestoreCheck, FilesTypeOK, FileRequest
  <2>3. blob' \in [Content -> {"none", "fresh", "stale"}]
    BY <1>7 DEF RestoreCheck, FilesTypeOK
  <2>4. file' \in [FileName -> Seq(Content)]
    BY <1>7 DEF RestoreCheck, FilesTypeOK, FileRequest
  <2>. QED
    BY <2>1, <2>2, <2>3, <2>4 DEF FilesTypeOK
<1>8. ASSUME NEW w \in FileTask, NEW n \in FileName, NEW S \in SUBSET Content, AttachBegin(w, n, S)
      PROVE  FilesTypeOK'
  <2>1. task' \in [FileTask -> FileRequest]
    BY <1>8, IdleTask DEF AttachBegin, FilesTypeOK, FileRequest, FileOp, NoFileTask, Begin
  <2>2. bytes' \subseteq Content /\ kept' \subseteq Content /\ unpaid' \subseteq Content
    BY <1>8 DEF AttachBegin, FilesTypeOK, FileRequest
  <2>3. blob' \in [Content -> {"none", "fresh", "stale"}]
    BY <1>8 DEF AttachBegin, FilesTypeOK
  <2>4. file' \in [FileName -> Seq(Content)]
    BY <1>8 DEF AttachBegin, FilesTypeOK, FileRequest
  <2>. QED
    BY <2>1, <2>2, <2>3, <2>4 DEF FilesTypeOK
<1>9. ASSUME NEW w \in FileTask, NEW c \in Content, StageBegin(w, c)
      PROVE  FilesTypeOK'
  <2>1. task' \in [FileTask -> FileRequest]
    BY <1>9, IdleTask DEF StageBegin, FilesTypeOK, FileRequest, FileOp, NoFileTask, Begin
  <2>2. bytes' \subseteq Content /\ kept' \subseteq Content /\ unpaid' \subseteq Content
    BY <1>9 DEF StageBegin, FilesTypeOK, FileRequest
  <2>3. blob' \in [Content -> {"none", "fresh", "stale"}]
    BY <1>9 DEF StageBegin, FilesTypeOK
  <2>4. file' \in [FileName -> Seq(Content)]
    BY <1>9 DEF StageBegin, FilesTypeOK, FileRequest
  <2>. QED
    BY <2>1, <2>2, <2>3, <2>4 DEF FilesTypeOK
<1>10. ASSUME NEW w \in FileTask, NEW c \in Content, AttachNext(w, c)
      PROVE  FilesTypeOK'
  <2>1. task' \in [FileTask -> FileRequest]
    <3>1. task[w] \in FileRequest
      BY DEF FilesTypeOK
    <3>2. [task[w] EXCEPT !.todo = @ \ {c}] \in FileRequest
      BY <3>1 DEF FileRequest
    <3>3. [task[w] EXCEPT !.pc = "touched", !.of = c, !.todo = @ \ {c}, !.locked = @ \cup {c}]
             \in FileRequest
      BY <3>1 DEF FileRequest
    <3>4. \/ task' = [task EXCEPT ![w] = [task[w] EXCEPT !.todo = @ \ {c}]]
          \/ task' = [task EXCEPT ![w] = [task[w] EXCEPT !.pc = "touched", !.of = c, !.todo = @ \ {c},
                                                         !.locked = @ \cup {c}]]
      BY <1>10 DEF AttachNext, FilesTypeOK
    <3>. QED
      BY <3>2, <3>3, <3>4 DEF FilesTypeOK
  <2>2. bytes' \subseteq Content /\ kept' \subseteq Content /\ unpaid' \subseteq Content
    BY <1>10 DEF AttachNext, FilesTypeOK, FileRequest
  <2>3. blob' \in [Content -> {"none", "fresh", "stale"}]
    BY <1>10 DEF AttachNext, FilesTypeOK
  <2>4. file' \in [FileName -> Seq(Content)]
    BY <1>10 DEF AttachNext, FilesTypeOK, FileRequest
  <2>. QED
    BY <2>1, <2>2, <2>3, <2>4 DEF FilesTypeOK
<1>11. ASSUME NEW w \in FileTask, AttachCheck(w)
      PROVE  FilesTypeOK'
  <2>1. task' \in [FileTask -> FileRequest]
    <3>1. task[w].of \in Content /\ task[w] \in FileRequest
      BY <1>11 DEF AttachCheck, FilesTypeOK, FileRequest, KnowsItsContent, Works
    <3>4. (IF task[w].of \in bytes THEN Append(task[w].adding, task[w].of) ELSE task[w].adding) \in Seq(Content)
      BY <3>1 DEF FileRequest
    <3>2. [task[w] EXCEPT !.pc = "named", !.of = "none",
                               !.adding = IF task[w].of \in bytes THEN Append(@, task[w].of) ELSE @]
             \in FileRequest
      BY <3>1, <3>4, RowCarried, Zenon
    <3>3. task' = [task EXCEPT ![w] = [task[w] EXCEPT !.pc = "named", !.of = "none",
                               !.adding = IF task[w].of \in bytes THEN Append(@, task[w].of) ELSE @]]
      BY <1>11 DEF AttachCheck, FilesTypeOK
    <3>. QED
      BY <3>2, <3>3 DEF FilesTypeOK
  <2>2. bytes' \subseteq Content /\ kept' \subseteq Content /\ unpaid' \subseteq Content
    BY <1>11 DEF AttachCheck, FilesTypeOK, FileRequest
  <2>3. blob' \in [Content -> {"none", "fresh", "stale"}]
    BY <1>11 DEF AttachCheck, FilesTypeOK
  <2>4. file' \in [FileName -> Seq(Content)]
    BY <1>11 DEF AttachCheck, FilesTypeOK, FileRequest
  <2>. QED
    BY <2>1, <2>2, <2>3, <2>4 DEF FilesTypeOK
<1>12. ASSUME NEW w \in FileTask, CommitVersion(w)
      PROVE  FilesTypeOK'
  <2>1. task' \in [FileTask -> FileRequest]
    BY <1>12, IdleTask DEF CommitVersion, FilesTypeOK, FileRequest, FileOp, NoFileTask, EndTask
  <2>2. bytes' \subseteq Content /\ kept' \subseteq Content /\ unpaid' \subseteq Content
    BY <1>12 DEF CommitVersion, FilesTypeOK, FileRequest, TouchedRows, Unasked
  <2>3. blob' \in [Content -> {"none", "fresh", "stale"}]
    BY <1>12 DEF CommitVersion, FilesTypeOK, TouchedRows, Unasked
  <2>4. file' \in [FileName -> Seq(Content)]
    <3>1. \A m \in FileName : file[m] \o task[w].adding \in Seq(Content)
      BY DEF FilesTypeOK, FileRequest
    <3>. QED
      BY <1>12, <3>1 DEF CommitVersion, FilesTypeOK
  <2>. QED
    BY <2>1, <2>2, <2>3, <2>4 DEF FilesTypeOK
<1>13. ASSUME NEW w \in FileTask, CommitStage(w)
      PROVE  FilesTypeOK'
  <2>1. task' \in [FileTask -> FileRequest]
    BY <1>13, IdleTask DEF CommitStage, FilesTypeOK, FileRequest, FileOp, NoFileTask, EndTask
  <2>2. bytes' \subseteq Content /\ kept' \subseteq Content /\ unpaid' \subseteq Content
    BY <1>13 DEF CommitStage, FilesTypeOK, FileRequest, TouchedRows, KnowsItsContent, Works
  <2>3. blob' \in [Content -> {"none", "fresh", "stale"}]
    BY <1>13 DEF CommitStage, FilesTypeOK, TouchedRows
  <2>4. file' \in [FileName -> Seq(Content)]
    BY <1>13 DEF CommitStage, FilesTypeOK, FileRequest
  <2>. QED
    BY <2>1, <2>2, <2>3, <2>4 DEF FilesTypeOK
<1>14. ASSUME NEW w \in FileTask, AbortFile(w)
      PROVE  FilesTypeOK'
  <2>1. task' \in [FileTask -> FileRequest]
    BY <1>14, IdleTask DEF AbortFile, FilesTypeOK, FileRequest, FileOp, NoFileTask, EndTask
  <2>2. bytes' \subseteq Content /\ kept' \subseteq Content /\ unpaid' \subseteq Content
    BY <1>14 DEF AbortFile, FilesTypeOK, FileRequest
  <2>3. blob' \in [Content -> {"none", "fresh", "stale"}]
    BY <1>14 DEF AbortFile, FilesTypeOK
  <2>4. file' \in [FileName -> Seq(Content)]
    BY <1>14 DEF AbortFile, FilesTypeOK, FileRequest
  <2>. QED
    BY <2>1, <2>2, <2>3, <2>4 DEF FilesTypeOK
<1>15. ASSUME NEW w \in FileTask, NEW c \in Content, SweepLock(w, c)
      PROVE  FilesTypeOK'
  <2>1. task' \in [FileTask -> FileRequest]
    BY <1>15, IdleTask DEF SweepLock, FilesTypeOK, FileRequest, FileOp, NoFileTask, Begin
  <2>2. bytes' \subseteq Content /\ kept' \subseteq Content /\ unpaid' \subseteq Content
    BY <1>15 DEF SweepLock, FilesTypeOK, FileRequest
  <2>3. blob' \in [Content -> {"none", "fresh", "stale"}]
    BY <1>15 DEF SweepLock, FilesTypeOK
  <2>4. file' \in [FileName -> Seq(Content)]
    BY <1>15 DEF SweepLock, FilesTypeOK, FileRequest
  <2>. QED
    BY <2>1, <2>2, <2>3, <2>4 DEF FilesTypeOK
<1>16. ASSUME NEW w \in FileTask, NEW c \in Content, OrphanClaim(w, c)
      PROVE  FilesTypeOK'
  <2>1. task' \in [FileTask -> FileRequest]
    BY <1>16, IdleTask DEF OrphanClaim, FilesTypeOK, FileRequest, FileOp, NoFileTask, Begin
  <2>2. bytes' \subseteq Content /\ kept' \subseteq Content /\ unpaid' \subseteq Content
    BY <1>16 DEF OrphanClaim, FilesTypeOK, FileRequest
  <2>3. blob' \in [Content -> {"none", "fresh", "stale"}]
    BY <1>16 DEF OrphanClaim, FilesTypeOK
  <2>4. file' \in [FileName -> Seq(Content)]
    BY <1>16 DEF OrphanClaim, FilesTypeOK, FileRequest
  <2>. QED
    BY <2>1, <2>2, <2>3, <2>4 DEF FilesTypeOK
<1>17. ASSUME NEW w \in FileTask, RemoveBytes(w)
      PROVE  FilesTypeOK'
  <2>1. task' \in [FileTask -> FileRequest]
    <3>1. task[w] \in FileRequest /\ task' = [task EXCEPT ![w] = [task[w] EXCEPT !.pc = "removed"]]
      BY <1>17 DEF RemoveBytes, Advance, FilesTypeOK
    <3>2. [task[w] EXCEPT !.pc = "removed"] \in FileRequest
      BY <3>1, RowAdvanced
    <3>. QED
      BY <3>1, <3>2 DEF FilesTypeOK
  <2>2. bytes' \subseteq Content /\ kept' \subseteq Content /\ unpaid' \subseteq Content
    BY <1>17 DEF RemoveBytes, FilesTypeOK, FileRequest
  <2>3. blob' \in [Content -> {"none", "fresh", "stale"}]
    BY <1>17 DEF RemoveBytes, FilesTypeOK
  <2>4. file' \in [FileName -> Seq(Content)]
    BY <1>17 DEF RemoveBytes, FilesTypeOK, FileRequest
  <2>. QED
    BY <2>1, <2>2, <2>3, <2>4 DEF FilesTypeOK
<1>18. ASSUME NEW w \in FileTask, RemoveRow(w)
      PROVE  FilesTypeOK'
  <2>1. task' \in [FileTask -> FileRequest]
    BY <1>18, IdleTask DEF RemoveRow, FilesTypeOK, FileRequest, FileOp, NoFileTask, EndTask
  <2>2. bytes' \subseteq Content /\ kept' \subseteq Content /\ unpaid' \subseteq Content
    BY <1>18 DEF RemoveRow, FilesTypeOK, FileRequest
  <2>3. blob' \in [Content -> {"none", "fresh", "stale"}]
    BY <1>18 DEF RemoveRow, FilesTypeOK
  <2>4. file' \in [FileName -> Seq(Content)]
    BY <1>18 DEF RemoveRow, FilesTypeOK, FileRequest
  <2>. QED
    BY <2>1, <2>2, <2>3, <2>4 DEF FilesTypeOK
<1>19. ASSUME NEW n \in FileName, DeleteFile(n)
      PROVE  FilesTypeOK'
  BY <1>19 DEF DeleteFile, FilesTypeOK
<1>20. ASSUME NEW S \in SUBSET Content, DropStaged(S)
      PROVE  FilesTypeOK'
  BY <1>20 DEF DropStaged, FilesTypeOK
<1>21. ASSUME NEW c \in Content, AgeBlob(c)
      PROVE  FilesTypeOK'
  BY <1>21 DEF AgeBlob, FilesTypeOK
<1>. QED
  BY <1>1, <1>2, <1>3, <1>4, <1>5, <1>6, <1>7, <1>8, <1>9, <1>10, <1>11, <1>12, <1>13, <1>14,
     <1>15, <1>16, <1>17, <1>18, <1>19, <1>20, <1>21 DEF FilesNext

(* What the next staged version does to the request that carries it over.  *)
LEMMA AttachGoes ==
  ASSUME FilesTypeOK, NEW w \in FileTask, NEW c \in Content, AttachNext(w, c)
  PROVE  /\ task[w].op = "attach" /\ task'[w].op = "attach" /\ task'[w].name = task[w].name
         /\ task'[w].adding = task[w].adding
         /\ \/ task'[w].pc = "named" /\ task'[w].of = task[w].of /\ task'[w].locked = task[w].locked
            \/ /\ RowFree(w, c) /\ task'[w].pc = "touched" /\ task'[w].of = c
               /\ task'[w].locked = task[w].locked \cup {c}
               /\ ~Latest(file[task[w].name] \o task[w].adding, c)
<1>1. task[w] \in FileRequest /\ task[w].op = "attach" /\ task[w].pc = "named"
  BY DEF FilesTypeOK, AttachNext
<1>2. CASE Latest(file[task[w].name] \o task[w].adding, c)
  <2>1. task'[w] = [task[w] EXCEPT !.todo = @ \ {c}]
    BY <1>2 DEF AttachNext, FilesTypeOK
  <2>. QED
    BY <1>1, <2>1 DEF FileRequest
<1>3. CASE ~Latest(file[task[w].name] \o task[w].adding, c)
  <2>1. /\ task'[w] = [task[w] EXCEPT !.pc = "touched", !.of = c, !.todo = @ \ {c}, !.locked = @ \cup {c}]
        /\ RowFree(w, c)
    BY <1>3 DEF AttachNext, FilesTypeOK
  <2>. QED
    BY <1>1, <1>3, <2>1 DEF FileRequest
<1>. QED
  BY <1>2, <1>3

LEMMA StoreInit == FilesInit => StoreInv
<1> SUFFICES ASSUME FilesInit PROVE StoreInv
  OBVIOUS
<1>1. FilesTypeOK
  BY TypeInit
<1>2. KnowsItsContent /\ LocksApart
  BY DEF FilesInit, NoFileTask, KnowsItsContent, LocksApart, Works
<1>3. ReadyIsThere /\ SweptIsFree
  BY NoContents DEF FilesInit, NoFileTask, ReadyIsThere, SweptIsFree, Sweeps
<1>4. BytesThere /\ RowThere
  BY NoContents DEF FilesInit, BytesThere, RowThere, Referenced
<1>. QED
  BY <1>1, <1>2, <1>3, <1>4 DEF StoreInv

LEMMA StoreStep == StoreInv /\ [FilesNext]_fileVars => StoreInv'
<1> SUFFICES ASSUME StoreInv, [FilesNext]_fileVars
             PROVE  KnowsItsContent' /\ LocksApart' /\ ReadyIsThere' /\ SweptIsFree' /\ BytesThere' /\ RowThere'
  BY TypeStep DEF StoreInv
<1> USE DEF StoreInv
<1>1. CASE UNCHANGED fileVars
  BY <1>1 DEF fileVars, KnowsItsContent, LocksApart, ReadyIsThere, SweptIsFree, BytesThere,
     RowThere,
     Works, Sweeps, Referenced, Contents
<1>2. ASSUME NEW w \in FileTask, NEW n \in FileName, NEW c \in Content, UploadBegin(w, n, c)
      PROVE  KnowsItsContent' /\ LocksApart' /\ ReadyIsThere' /\ SweptIsFree' /\ BytesThere' /\ RowThere'
  <2>1. KnowsItsContent'
    BY <1>2 DEF UploadBegin, FilesTypeOK, FileRequest, NoFileTask, Begin, KnowsItsContent, Works
  <2>2. LocksApart'
    BY <1>2 DEF UploadBegin, FilesTypeOK, FileRequest, NoFileTask, Begin, LocksApart,
       KnowsItsContent, Works
  <2>3. ReadyIsThere'
    BY <1>2 DEF UploadBegin, FilesTypeOK, FileRequest, NoFileTask, Begin, ReadyIsThere, Contents
  <2>4. SweptIsFree'
    BY <1>2 DEF UploadBegin, FilesTypeOK, FileRequest, NoFileTask, Begin, SweptIsFree, Sweeps,
       Referenced
  <2>5. BytesThere'
    BY <1>2 DEF UploadBegin, FilesTypeOK, FileRequest, NoFileTask, Begin, BytesThere, Referenced
  <2>6. RowThere'
    BY <1>2 DEF UploadBegin, FilesTypeOK, FileRequest, NoFileTask, Begin, RowThere, Referenced
  <2>. QED
    BY <2>1, <2>2, <2>3, <2>4, <2>5, <2>6
<1>3. ASSUME NEW w \in FileTask, NEW n \in FileName, NEW c \in Content, RestoreBegin(w, n, c)
      PROVE  KnowsItsContent' /\ LocksApart' /\ ReadyIsThere' /\ SweptIsFree' /\ BytesThere' /\ RowThere'
  <2>1. KnowsItsContent'
    BY <1>3 DEF RestoreBegin, FilesTypeOK, FileRequest, NoFileTask, Begin, KnowsItsContent, Works
  <2>2. LocksApart'
    BY <1>3 DEF RestoreBegin, FilesTypeOK, FileRequest, NoFileTask, Begin, LocksApart,
       KnowsItsContent, Works
  <2>3. ReadyIsThere'
    BY <1>3 DEF RestoreBegin, FilesTypeOK, FileRequest, NoFileTask, Begin, ReadyIsThere, Contents
  <2>4. SweptIsFree'
    BY <1>3 DEF RestoreBegin, FilesTypeOK, FileRequest, NoFileTask, Begin, SweptIsFree, Sweeps,
       Referenced
  <2>5. BytesThere'
    BY <1>3 DEF RestoreBegin, FilesTypeOK, FileRequest, NoFileTask, Begin, BytesThere, Referenced
  <2>6. RowThere'
    BY <1>3 DEF RestoreBegin, FilesTypeOK, FileRequest, NoFileTask, Begin, RowThere, Referenced
  <2>. QED
    BY <2>1, <2>2, <2>3, <2>4, <2>5, <2>6
<1>4. ASSUME NEW w \in FileTask, UploadQuota(w)
      PROVE  KnowsItsContent' /\ LocksApart' /\ ReadyIsThere' /\ SweptIsFree' /\ BytesThere' /\ RowThere'
  <2>1. KnowsItsContent'
    BY <1>4 DEF UploadQuota, FilesTypeOK, FileRequest, Advance, KnowsItsContent, Works
  <2>2. LocksApart'
    BY <1>4 DEF UploadQuota, FilesTypeOK, FileRequest, Advance, LocksApart, KnowsItsContent, Works
  <2>3. ReadyIsThere'
    BY <1>4 DEF UploadQuota, FilesTypeOK, FileRequest, Advance, ReadyIsThere, Contents
  <2>4. SweptIsFree'
    BY <1>4 DEF UploadQuota, FilesTypeOK, FileRequest, Advance, SweptIsFree, Sweeps, Referenced
  <2>5. BytesThere'
    BY <1>4 DEF UploadQuota, FilesTypeOK, FileRequest, Advance, BytesThere, Referenced
  <2>6. RowThere'
    BY <1>4 DEF UploadQuota, FilesTypeOK, FileRequest, Advance, RowThere, Referenced
  <2>. QED
    BY <2>1, <2>2, <2>3, <2>4, <2>5, <2>6
<1>5. ASSUME NEW w \in FileTask, Touch(w)
      PROVE  KnowsItsContent' /\ LocksApart' /\ ReadyIsThere' /\ SweptIsFree' /\ BytesThere' /\ RowThere'
  <2>A. \A v \in FileTask \ {w} : task'[v] = task[v]
    BY <1>5 DEF Touch, FilesTypeOK
  <2>B. task'[w].locked = task[w].locked \cup {task[w].of}
    BY <1>5 DEF Touch, FilesTypeOK, FileRequest
  <2>1. KnowsItsContent'
    BY <1>5 DEF Touch, FilesTypeOK, FileRequest, KnowsItsContent, Works
  <2>2. LocksApart'
    <3>1. \A v \in FileTask \ {w} : task[w].of \notin task[v].locked
      BY <1>5 DEF Touch, RowFree
    <3>. QED
      BY <3>1, <2>A, <2>B DEF LocksApart
  <2>3. ReadyIsThere'
    BY <1>5 DEF Touch, FilesTypeOK, FileRequest, ReadyIsThere, Contents
  <2>4. SweptIsFree'
    BY <1>5 DEF Touch, FilesTypeOK, FileRequest, SweptIsFree, Sweeps, Referenced
  <2>5. BytesThere'
    BY <1>5 DEF Touch, FilesTypeOK, FileRequest, BytesThere, Referenced
  <2>6. RowThere'
    BY <1>5 DEF Touch, FilesTypeOK, FileRequest, RowThere, Referenced
  <2>. QED
    BY <2>1, <2>2, <2>3, <2>4, <2>5, <2>6
<1>6. ASSUME NEW w \in FileTask, Write(w)
      PROVE  KnowsItsContent' /\ LocksApart' /\ ReadyIsThere' /\ SweptIsFree' /\ BytesThere' /\ RowThere'
  <2>A. \A v \in FileTask \ {w} : task'[v] = task[v]
    BY <1>6 DEF Write, FilesTypeOK
  <2>B. /\ task'[w].adding = <<task[w].of>> /\ task'[w].locked = task[w].locked /\ task'[w].of = task[w].of
         /\ task[w].of \in task[w].locked /\ task[w].of \in bytes' /\ bytes \subseteq bytes'
    BY <1>6 DEF Write, FilesTypeOK, FileRequest, KnowsItsContent
  <2>1. KnowsItsContent'
    BY <1>6 DEF Write, FilesTypeOK, FileRequest, KnowsItsContent, Works
  <2>2. LocksApart'
    BY <1>6 DEF Write, FilesTypeOK, FileRequest, LocksApart, KnowsItsContent, Works
  <2>3. ReadyIsThere'
    <3>1. ASSUME NEW v \in FileTask, v # w
          PROVE  /\ \A c \in Contents(task[v].adding)' : c \in task'[v].locked /\ c \in bytes'
                 /\ task'[v].pc = "ready" => task'[v].of \in bytes'
      BY <3>1, <2>A, <2>B DEF ReadyIsThere, Contents
    <3>2. \A c \in Contents(task'[w].adding) : c \in task'[w].locked /\ c \in bytes'
      BY <2>B, ContentsOne
    <3>. QED
      BY <3>1, <3>2, <2>B DEF ReadyIsThere, Contents
  <2>4. SweptIsFree'
    BY <1>6 DEF Write, FilesTypeOK, FileRequest, SweptIsFree, Sweeps, Referenced
  <2>5. BytesThere'
    BY <1>6 DEF Write, FilesTypeOK, FileRequest, BytesThere, Referenced
  <2>6. RowThere'
    BY <1>6 DEF Write, FilesTypeOK, FileRequest, RowThere, Referenced
  <2>. QED
    BY <2>1, <2>2, <2>3, <2>4, <2>5, <2>6
<1>7. ASSUME NEW w \in FileTask, RestoreCheck(w)
      PROVE  KnowsItsContent' /\ LocksApart' /\ ReadyIsThere' /\ SweptIsFree' /\ BytesThere' /\ RowThere'
  <2>A. \A v \in FileTask \ {w} : task'[v] = task[v]
    BY <1>7 DEF RestoreCheck, FilesTypeOK
  <2>B. /\ task'[w].adding = <<task[w].of>> /\ task'[w].locked = task[w].locked /\ task'[w].of = task[w].of
         /\ task[w].of \in task[w].locked /\ task[w].of \in bytes' /\ bytes \subseteq bytes'
    BY <1>7 DEF RestoreCheck, FilesTypeOK, FileRequest, KnowsItsContent
  <2>1. KnowsItsContent'
    BY <1>7 DEF RestoreCheck, FilesTypeOK, FileRequest, KnowsItsContent, Works
  <2>2. LocksApart'
    BY <1>7 DEF RestoreCheck, FilesTypeOK, FileRequest, LocksApart, KnowsItsContent, Works
  <2>3. ReadyIsThere'
    <3>1. ASSUME NEW v \in FileTask, v # w
          PROVE  /\ \A c \in Contents(task[v].adding)' : c \in task'[v].locked /\ c \in bytes'
                 /\ task'[v].pc = "ready" => task'[v].of \in bytes'
      BY <3>1, <2>A, <2>B DEF ReadyIsThere, Contents
    <3>2. \A c \in Contents(task'[w].adding) : c \in task'[w].locked /\ c \in bytes'
      BY <2>B, ContentsOne
    <3>. QED
      BY <3>1, <3>2, <2>B DEF ReadyIsThere, Contents
  <2>4. SweptIsFree'
    BY <1>7 DEF RestoreCheck, FilesTypeOK, FileRequest, SweptIsFree, Sweeps, Referenced
  <2>5. BytesThere'
    BY <1>7 DEF RestoreCheck, FilesTypeOK, FileRequest, BytesThere, Referenced
  <2>6. RowThere'
    BY <1>7 DEF RestoreCheck, FilesTypeOK, FileRequest, RowThere, Referenced
  <2>. QED
    BY <2>1, <2>2, <2>3, <2>4, <2>5, <2>6
<1>8. ASSUME NEW w \in FileTask, NEW n \in FileName, NEW S \in SUBSET Content, AttachBegin(w, n, S)
      PROVE  KnowsItsContent' /\ LocksApart' /\ ReadyIsThere' /\ SweptIsFree' /\ BytesThere' /\ RowThere'
  <2>1. KnowsItsContent'
    BY <1>8 DEF AttachBegin, FilesTypeOK, FileRequest, NoFileTask, Begin, KnowsItsContent, Works
  <2>2. LocksApart'
    BY <1>8 DEF AttachBegin, FilesTypeOK, FileRequest, NoFileTask, Begin, LocksApart,
       KnowsItsContent, Works
  <2>3. ReadyIsThere'
    BY <1>8 DEF AttachBegin, FilesTypeOK, FileRequest, NoFileTask, Begin, ReadyIsThere, Contents
  <2>4. SweptIsFree'
    BY <1>8 DEF AttachBegin, FilesTypeOK, FileRequest, NoFileTask, Begin, SweptIsFree, Sweeps,
       Referenced
  <2>5. BytesThere'
    BY <1>8 DEF AttachBegin, FilesTypeOK, FileRequest, NoFileTask, Begin, BytesThere, Referenced
  <2>6. RowThere'
    BY <1>8 DEF AttachBegin, FilesTypeOK, FileRequest, NoFileTask, Begin, RowThere, Referenced
  <2>. QED
    BY <2>1, <2>2, <2>3, <2>4, <2>5, <2>6
<1>9. ASSUME NEW w \in FileTask, NEW c \in Content, StageBegin(w, c)
      PROVE  KnowsItsContent' /\ LocksApart' /\ ReadyIsThere' /\ SweptIsFree' /\ BytesThere' /\ RowThere'
  <2>1. KnowsItsContent'
    BY <1>9 DEF StageBegin, FilesTypeOK, FileRequest, NoFileTask, Begin, KnowsItsContent, Works
  <2>2. LocksApart'
    BY <1>9 DEF StageBegin, FilesTypeOK, FileRequest, NoFileTask, Begin, LocksApart,
       KnowsItsContent, Works
  <2>3. ReadyIsThere'
    BY <1>9 DEF StageBegin, FilesTypeOK, FileRequest, NoFileTask, Begin, ReadyIsThere, Contents
  <2>4. SweptIsFree'
    BY <1>9 DEF StageBegin, FilesTypeOK, FileRequest, NoFileTask, Begin, SweptIsFree, Sweeps,
       Referenced
  <2>5. BytesThere'
    BY <1>9 DEF StageBegin, FilesTypeOK, FileRequest, NoFileTask, Begin, BytesThere, Referenced
  <2>6. RowThere'
    BY <1>9 DEF StageBegin, FilesTypeOK, FileRequest, NoFileTask, Begin, RowThere, Referenced
  <2>. QED
    BY <2>1, <2>2, <2>3, <2>4, <2>5, <2>6
<1>10. ASSUME NEW w \in FileTask, NEW c \in Content, AttachNext(w, c)
      PROVE  KnowsItsContent' /\ LocksApart' /\ ReadyIsThere' /\ SweptIsFree' /\ BytesThere' /\ RowThere'
  <2>A. \A v \in FileTask \ {w} : task'[v] = task[v]
    BY <1>10 DEF AttachNext, FilesTypeOK
  <2>B. task'[w].op = "attach" /\ task'[w].adding = task[w].adding
    BY <1>10, AttachGoes
  <2>C. \/ task'[w].pc = "named" /\ task'[w].of = task[w].of /\ task'[w].locked = task[w].locked
       \/ /\ RowFree(w, c) /\ task'[w].pc = "touched" /\ task'[w].of = c
          /\ task'[w].locked = task[w].locked \cup {c}
    BY <1>10, AttachGoes
  <2>D. UNCHANGED <<bytes, blob, file, kept, unpaid>>
    BY <1>10 DEF AttachNext
  <2>1. KnowsItsContent'
    BY <2>A, <2>B, <2>C DEF KnowsItsContent, Works
  <2>2. LocksApart'
    BY <2>A, <2>C DEF LocksApart, RowFree
  <2>3. ReadyIsThere'
    BY <2>A, <2>B, <2>C, <2>D DEF ReadyIsThere, Contents
  <2>4. SweptIsFree'
    BY <2>A, <2>B, <2>D DEF SweptIsFree, Sweeps, Referenced
  <2>5. BytesThere'
    BY <1>10 DEF AttachNext, FilesTypeOK, FileRequest, BytesThere, Referenced
  <2>6. RowThere'
    BY <1>10 DEF AttachNext, FilesTypeOK, FileRequest, RowThere, Referenced
  <2>. QED
    BY <2>1, <2>2, <2>3, <2>4, <2>5, <2>6
<1>11. ASSUME NEW w \in FileTask, AttachCheck(w)
      PROVE  KnowsItsContent' /\ LocksApart' /\ ReadyIsThere' /\ SweptIsFree' /\ BytesThere' /\ RowThere'
  <2>1. KnowsItsContent'
    BY <1>11 DEF AttachCheck, FilesTypeOK, FileRequest, KnowsItsContent, Works
  <2>2. LocksApart'
    BY <1>11 DEF AttachCheck, FilesTypeOK, FileRequest, LocksApart, KnowsItsContent, Works
  <2>3. ReadyIsThere'
    BY <1>11 DEF AttachCheck, FilesTypeOK, FileRequest, ReadyIsThere, Contents
  <2>4. SweptIsFree'
    BY <1>11 DEF AttachCheck, FilesTypeOK, FileRequest, SweptIsFree, Sweeps, Referenced
  <2>5. BytesThere'
    BY <1>11 DEF AttachCheck, FilesTypeOK, FileRequest, BytesThere, Referenced
  <2>6. RowThere'
    BY <1>11 DEF AttachCheck, FilesTypeOK, FileRequest, RowThere, Referenced
  <2>. QED
    BY <2>1, <2>2, <2>3, <2>4, <2>5, <2>6
<1>12. ASSUME NEW w \in FileTask, CommitVersion(w)
      PROVE  KnowsItsContent' /\ LocksApart' /\ ReadyIsThere' /\ SweptIsFree' /\ BytesThere' /\ RowThere'
  <2>A. task'[w] = NoFileTask /\ \A v \in FileTask \ {w} : task'[v] = task[v]
    BY <1>12 DEF CommitVersion, EndTask, FilesTypeOK
  <2>B. \A c : Referenced(c)' => Referenced(c) \/ c \in Contents(task[w].adding)
    <3>1. \A m \in FileName : file'[m] = file[m] \/ file'[m] = file[m] \o task[w].adding
      BY <1>12 DEF CommitVersion, FilesTypeOK
    <3>2. \A m \in FileName : Contents(file[m] \o task[w].adding) = Contents(file[m]) \cup Contents(task[w].adding)
      BY ContentsConcat DEF FilesTypeOK, FileRequest
    <3>3. \A m \in FileName : Contents(file'[m]) \subseteq Contents(file[m]) \cup Contents(task[w].adding)
      BY <3>1, <3>2
    <3>4. kept' = kept
      BY <1>12 DEF CommitVersion
    <3>. QED
      BY <3>3, <3>4 DEF Referenced, Contents
  <2>C. \A c \in Contents(task[w].adding) : c \in task[w].locked /\ c \in bytes
    BY DEF ReadyIsThere
  <2>D. bytes' = bytes /\ \A c \in Content : blob'[c] = IF c \in task[w].locked THEN "fresh" ELSE blob[c]
    BY <1>12 DEF CommitVersion, TouchedRows
  <2>1. KnowsItsContent'
    BY <1>12 DEF CommitVersion, FilesTypeOK, FileRequest, NoFileTask, EndTask, KnowsItsContent,
       Works
  <2>2. LocksApart'
    BY <1>12 DEF CommitVersion, FilesTypeOK, FileRequest, NoFileTask, EndTask, LocksApart,
       KnowsItsContent, Works
  <2>3. ReadyIsThere'
    BY <1>12 DEF CommitVersion, FilesTypeOK, FileRequest, NoFileTask, EndTask, ReadyIsThere,
       Contents
  <2>4. SweptIsFree'
    <3>1. ASSUME NEW v \in FileTask, v # w, Sweeps(v)
          PROVE  ~Referenced(task[v].of)'
      <4>1. task[v].of \in task[v].locked /\ task[v].of \notin task[w].locked
        BY <3>1 DEF SweptIsFree, KnowsItsContent, LocksApart
      <4>2. ~Referenced(task[v].of) /\ task'[v].of = task[v].of
        BY <3>1, <2>A DEF SweptIsFree
      <4>. QED
        BY <4>1, <4>2, <2>B, <2>C DEF Referenced, Contents
    <3>2. \A v \in FileTask \ {w} : Sweeps(v)' => Sweeps(v) /\ task'[v].adding = <<>> /\ task'[v].pc \in {"touched", "removed"}
      BY <2>A DEF Sweeps, SweptIsFree
    <3>3. ~Sweeps(w)'
      BY <2>A DEF Sweeps, NoFileTask
    <3>. QED
      BY <3>1, <3>2, <3>3 DEF SweptIsFree
  <2>5. BytesThere'
    BY <2>B, <2>C, <2>D DEF BytesThere, Referenced, Contents
  <2>6. RowThere'
    BY <2>B, <2>C, <2>D DEF RowThere, Referenced, Contents
  <2>. QED
    BY <2>1, <2>2, <2>3, <2>4, <2>5, <2>6
<1>13. ASSUME NEW w \in FileTask, CommitStage(w)
      PROVE  KnowsItsContent' /\ LocksApart' /\ ReadyIsThere' /\ SweptIsFree' /\ BytesThere' /\ RowThere'
  <2>A. task'[w] = NoFileTask /\ \A v \in FileTask \ {w} : task'[v] = task[v]
    BY <1>13 DEF CommitStage, EndTask, FilesTypeOK
  <2>B. \A c : Referenced(c)' => Referenced(c) \/ c = task[w].of
    BY <1>13 DEF CommitStage, Referenced, Contents
  <2>C. task[w].of \in task[w].locked /\ task[w].of \in bytes
    BY <1>13 DEF CommitStage, ReadyIsThere, KnowsItsContent
  <2>D. bytes' = bytes /\ \A c \in Content : blob'[c] = IF c \in task[w].locked THEN "fresh" ELSE blob[c]
    BY <1>13 DEF CommitStage, TouchedRows
  <2>1. KnowsItsContent'
    BY <1>13 DEF CommitStage, FilesTypeOK, FileRequest, NoFileTask, EndTask, KnowsItsContent, Works
  <2>2. LocksApart'
    BY <1>13 DEF CommitStage, FilesTypeOK, FileRequest, NoFileTask, EndTask, LocksApart,
       KnowsItsContent, Works
  <2>3. ReadyIsThere'
    BY <1>13 DEF CommitStage, FilesTypeOK, FileRequest, NoFileTask, EndTask, ReadyIsThere, Contents
  <2>4. SweptIsFree'
    <3>1. ASSUME NEW v \in FileTask, v # w, Sweeps(v)
          PROVE  ~Referenced(task[v].of)'
      <4>1. task[v].of \in task[v].locked /\ task[v].of \notin task[w].locked
        BY <3>1 DEF SweptIsFree, KnowsItsContent, LocksApart
      <4>2. ~Referenced(task[v].of) /\ task'[v].of = task[v].of
        BY <3>1, <2>A DEF SweptIsFree
      <4>. QED
        BY <4>1, <4>2, <2>B, <2>C DEF Referenced, Contents
    <3>2. \A v \in FileTask \ {w} : Sweeps(v)' => Sweeps(v) /\ task'[v].adding = <<>> /\ task'[v].pc \in {"touched", "removed"}
      BY <2>A DEF Sweeps, SweptIsFree
    <3>3. ~Sweeps(w)'
      BY <2>A DEF Sweeps, NoFileTask
    <3>. QED
      BY <3>1, <3>2, <3>3 DEF SweptIsFree
  <2>5. BytesThere'
    BY <2>B, <2>C, <2>D DEF BytesThere, Referenced, Contents
  <2>6. RowThere'
    BY <2>B, <2>C, <2>D DEF RowThere, Referenced, Contents
  <2>. QED
    BY <2>1, <2>2, <2>3, <2>4, <2>5, <2>6
<1>14. ASSUME NEW w \in FileTask, AbortFile(w)
      PROVE  KnowsItsContent' /\ LocksApart' /\ ReadyIsThere' /\ SweptIsFree' /\ BytesThere' /\ RowThere'
  <2>1. KnowsItsContent'
    BY <1>14 DEF AbortFile, FilesTypeOK, FileRequest, NoFileTask, EndTask, KnowsItsContent, Works
  <2>2. LocksApart'
    BY <1>14 DEF AbortFile, FilesTypeOK, FileRequest, NoFileTask, EndTask, LocksApart,
       KnowsItsContent, Works
  <2>3. ReadyIsThere'
    BY <1>14 DEF AbortFile, FilesTypeOK, FileRequest, NoFileTask, EndTask, ReadyIsThere, Contents
  <2>4. SweptIsFree'
    BY <1>14 DEF AbortFile, FilesTypeOK, FileRequest, NoFileTask, EndTask, SweptIsFree, Sweeps,
       Referenced
  <2>5. BytesThere'
    BY <1>14 DEF AbortFile, FilesTypeOK, FileRequest, NoFileTask, EndTask, BytesThere, Referenced
  <2>6. RowThere'
    BY <1>14 DEF AbortFile, FilesTypeOK, FileRequest, NoFileTask, EndTask, RowThere, Referenced
  <2>. QED
    BY <2>1, <2>2, <2>3, <2>4, <2>5, <2>6
<1>15. ASSUME NEW w \in FileTask, NEW c \in Content, SweepLock(w, c)
      PROVE  KnowsItsContent' /\ LocksApart' /\ ReadyIsThere' /\ SweptIsFree' /\ BytesThere' /\ RowThere'
  <2>A. \A v \in FileTask \ {w} : task'[v] = task[v]
    BY <1>15 DEF SweepLock, Begin, FilesTypeOK
  <2>B. /\ Sweeps(w)' /\ task'[w].of = c /\ task'[w].locked = {c} /\ task'[w].adding = <<>>
         /\ task'[w].pc = "touched"
    BY <1>15 DEF SweepLock, Begin, NoFileTask, FilesTypeOK, FileRequest, Sweeps
  <2>C. RowFree(w, c) /\ ~Referenced(c)
    BY <1>15 DEF SweepLock, MaySweep, RowThere
  <2>D. UNCHANGED <<bytes, blob, file, kept, unpaid>>
    BY <1>15 DEF SweepLock
  <2>1. KnowsItsContent'
    BY <1>15 DEF SweepLock, FilesTypeOK, FileRequest, NoFileTask, Begin, KnowsItsContent, Works
  <2>2. LocksApart'
    BY <2>A, <2>B, <2>C DEF LocksApart, RowFree
  <2>3. ReadyIsThere'
    BY <1>15 DEF SweepLock, FilesTypeOK, FileRequest, NoFileTask, Begin, ReadyIsThere, Contents
  <2>4. SweptIsFree'
    BY <2>A, <2>B, <2>C, <2>D DEF SweptIsFree, Sweeps, Referenced, Contents
  <2>5. BytesThere'
    BY <1>15 DEF SweepLock, FilesTypeOK, FileRequest, NoFileTask, Begin, BytesThere, Referenced
  <2>6. RowThere'
    BY <1>15 DEF SweepLock, FilesTypeOK, FileRequest, NoFileTask, Begin, RowThere, Referenced
  <2>. QED
    BY <2>1, <2>2, <2>3, <2>4, <2>5, <2>6
<1>16. ASSUME NEW w \in FileTask, NEW c \in Content, OrphanClaim(w, c)
      PROVE  KnowsItsContent' /\ LocksApart' /\ ReadyIsThere' /\ SweptIsFree' /\ BytesThere' /\ RowThere'
  <2>A. \A v \in FileTask \ {w} : task'[v] = task[v]
    BY <1>16 DEF OrphanClaim, Begin, FilesTypeOK
  <2>B. /\ Sweeps(w)' /\ task'[w].of = c /\ task'[w].locked = {c} /\ task'[w].adding = <<>>
         /\ task'[w].pc = "touched"
    BY <1>16 DEF OrphanClaim, Begin, NoFileTask, FilesTypeOK, FileRequest, Sweeps
  <2>C. RowFree(w, c) /\ ~Referenced(c)
    BY <1>16 DEF OrphanClaim, MaySweep, RowThere
  <2>D. UNCHANGED <<bytes, blob, file, kept, unpaid>>
    BY <1>16 DEF OrphanClaim
  <2>1. KnowsItsContent'
    BY <1>16 DEF OrphanClaim, FilesTypeOK, FileRequest, NoFileTask, Begin, KnowsItsContent, Works
  <2>2. LocksApart'
    BY <2>A, <2>B, <2>C DEF LocksApart, RowFree
  <2>3. ReadyIsThere'
    BY <1>16 DEF OrphanClaim, FilesTypeOK, FileRequest, NoFileTask, Begin, ReadyIsThere, Contents
  <2>4. SweptIsFree'
    BY <2>A, <2>B, <2>C, <2>D DEF SweptIsFree, Sweeps, Referenced, Contents
  <2>5. BytesThere'
    BY <1>16 DEF OrphanClaim, FilesTypeOK, FileRequest, NoFileTask, Begin, BytesThere, Referenced
  <2>6. RowThere'
    BY <1>16 DEF OrphanClaim, FilesTypeOK, FileRequest, NoFileTask, Begin, RowThere, Referenced
  <2>. QED
    BY <2>1, <2>2, <2>3, <2>4, <2>5, <2>6
<1>17. ASSUME NEW w \in FileTask, RemoveBytes(w)
      PROVE  KnowsItsContent' /\ LocksApart' /\ ReadyIsThere' /\ SweptIsFree' /\ BytesThere' /\ RowThere'
  <2>A. \A v \in FileTask \ {w} : task'[v] = task[v]
    BY <1>17 DEF RemoveBytes, Advance, FilesTypeOK
  <2>B. /\ task'[w].adding = task[w].adding /\ task'[w].locked = task[w].locked /\ task'[w].of = task[w].of
         /\ task'[w].pc = "removed"
    BY <1>17 DEF RemoveBytes, Advance, FilesTypeOK, FileRequest
  <2>C. Sweeps(w) /\ task[w].of \in task[w].locked /\ task[w].adding = <<>> /\ ~Referenced(task[w].of)
    BY <1>17 DEF RemoveBytes, Sweeps, SweptIsFree, KnowsItsContent
  <2>D. bytes' = bytes \ {task[w].of} /\ UNCHANGED <<blob, file, kept, unpaid>>
    BY <1>17 DEF RemoveBytes
  <2>1. KnowsItsContent'
    BY <1>17 DEF RemoveBytes, FilesTypeOK, FileRequest, Advance, KnowsItsContent, Works
  <2>2. LocksApart'
    BY <1>17 DEF RemoveBytes, FilesTypeOK, FileRequest, Advance, LocksApart, KnowsItsContent, Works
  <2>3. ReadyIsThere'
    <3>1. ASSUME NEW v \in FileTask, v # w
          PROVE  /\ \A c \in Contents(task'[v].adding) : c \in task'[v].locked /\ c \in bytes'
                 /\ task'[v].pc = "ready" => task'[v].of \in bytes'
      <4>1. task[w].of \notin task[v].locked
        BY <3>1, <2>C DEF LocksApart
      <4>2. task[v].pc = "ready" => task[v].of \in task[v].locked
        BY DEF KnowsItsContent
      <4>. QED
        BY <3>1, <4>1, <4>2, <2>A, <2>D DEF ReadyIsThere
    <3>2. Contents(task'[w].adding) = {}
      BY <2>B, <2>C, NoContents
    <3>. QED
      BY <3>1, <3>2, <2>B DEF ReadyIsThere, Contents
  <2>4. SweptIsFree'
    BY <1>17 DEF RemoveBytes, FilesTypeOK, FileRequest, Advance, SweptIsFree, Sweeps, Referenced
  <2>5. BytesThere'
    BY <2>C, <2>D DEF BytesThere, Referenced, Contents
  <2>6. RowThere'
    BY <1>17 DEF RemoveBytes, FilesTypeOK, FileRequest, Advance, RowThere, Referenced
  <2>. QED
    BY <2>1, <2>2, <2>3, <2>4, <2>5, <2>6
<1>18. ASSUME NEW w \in FileTask, RemoveRow(w)
      PROVE  KnowsItsContent' /\ LocksApart' /\ ReadyIsThere' /\ SweptIsFree' /\ BytesThere' /\ RowThere'
  <2>C. Sweeps(w) /\ ~Referenced(task[w].of)
    BY <1>18 DEF RemoveRow, Sweeps, SweptIsFree
  <2>D. \A c \in Content : c # task[w].of => blob'[c] = blob[c]
    BY <1>18 DEF RemoveRow, FilesTypeOK
  <2>E. UNCHANGED <<bytes, file, kept, unpaid>>
    BY <1>18 DEF RemoveRow
  <2>1. KnowsItsContent'
    BY <1>18 DEF RemoveRow, FilesTypeOK, FileRequest, NoFileTask, EndTask, KnowsItsContent, Works
  <2>2. LocksApart'
    BY <1>18 DEF RemoveRow, FilesTypeOK, FileRequest, NoFileTask, EndTask, LocksApart,
       KnowsItsContent, Works
  <2>3. ReadyIsThere'
    BY <1>18 DEF RemoveRow, FilesTypeOK, FileRequest, NoFileTask, EndTask, ReadyIsThere, Contents
  <2>4. SweptIsFree'
    BY <1>18 DEF RemoveRow, FilesTypeOK, FileRequest, NoFileTask, EndTask, SweptIsFree, Sweeps,
       Referenced
  <2>5. BytesThere'
    BY <1>18 DEF RemoveRow, FilesTypeOK, FileRequest, NoFileTask, EndTask, BytesThere, Referenced
  <2>6. RowThere'
    BY <2>C, <2>D, <2>E DEF RowThere, Referenced, Contents
  <2>. QED
    BY <2>1, <2>2, <2>3, <2>4, <2>5, <2>6
<1>19. ASSUME NEW n \in FileName, DeleteFile(n)
      PROVE  KnowsItsContent' /\ LocksApart' /\ ReadyIsThere' /\ SweptIsFree' /\ BytesThere' /\ RowThere'
  <2>A. \A c : Referenced(c)' => Referenced(c)
    BY <1>19, NoContents DEF DeleteFile, FilesTypeOK, Referenced, Contents
  <2>B. UNCHANGED <<bytes, blob, kept, unpaid, task>>
    BY <1>19 DEF DeleteFile
  <2>1. KnowsItsContent'
    BY <1>19 DEF DeleteFile, FilesTypeOK, FileRequest, KnowsItsContent, Works
  <2>2. LocksApart'
    BY <1>19 DEF DeleteFile, FilesTypeOK, FileRequest, LocksApart, KnowsItsContent, Works
  <2>3. ReadyIsThere'
    BY <1>19 DEF DeleteFile, FilesTypeOK, FileRequest, ReadyIsThere, Contents
  <2>4. SweptIsFree'
    BY <2>A, <2>B DEF SweptIsFree, Sweeps, Referenced, Contents
  <2>5. BytesThere'
    BY <2>A, <2>B DEF BytesThere, Referenced, Contents
  <2>6. RowThere'
    BY <2>A, <2>B DEF RowThere, Referenced, Contents
  <2>. QED
    BY <2>1, <2>2, <2>3, <2>4, <2>5, <2>6
<1>20. ASSUME NEW S \in SUBSET Content, DropStaged(S)
      PROVE  KnowsItsContent' /\ LocksApart' /\ ReadyIsThere' /\ SweptIsFree' /\ BytesThere' /\ RowThere'
  <2>1. KnowsItsContent'
    BY <1>20 DEF DropStaged, FilesTypeOK, FileRequest, KnowsItsContent, Works
  <2>2. LocksApart'
    BY <1>20 DEF DropStaged, FilesTypeOK, FileRequest, LocksApart, KnowsItsContent, Works
  <2>3. ReadyIsThere'
    BY <1>20 DEF DropStaged, FilesTypeOK, FileRequest, ReadyIsThere, Contents
  <2>4. SweptIsFree'
    BY <1>20 DEF DropStaged, FilesTypeOK, FileRequest, SweptIsFree, Sweeps, Referenced
  <2>5. BytesThere'
    BY <1>20 DEF DropStaged, FilesTypeOK, FileRequest, BytesThere, Referenced
  <2>6. RowThere'
    BY <1>20 DEF DropStaged, FilesTypeOK, FileRequest, RowThere, Referenced
  <2>. QED
    BY <2>1, <2>2, <2>3, <2>4, <2>5, <2>6
<1>21. ASSUME NEW c \in Content, AgeBlob(c)
      PROVE  KnowsItsContent' /\ LocksApart' /\ ReadyIsThere' /\ SweptIsFree' /\ BytesThere' /\ RowThere'
  <2>1. KnowsItsContent'
    BY <1>21 DEF AgeBlob, FilesTypeOK, FileRequest, KnowsItsContent, Works
  <2>2. LocksApart'
    BY <1>21 DEF AgeBlob, FilesTypeOK, FileRequest, LocksApart, KnowsItsContent, Works
  <2>3. ReadyIsThere'
    BY <1>21 DEF AgeBlob, FilesTypeOK, FileRequest, ReadyIsThere, Contents
  <2>4. SweptIsFree'
    BY <1>21 DEF AgeBlob, FilesTypeOK, FileRequest, SweptIsFree, Sweeps, Referenced
  <2>5. BytesThere'
    BY <1>21 DEF AgeBlob, FilesTypeOK, FileRequest, BytesThere, Referenced
  <2>6. RowThere'
    BY <1>21 DEF AgeBlob, FilesTypeOK, FileRequest, RowThere, Referenced
  <2>. QED
    BY <2>1, <2>2, <2>3, <2>4, <2>5, <2>6
<1>. QED
  BY <1>1, <1>2, <1>3, <1>4, <1>5, <1>6, <1>7, <1>8, <1>9, <1>10, <1>11, <1>12, <1>13, <1>14,
     <1>15, <1>16, <1>17, <1>18, <1>19, <1>20, <1>21 DEF FilesNext

(* The store, its rows and the requests in flight keep their form; what    *)
(* somebody refers to is in the store and counted, whatever uploads,       *)
(* imports, deletes and sweeps meet and wherever they die.                 *)
THEOREM StoreHolds == FilesSpec => []StoreInv
  BY StoreInit, StoreStep, PTL DEF FilesSpec

(* The types of the store and of the requests.                             *)
THEOREM FilesTypes == FilesSpec => []FilesTypeOK
<1>1. StoreInv => FilesTypeOK
  BY DEF StoreInv
<1>. QED
  BY <1>1, StoreHolds, PTL

(* The bytes of every version and of every staged import are in the store. *)
THEOREM NothingReferredToIsGone == FilesSpec => []BytesThere
<1>1. StoreInv => BytesThere
  BY DEF StoreInv
<1>. QED
  BY <1>1, StoreHolds, PTL

(* What somebody refers to has its row, so that the orphan sweep cannot    *)
(* claim its key.                                                          *)
THEOREM NothingReferredToIsAnOrphan == FilesSpec => []RowThere
<1>1. StoreInv => RowThere
  BY DEF StoreInv
<1>. QED
  BY <1>1, StoreHolds, PTL

----------------------------------------------------------------------------
(* One request at a time works on a file.  The versions it is to add,      *)
(* after those that are there, have no two alike in a row, and the content *)
(* it has still to look at is not the last of them.                        *)
OnName(w) == task[w].op \in {"upload", "restore", "attach"}
Pending(w) ==
    \/ task[w].op \in {"upload", "restore"} /\ task[w].pc # "ready"
    \/ task[w].op = "attach" /\ task[w].pc = "touched"
NoRepeats(s) == \A i \in 1 .. Len(s) - 1 : s[i] # s[i + 1]
Ahead(w) == file[task[w].name] \o task[w].adding

NamesApart == \A v, w \in FileTask : OnName(v) /\ OnName(w) /\ task[v].name = task[w].name => v = w

AheadOK(w) ==
    /\ OnName(w) => task[w].name \in FileName /\ NoRepeats(Ahead(w))
    /\ Pending(w) => ~Latest(Ahead(w), task[w].of)
    /\ Pending(w) /\ task[w].op # "attach" => task[w].adding = <<>>
AheadDiffers == \A w \in FileTask : AheadOK(w)

NamesInv == StoreInv /\ NamesApart /\ AheadDiffers /\ VersionsDiffer

LEMMA NoRepeatsAppend ==
  ASSUME NEW s \in Seq(Content), NEW c \in Content, NoRepeats(s), ~Latest(s, c)
  PROVE  NoRepeats(Append(s, c))
<1>1. CASE s = <<>>
  BY <1>1 DEF NoRepeats
<1>2. CASE s # <<>>
  <2> SUFFICES ASSUME NEW i \in 1 .. Len(Append(s, c)) - 1 PROVE Append(s, c)[i] # Append(s, c)[i + 1]
    BY DEF NoRepeats
  <2>1. Len(Append(s, c)) = Len(s) + 1 /\ i \in 1 .. Len(s) /\ Append(s, c)[i] = s[i]
    OBVIOUS
  <2>2. CASE i = Len(s)
    BY <1>2, <2>1, <2>2 DEF Latest
  <2>3. CASE i < Len(s)
    BY <2>1, <2>3 DEF NoRepeats
  <2>. QED
    BY <2>1, <2>2, <2>3
<1>. QED
  BY <1>1, <1>2

LEMMA NoRepeatsTail ==
  ASSUME NEW s \in Seq(Content), NEW t \in Seq(Content), NoRepeats(s \o t)
  PROVE  NoRepeats(t)
<1> SUFFICES ASSUME NEW i \in 1 .. Len(t) - 1 PROVE t[i] # t[i + 1]
  BY DEF NoRepeats
<1>1. Len(s) + i \in 1 .. Len(s \o t) - 1 /\ (s \o t)[Len(s) + i] = t[i] /\ (s \o t)[Len(s) + i + 1] = t[i + 1]
  OBVIOUS
<1>. QED
  BY <1>1 DEF NoRepeats

LEMMA LatestTail ==
  ASSUME NEW s \in Seq(Content), NEW t \in Seq(Content), NEW c, Latest(t, c)
  PROVE  Latest(s \o t, c)
<1>1. t # <<>> /\ t[Len(t)] = c /\ Len(t) \in Nat /\ Len(t) > 0
  BY DEF Latest
<1>2. s \o t # <<>> /\ Len(s \o t) = Len(s) + Len(t) /\ (s \o t)[Len(s) + Len(t)] = t[Len(t)]
  BY <1>1
<1>. QED
  BY <1>1, <1>2 DEF Latest

LEMMA AppendAhead ==
  ASSUME NEW s \in Seq(Content), NEW t \in Seq(Content), NEW c \in Content
  PROVE  s \o Append(t, c) = Append(s \o t, c) /\ s \o <<>> = s /\ <<>> \o s = s
  OBVIOUS

(* A step that leaves the files alone disturbs one request at most.        *)
LEMMA OneIsAhead ==
  ASSUME AheadDiffers, file' = file, NEW w \in FileTask,
         \A v \in FileTask \ {w} : task'[v] = task[v], AheadOK(w)'
  PROVE  AheadDiffers'
<1>1. ASSUME NEW v \in FileTask, v # w PROVE AheadOK(v)'
  <2>1. task'[v] = task[v] /\ AheadOK(v)
    BY <1>1 DEF AheadDiffers
  <2>2. Ahead(v)' = Ahead(v) /\ OnName(v)' = OnName(v) /\ Pending(v)' = Pending(v)
    BY <2>1 DEF Ahead, OnName, Pending
  <2>. QED
    BY <2>1, <2>2 DEF AheadOK, NoRepeats, Latest
<1>. QED
  BY <1>1 DEF AheadDiffers

LEMMA NotOnName ==
  ASSUME NEW w \in FileTask, task'[w].op \notin {"upload", "restore", "attach"}
  PROVE  ~OnName(w)' /\ AheadOK(w)'
  BY DEF OnName, Pending, AheadOK

LEMMA NamesInit == FilesInit => NamesInv
<1> SUFFICES ASSUME FilesInit PROVE NamesInv
  OBVIOUS
<1>1. StoreInv
  BY StoreInit
<1>2. NamesApart /\ AheadDiffers /\ VersionsDiffer
  BY DEF FilesInit, NoFileTask, NamesApart, AheadDiffers, VersionsDiffer, OnName, Pending, AheadOK
<1>. QED
  BY <1>1, <1>2 DEF NamesInv

LEMMA NamesStep == NamesInv /\ [FilesNext]_fileVars => NamesInv'
<1> SUFFICES ASSUME NamesInv, [FilesNext]_fileVars
             PROVE  NamesApart' /\ AheadDiffers' /\ VersionsDiffer'
  BY StoreStep DEF NamesInv
<1> USE DEF NamesInv, StoreInv
<1>0. /\ \A m \in FileName : file[m] \in Seq(Content)
      /\ \A v \in FileTask : task[v].adding \in Seq(Content)
  BY DEF FilesTypeOK, FileRequest
<1>1. CASE UNCHANGED fileVars
  BY <1>1 DEF fileVars, NamesApart, AheadDiffers, AheadOK, VersionsDiffer, OnName, Pending, Ahead,
     Latest, NoRepeats
<1>2. ASSUME NEW w \in FileTask, NEW n \in FileName, NEW c \in Content, UploadBegin(w, n, c)
      PROVE  NamesApart' /\ AheadDiffers' /\ VersionsDiffer'
  <2>1. file' = file /\ \A v \in FileTask \ {w} : task'[v] = task[v]
    BY <1>2 DEF UploadBegin, Begin, FilesTypeOK
  <2>2. task'[w].op = "upload" /\ task'[w].name = n /\ task'[w].adding = <<>> /\ task'[w].of = c /\ ~Latest(file[n], c)
    BY <1>2 DEF UploadBegin, Begin, NoFileTask, FilesTypeOK
  <2>3. \A v \in FileTask \ {w} : task[v].name # n
    BY <1>2 DEF UploadBegin, NameFree
  <2>4. NamesApart'
    BY <2>1, <2>2, <2>3 DEF NamesApart, OnName
  <2>5. Ahead(w)' = file[n]
    <3>1. file[n] \in Seq(Content)
      BY <1>0
    <3>. QED
      BY <2>1, <2>2, <3>1, AppendAhead DEF Ahead
  <2>6. AheadOK(w)'
    BY <2>2, <2>5 DEF AheadOK, OnName, Pending, Latest, NoRepeats, VersionsDiffer
  <2>7. AheadDiffers'
    BY <2>1, <2>6, OneIsAhead
  <2>. QED
    BY <2>1, <2>4, <2>7 DEF VersionsDiffer
<1>3. ASSUME NEW w \in FileTask, NEW n \in FileName, NEW c \in Content, RestoreBegin(w, n, c)
      PROVE  NamesApart' /\ AheadDiffers' /\ VersionsDiffer'
  <2>1. file' = file /\ \A v \in FileTask \ {w} : task'[v] = task[v]
    BY <1>3 DEF RestoreBegin, Begin, FilesTypeOK
  <2>2. task'[w].op = "restore" /\ task'[w].name = n /\ task'[w].adding = <<>> /\ task'[w].of = c /\ ~Latest(file[n], c)
    BY <1>3 DEF RestoreBegin, Begin, NoFileTask, FilesTypeOK
  <2>3. \A v \in FileTask \ {w} : task[v].name # n
    BY <1>3 DEF RestoreBegin, NameFree
  <2>4. NamesApart'
    BY <2>1, <2>2, <2>3 DEF NamesApart, OnName
  <2>5. Ahead(w)' = file[n]
    <3>1. file[n] \in Seq(Content)
      BY <1>0
    <3>. QED
      BY <2>1, <2>2, <3>1, AppendAhead DEF Ahead
  <2>6. AheadOK(w)'
    BY <2>2, <2>5 DEF AheadOK, OnName, Pending, Latest, NoRepeats, VersionsDiffer
  <2>7. AheadDiffers'
    BY <2>1, <2>6, OneIsAhead
  <2>. QED
    BY <2>1, <2>4, <2>7 DEF VersionsDiffer
<1>4. ASSUME NEW w \in FileTask, UploadQuota(w)
      PROVE  NamesApart' /\ AheadDiffers' /\ VersionsDiffer'
  <2>1. file' = file /\ \A v \in FileTask \ {w} : task'[v] = task[v]
    BY <1>4 DEF UploadQuota, Advance, FilesTypeOK
  <2>2. /\ task'[w].op = task[w].op /\ task'[w].name = task[w].name /\ task'[w].adding = task[w].adding
        /\ task'[w].of = task[w].of
    BY <1>4 DEF UploadQuota, Advance, FilesTypeOK, FileRequest
  <2>3. TRUE /\ (task[w].op = "upload" /\ task[w].pc = "named")
    BY <1>4 DEF UploadQuota, KnowsItsContent, Works
  <2>4. NamesApart'
    BY <2>1, <2>2 DEF NamesApart, OnName
  <2>5. Ahead(w)' = Ahead(w) /\ OnName(w)' = OnName(w) /\ (Pending(w)' => Pending(w))
    BY <2>1, <2>2, <2>3 DEF Ahead, OnName, Pending
  <2>6. AheadOK(w)'
    BY <2>2, <2>5 DEF AheadOK, AheadDiffers, NoRepeats, Latest
  <2>. QED
    BY <2>1, <2>4, <2>6, OneIsAhead DEF VersionsDiffer
<1>5. ASSUME NEW w \in FileTask, Touch(w)
      PROVE  NamesApart' /\ AheadDiffers' /\ VersionsDiffer'
  <2>1. file' = file /\ \A v \in FileTask \ {w} : task'[v] = task[v]
    BY <1>5 DEF Touch, FilesTypeOK
  <2>2. /\ task'[w].op = task[w].op /\ task'[w].name = task[w].name /\ task'[w].adding = task[w].adding
        /\ task'[w].of = task[w].of
    BY <1>5 DEF Touch, FilesTypeOK, FileRequest
  <2>3. TRUE /\ task[w].pc = "quota" /\ task[w].op # "attach"
    BY <1>5 DEF Touch, KnowsItsContent, Works
  <2>4. NamesApart'
    BY <2>1, <2>2 DEF NamesApart, OnName
  <2>5. Ahead(w)' = Ahead(w) /\ OnName(w)' = OnName(w) /\ (Pending(w)' => Pending(w))
    BY <2>1, <2>2, <2>3 DEF Ahead, OnName, Pending
  <2>6. AheadOK(w)'
    BY <2>2, <2>5 DEF AheadOK, AheadDiffers, NoRepeats, Latest
  <2>. QED
    BY <2>1, <2>4, <2>6, OneIsAhead DEF VersionsDiffer
<1>6. ASSUME NEW w \in FileTask, Write(w)
      PROVE  NamesApart' /\ AheadDiffers' /\ VersionsDiffer'
  <2>1. file' = file /\ \A v \in FileTask \ {w} : task'[v] = task[v]
    BY <1>6 DEF Write, FilesTypeOK
  <2>2. task'[w].op = task[w].op /\ task'[w].name = task[w].name
    BY <1>6 DEF Write, FilesTypeOK, FileRequest
  <2>3. Works(w) /\ task[w].op # "attach" /\ task[w].pc = "touched" /\ task[w].of \in Content /\ task'[w].pc = "ready"
    BY <1>6 DEF Write, FilesTypeOK, FileRequest, KnowsItsContent, Works
  <2>4. task'[w].adding = <<task[w].of>>
    BY <1>6 DEF Write, FilesTypeOK, FileRequest
  <2>5. NamesApart'
    BY <2>1, <2>2 DEF NamesApart, OnName
  <2>6. ~Pending(w)'
    BY <2>2, <2>3 DEF Pending
  <2>7. ASSUME OnName(w) PROVE NoRepeats(Ahead(w))'
    <3>1. task[w].name \in FileName /\ NoRepeats(Ahead(w)) /\ ~Latest(Ahead(w), task[w].of)
      BY <2>3, <2>7 DEF AheadDiffers, AheadOK, OnName, Pending
    <3>2. Ahead(w) \in Seq(Content)
      BY <3>1, <1>0 DEF Ahead
    <3>3. Ahead(w)' = Append(Ahead(w), task[w].of)
      <4>1. task[w].adding = <<>>
        BY <2>3, <2>7 DEF AheadDiffers, AheadOK, OnName, Pending
      <4>2. file[task[w].name] \in Seq(Content) /\ <<>> \in Seq(Content) /\ task'[w].adding = Append(<<>>, task[w].of)
        BY <1>0, <2>4, <3>1
      <4>3. file[task[w].name] \o Append(<<>>, task[w].of) = Append(file[task[w].name] \o <<>>, task[w].of)
        BY <2>3, <4>2, AppendAhead
      <4>. QED
        BY <2>1, <2>2, <4>1, <4>2, <4>3 DEF Ahead
    <3>4. NoRepeats(Append(Ahead(w), task[w].of))
      BY <2>3, <3>1, <3>2, NoRepeatsAppend
    <3>. QED
      BY <3>1, <3>3, <3>4 DEF NoRepeats
  <2>8. AheadOK(w)'
    BY <2>2, <2>6, <2>7 DEF AheadOK, AheadDiffers, OnName
  <2>. QED
    BY <2>1, <2>5, <2>8, OneIsAhead DEF VersionsDiffer
<1>7. ASSUME NEW w \in FileTask, RestoreCheck(w)
      PROVE  NamesApart' /\ AheadDiffers' /\ VersionsDiffer'
  <2>1. file' = file /\ \A v \in FileTask \ {w} : task'[v] = task[v]
    BY <1>7 DEF RestoreCheck, FilesTypeOK
  <2>2. task'[w].op = task[w].op /\ task'[w].name = task[w].name
    BY <1>7 DEF RestoreCheck, FilesTypeOK, FileRequest
  <2>3. Works(w) /\ task[w].op # "attach" /\ task[w].pc = "touched" /\ task[w].of \in Content /\ task'[w].pc = "ready"
    BY <1>7 DEF RestoreCheck, FilesTypeOK, FileRequest, KnowsItsContent, Works
  <2>4. task'[w].adding = <<task[w].of>>
    BY <1>7 DEF RestoreCheck, FilesTypeOK, FileRequest
  <2>5. NamesApart'
    BY <2>1, <2>2 DEF NamesApart, OnName
  <2>6. ~Pending(w)'
    BY <2>2, <2>3 DEF Pending
  <2>7. ASSUME OnName(w) PROVE NoRepeats(Ahead(w))'
    <3>1. task[w].name \in FileName /\ NoRepeats(Ahead(w)) /\ ~Latest(Ahead(w), task[w].of)
      BY <2>3, <2>7 DEF AheadDiffers, AheadOK, OnName, Pending
    <3>2. Ahead(w) \in Seq(Content)
      BY <3>1, <1>0 DEF Ahead
    <3>3. Ahead(w)' = Append(Ahead(w), task[w].of)
      <4>1. task[w].adding = <<>>
        BY <2>3, <2>7 DEF AheadDiffers, AheadOK, OnName, Pending
      <4>2. file[task[w].name] \in Seq(Content) /\ <<>> \in Seq(Content) /\ task'[w].adding = Append(<<>>, task[w].of)
        BY <1>0, <2>4, <3>1
      <4>3. file[task[w].name] \o Append(<<>>, task[w].of) = Append(file[task[w].name] \o <<>>, task[w].of)
        BY <2>3, <4>2, AppendAhead
      <4>. QED
        BY <2>1, <2>2, <4>1, <4>2, <4>3 DEF Ahead
    <3>4. NoRepeats(Append(Ahead(w), task[w].of))
      BY <2>3, <3>1, <3>2, NoRepeatsAppend
    <3>. QED
      BY <3>1, <3>3, <3>4 DEF NoRepeats
  <2>8. AheadOK(w)'
    BY <2>2, <2>6, <2>7 DEF AheadOK, AheadDiffers, OnName
  <2>. QED
    BY <2>1, <2>5, <2>8, OneIsAhead DEF VersionsDiffer
<1>8. ASSUME NEW w \in FileTask, NEW n \in FileName, NEW S \in SUBSET Content, AttachBegin(w, n, S)
      PROVE  NamesApart' /\ AheadDiffers' /\ VersionsDiffer'
  <2>1. file' = file /\ \A v \in FileTask \ {w} : task'[v] = task[v]
    BY <1>8 DEF AttachBegin, Begin, FilesTypeOK
  <2>2. task'[w].op = "attach" /\ task'[w].name = n /\ task'[w].adding = <<>> /\ task'[w].pc = "named"
    BY <1>8 DEF AttachBegin, Begin, NoFileTask, FilesTypeOK
  <2>3. \A v \in FileTask \ {w} : task[v].name # n
    BY <1>8 DEF AttachBegin, NameFree
  <2>4. NamesApart'
    BY <2>1, <2>2, <2>3 DEF NamesApart, OnName
  <2>5. Ahead(w)' = file[n]
    <3>1. file[n] \in Seq(Content)
      BY <1>0
    <3>. QED
      BY <2>1, <2>2, <3>1, AppendAhead DEF Ahead
  <2>6. AheadOK(w)'
    BY <2>2, <2>5 DEF AheadOK, OnName, Pending, Latest, NoRepeats, VersionsDiffer
  <2>7. AheadDiffers'
    BY <2>1, <2>6, OneIsAhead
  <2>. QED
    BY <2>1, <2>4, <2>7 DEF VersionsDiffer
<1>9. ASSUME NEW w \in FileTask, NEW c \in Content, StageBegin(w, c)
      PROVE  NamesApart' /\ AheadDiffers' /\ VersionsDiffer'
  <2>1. file' = file /\ task'[w].op = "stage" /\ \A v \in FileTask \ {w} : task'[v] = task[v]
    BY <1>9 DEF StageBegin, Begin, NoFileTask, FilesTypeOK
  <2>2. ~OnName(w)' /\ AheadOK(w)'
    BY <2>1, NotOnName
  <2>3. NamesApart'
    BY <2>1, <2>2 DEF NamesApart, OnName
  <2>. QED
    BY <2>1, <2>2, <2>3, OneIsAhead DEF VersionsDiffer
<1>10. ASSUME NEW w \in FileTask, NEW c \in Content, AttachNext(w, c)
      PROVE  NamesApart' /\ AheadDiffers' /\ VersionsDiffer'
  <2>1. file' = file /\ \A v \in FileTask \ {w} : task'[v] = task[v]
    BY <1>10 DEF AttachNext, FilesTypeOK
  <2>2. task'[w].op = "attach" /\ task[w].op = "attach" /\ task'[w].name = task[w].name /\ task'[w].adding = task[w].adding
    BY <1>10 DEF AttachNext, FilesTypeOK, FileRequest
  <2>3. task'[w].pc = "named" \/ (task'[w].of = c /\ ~Latest(Ahead(w), c))
    <3>1. \/ task'[w].pc = "named"
          \/ task'[w].of = c /\ ~Latest(file[task[w].name] \o task[w].adding, c)
      BY <1>10, AttachGoes
    <3>. QED
      BY <3>1 DEF Ahead
  <2>4. NamesApart'
    BY <2>1, <2>2 DEF NamesApart, OnName
  <2>5. Ahead(w)' = Ahead(w) /\ OnName(w) /\ OnName(w)'
    BY <2>1, <2>2 DEF Ahead, OnName
  <2>6. AheadOK(w)'
    BY <2>2, <2>3, <2>5 DEF AheadOK, AheadDiffers, Pending, NoRepeats, Latest
  <2>. QED
    BY <2>1, <2>4, <2>6, OneIsAhead DEF VersionsDiffer
<1>11. ASSUME NEW w \in FileTask, AttachCheck(w)
      PROVE  NamesApart' /\ AheadDiffers' /\ VersionsDiffer'
  <2>1. file' = file /\ \A v \in FileTask \ {w} : task'[v] = task[v]
    BY <1>11 DEF AttachCheck, FilesTypeOK
  <2>2. task'[w].op = task[w].op /\ task'[w].name = task[w].name
    BY <1>11 DEF AttachCheck, FilesTypeOK, FileRequest
  <2>3. task[w].op = "attach" /\ task[w].pc = "touched" /\ task[w].of \in Content /\ task'[w].pc = "named"
    BY <1>11 DEF AttachCheck, FilesTypeOK, FileRequest, KnowsItsContent, Works
  <2>4. task'[w].adding = task[w].adding \/ task'[w].adding = Append(task[w].adding, task[w].of)
    BY <1>11 DEF AttachCheck, FilesTypeOK, FileRequest
  <2>5. NamesApart'
    BY <2>1, <2>2 DEF NamesApart, OnName
  <2>6. ~Pending(w)'
    BY <2>2, <2>3 DEF Pending
  <2>7. ASSUME OnName(w) PROVE NoRepeats(Ahead(w))'
    <3>1. task[w].name \in FileName /\ NoRepeats(Ahead(w)) /\ ~Latest(Ahead(w), task[w].of)
      BY <2>3, <2>7 DEF AheadDiffers, AheadOK, OnName, Pending
    <3>2. Ahead(w) \in Seq(Content)
      BY <3>1, <1>0 DEF Ahead
    <3>3. Ahead(w)' = Ahead(w) \/ Ahead(w)' = Append(Ahead(w), task[w].of)
      <4>1. file[task[w].name] \in Seq(Content) /\ task[w].adding \in Seq(Content)
        BY <1>0, <3>1
      <4>2. file[task[w].name] \o Append(task[w].adding, task[w].of) = Append(file[task[w].name] \o task[w].adding, task[w].of)
        BY <2>3, <4>1, AppendAhead
      <4>. QED
        BY <2>1, <2>2, <2>4, <4>2 DEF Ahead
    <3>4. NoRepeats(Append(Ahead(w), task[w].of))
      BY <2>3, <3>1, <3>2, NoRepeatsAppend
    <3>. QED
      BY <3>1, <3>3, <3>4 DEF NoRepeats
  <2>8. AheadOK(w)'
    BY <2>2, <2>6, <2>7 DEF AheadOK, AheadDiffers, OnName
  <2>. QED
    BY <2>1, <2>5, <2>8, OneIsAhead DEF VersionsDiffer
<1>12. ASSUME NEW w \in FileTask, CommitVersion(w)
      PROVE  NamesApart' /\ AheadDiffers' /\ VersionsDiffer'
  <2>1. task'[w] = NoFileTask /\ \A v \in FileTask \ {w} : task'[v] = task[v]
    BY <1>12 DEF CommitVersion, EndTask, FilesTypeOK
  <2>2. OnName(w) /\ task[w].name \in FileName /\ NoRepeats(Ahead(w))
    BY <1>12 DEF CommitVersion, OnName, AheadDiffers, AheadOK
  <2>3. file'[task[w].name] = Ahead(w) /\ \A m \in FileName : m # task[w].name => file'[m] = file[m]
    BY <1>12, <2>2 DEF CommitVersion, Ahead, FilesTypeOK
  <2>4. NamesApart'
    BY <2>1 DEF NamesApart, OnName, NoFileTask
  <2>5. ~OnName(w)' /\ ~Pending(w)'
    BY <2>1 DEF OnName, Pending, NoFileTask
  <2>6. \A v \in FileTask \ {w} : OnName(v) => task[v].name # task[w].name /\ task[v].name \in FileName
    BY <2>2 DEF NamesApart, AheadDiffers, AheadOK
  <2>7. \A v \in FileTask \ {w} : OnName(v)' = OnName(v) /\ Pending(v)' = Pending(v) /\ (Pending(v) => OnName(v))
    BY <2>1 DEF OnName, Pending
  <2>8. \A v \in FileTask \ {w} : OnName(v) => Ahead(v)' = Ahead(v)
    BY <2>1, <2>3, <2>6 DEF Ahead
  <2>9. AheadDiffers'
    BY <2>1, <2>5, <2>7, <2>8 DEF AheadDiffers, AheadOK, NoRepeats, Latest
  <2>10. VersionsDiffer'
    BY <2>2, <2>3 DEF VersionsDiffer, NoRepeats
  <2>. QED
    BY <2>4, <2>9, <2>10
<1>13. ASSUME NEW w \in FileTask, CommitStage(w)
      PROVE  NamesApart' /\ AheadDiffers' /\ VersionsDiffer'
  <2>1. file' = file /\ task'[w] = NoFileTask /\ \A v \in FileTask \ {w} : task'[v] = task[v]
    BY <1>13 DEF CommitStage, EndTask, FilesTypeOK
  <2>2. ~OnName(w)' /\ AheadOK(w)'
    BY <2>1, NotOnName DEF NoFileTask
  <2>3. NamesApart'
    BY <2>1, <2>2 DEF NamesApart, OnName
  <2>. QED
    BY <2>1, <2>2, <2>3, OneIsAhead DEF VersionsDiffer
<1>14. ASSUME NEW w \in FileTask, AbortFile(w)
      PROVE  NamesApart' /\ AheadDiffers' /\ VersionsDiffer'
  <2>1. file' = file /\ task'[w] = NoFileTask /\ \A v \in FileTask \ {w} : task'[v] = task[v]
    BY <1>14 DEF AbortFile, EndTask, FilesTypeOK
  <2>2. ~OnName(w)' /\ AheadOK(w)'
    BY <2>1, NotOnName DEF NoFileTask
  <2>3. NamesApart'
    BY <2>1, <2>2 DEF NamesApart, OnName
  <2>. QED
    BY <2>1, <2>2, <2>3, OneIsAhead DEF VersionsDiffer
<1>15. ASSUME NEW w \in FileTask, NEW c \in Content, SweepLock(w, c)
      PROVE  NamesApart' /\ AheadDiffers' /\ VersionsDiffer'
  <2>1. file' = file /\ task'[w].op = "sweep" /\ \A v \in FileTask \ {w} : task'[v] = task[v]
    BY <1>15 DEF SweepLock, Begin, NoFileTask, FilesTypeOK
  <2>2. ~OnName(w)' /\ AheadOK(w)'
    BY <2>1, NotOnName
  <2>3. NamesApart'
    BY <2>1, <2>2 DEF NamesApart, OnName
  <2>. QED
    BY <2>1, <2>2, <2>3, OneIsAhead DEF VersionsDiffer
<1>16. ASSUME NEW w \in FileTask, NEW c \in Content, OrphanClaim(w, c)
      PROVE  NamesApart' /\ AheadDiffers' /\ VersionsDiffer'
  <2>1. file' = file /\ task'[w].op = "orphan" /\ \A v \in FileTask \ {w} : task'[v] = task[v]
    BY <1>16 DEF OrphanClaim, Begin, NoFileTask, FilesTypeOK
  <2>2. ~OnName(w)' /\ AheadOK(w)'
    BY <2>1, NotOnName
  <2>3. NamesApart'
    BY <2>1, <2>2 DEF NamesApart, OnName
  <2>. QED
    BY <2>1, <2>2, <2>3, OneIsAhead DEF VersionsDiffer
<1>17. ASSUME NEW w \in FileTask, RemoveBytes(w)
      PROVE  NamesApart' /\ AheadDiffers' /\ VersionsDiffer'
  <2>1. file' = file /\ \A v \in FileTask \ {w} : task'[v] = task[v]
    BY <1>17 DEF RemoveBytes, Advance, FilesTypeOK
  <2>2. /\ task'[w].op = task[w].op /\ task'[w].name = task[w].name /\ task'[w].adding = task[w].adding
        /\ task'[w].of = task[w].of
    BY <1>17 DEF RemoveBytes, Advance, FilesTypeOK, FileRequest
  <2>3. TRUE /\ task[w].op # "upload" /\ task[w].op # "restore" /\ task[w].op # "attach"
    BY <1>17 DEF RemoveBytes, KnowsItsContent, Works
  <2>4. NamesApart'
    BY <2>1, <2>2 DEF NamesApart, OnName
  <2>5. Ahead(w)' = Ahead(w) /\ OnName(w)' = OnName(w) /\ (Pending(w)' => Pending(w))
    BY <2>1, <2>2, <2>3 DEF Ahead, OnName, Pending
  <2>6. AheadOK(w)'
    BY <2>2, <2>5 DEF AheadOK, AheadDiffers, NoRepeats, Latest
  <2>. QED
    BY <2>1, <2>4, <2>6, OneIsAhead DEF VersionsDiffer
<1>18. ASSUME NEW w \in FileTask, RemoveRow(w)
      PROVE  NamesApart' /\ AheadDiffers' /\ VersionsDiffer'
  <2>1. file' = file /\ task'[w] = NoFileTask /\ \A v \in FileTask \ {w} : task'[v] = task[v]
    BY <1>18 DEF RemoveRow, EndTask, FilesTypeOK
  <2>2. ~OnName(w)' /\ AheadOK(w)'
    BY <2>1, NotOnName DEF NoFileTask
  <2>3. NamesApart'
    BY <2>1, <2>2 DEF NamesApart, OnName
  <2>. QED
    BY <2>1, <2>2, <2>3, OneIsAhead DEF VersionsDiffer
<1>19. ASSUME NEW n \in FileName, DeleteFile(n)
      PROVE  NamesApart' /\ AheadDiffers' /\ VersionsDiffer'
  <2>1. task' = task /\ file'[n] = <<>> /\ \A m \in FileName : m # n => file'[m] = file[m]
    BY <1>19 DEF DeleteFile, FilesTypeOK
  <2>2. NamesApart'
    BY <2>1 DEF NamesApart, OnName
  <2>3. ASSUME NEW v \in FileTask, OnName(v)
        PROVE  /\ NoRepeats(Ahead(v))'
               /\ Pending(v) => ~Latest(Ahead(v), task[v].of)'
    <3>1. CASE task[v].name = n
      <4>1. Ahead(v)' = task[v].adding
        <5>1. task[v].adding \in Seq(Content) /\ Ahead(v)' = <<>> \o task[v].adding
          BY <1>0, <2>1, <3>1 DEF Ahead
        <5>. QED
          BY <5>1
      <4>2. NoRepeats(task[v].adding)
        BY <1>0, <2>3, <3>1, NoRepeatsTail DEF AheadDiffers, AheadOK, Ahead
      <4>3. Pending(v) => ~Latest(task[v].adding, task[v].of)
        BY <1>0, <2>3, <3>1, LatestTail DEF AheadDiffers, AheadOK, Ahead
      <4>. QED
        BY <2>1, <4>1, <4>2, <4>3 DEF NoRepeats, Latest
    <3>2. CASE task[v].name # n
      <4>1. Ahead(v)' = Ahead(v)
        BY <2>1, <2>3, <3>2 DEF Ahead, AheadDiffers, AheadOK
      <4>. QED
        BY <2>1, <2>3, <4>1 DEF AheadDiffers, AheadOK, NoRepeats, Latest
    <3>. QED
      BY <3>1, <3>2
  <2>4. AheadDiffers'
    BY <2>1, <2>3 DEF AheadDiffers, AheadOK, OnName, Pending, Latest
  <2>5. VersionsDiffer'
    BY <2>1 DEF VersionsDiffer
  <2>. QED
    BY <2>2, <2>4, <2>5
<1>20. ASSUME NEW S \in SUBSET Content, DropStaged(S)
      PROVE  NamesApart' /\ AheadDiffers' /\ VersionsDiffer'
  <2>1. file' = file /\ task' = task
    BY <1>20 DEF DropStaged
  <2>. QED
    BY <2>1 DEF NamesApart, AheadDiffers, OnName, Pending, Ahead, Latest, NoRepeats, AheadOK,
       VersionsDiffer
<1>21. ASSUME NEW c \in Content, AgeBlob(c)
      PROVE  NamesApart' /\ AheadDiffers' /\ VersionsDiffer'
  <2>1. file' = file /\ task' = task
    BY <1>21 DEF AgeBlob
  <2>. QED
    BY <2>1 DEF NamesApart, AheadDiffers, OnName, Pending, Ahead, Latest, NoRepeats, AheadOK,
       VersionsDiffer
<1>. QED
  BY <1>1, <1>2, <1>3, <1>4, <1>5, <1>6, <1>7, <1>8, <1>9, <1>10, <1>11, <1>12, <1>13, <1>14,
     <1>15, <1>16, <1>17, <1>18, <1>19, <1>20, <1>21 DEF FilesNext

(* Two versions in a row of one file always differ, also when uploads,     *)
(* restores, imports and deletions of its name meet.                       *)
THEOREM NeighboursDiffer == FilesSpec => []VersionsDiffer
<1>1. NamesInv => VersionsDiffer
  BY DEF NamesInv
<1>. QED
  BY <1>1, NamesInit, NamesStep, PTL DEF FilesSpec

----------------------------------------------------------------------------
(* One request at a time has room reserved, and there is room for it: what *)
(* is counted, with its content, is within the quota.                      *)
Reserved(w) == task[w].op \in {"upload", "stage"} /\ task[w].pc \notin {"idle", "named"}

OneReserves == \A v, w \in FileTask : Reserved(v) /\ Reserved(w) => v = w

RoomIsLeft ==
    \A w \in FileTask :
        /\ Reserved(w) => Cardinality((Counted \cup {task[w].of}) \ unpaid) =< Quota
        /\ task[w].op \in {"upload", "stage"} => task[w].locked \subseteq {task[w].of}

QuotaInv == StoreInv /\ OneReserves /\ RoomIsLeft /\ QuotaKept

LEMMA FewerFit ==
  ASSUME IsFiniteSet(Content), NEW X, NEW Y, X \subseteq Y, Y \subseteq Content, Cardinality(Y) =< Quota
  PROVE  Cardinality(X) =< Quota
<1>1. IsFiniteSet(Y)
  BY FS_Subset
<1>2. Cardinality(X) =< Cardinality(Y) /\ IsFiniteSet(X)
  BY <1>1, FS_Subset
<1>3. Cardinality(X) \in Nat /\ Cardinality(Y) \in Nat
  BY <1>1, <1>2, FS_CardinalityType
<1>. QED
  BY <1>2, <1>3, FileStoreAssumption

(* A step that makes no content counted but the ones its request leaves    *)
(* unpaid keeps the quota, and the room of whoever has it reserved.        *)
LEMMA NothingMoreCounts ==
  ASSUME IsFiniteSet(Content), StoreInv, RoomIsLeft, QuotaKept,
         Counted' \ unpaid' \subseteq Counted \ unpaid, unpaid \subseteq unpaid'
  PROVE  /\ QuotaKept'
         /\ \A v \in FileTask : Reserved(v) =>
              Cardinality((Counted' \cup {task[v].of}) \ unpaid') =< Quota
<1>1. QuotaKept'
  BY FewerFit DEF QuotaKept, Counted
<1>2. ASSUME NEW v \in FileTask, Reserved(v)
      PROVE  Cardinality((Counted' \cup {task[v].of}) \ unpaid') =< Quota
  <2>1. task[v].of \in Content
    BY <1>2 DEF Reserved, StoreInv, KnowsItsContent, Works
  <2>2. (Counted \cup {task[v].of}) \ unpaid \subseteq Content
    BY <2>1 DEF Counted
  <2>3. Cardinality((Counted \cup {task[v].of}) \ unpaid) =< Quota
    BY <1>2 DEF RoomIsLeft
  <2>. QED
    BY <2>2, <2>3, FewerFit
<1>. QED
  BY <1>1, <1>2

(* A request that reserves nothing more disturbs nobody's room.            *)
LEMMA RestIsLeft ==
  ASSUME IsFiniteSet(Content), QuotaInv, NEW w \in FileTask,
         \A v \in FileTask \ {w} : task'[v] = task[v],
         Counted' \ unpaid' \subseteq Counted \ unpaid, unpaid \subseteq unpaid',
         ~Reserved(w)', task'[w].op \in {"upload", "stage"} => task'[w].locked = {}
  PROVE  OneReserves' /\ RoomIsLeft' /\ QuotaKept'
<1>1. \A v \in FileTask \ {w} : Reserved(v)' = Reserved(v)
  BY DEF Reserved
<1>2. OneReserves'
  BY <1>1 DEF OneReserves, QuotaInv
<1>3. /\ QuotaKept'
      /\ \A v \in FileTask : Reserved(v) => Cardinality((Counted' \cup {task[v].of}) \ unpaid') =< Quota
  BY NothingMoreCounts DEF QuotaInv
<1>4. RoomIsLeft'
  BY <1>1, <1>3 DEF RoomIsLeft, QuotaInv
<1>. QED
  BY <1>2, <1>3, <1>4

(* Room asked for while nobody else has any is there.                      *)
LEMMA RoomIsGiven ==
  ASSUME IsFiniteSet(Content), NEW c \in Content, QuotaKept, Admitted(c)
  PROVE  Cardinality((Counted \cup {c}) \ unpaid) =< Quota
<1>1. CASE c \in Counted
  <2>1. Counted \cup {c} = Counted
    BY <1>1
  <2>. QED
    BY <2>1 DEF QuotaKept
<1>2. CASE c \notin Counted
  <2>1. IsFiniteSet(Counted)
    BY FS_Subset DEF Counted
  <2>2. Cardinality(Counted \cup {c}) = Cardinality(Counted) + 1
    BY <1>2, <2>1, FS_AddElement
  <2>3. Counted \cup {c} \subseteq Content /\ (Counted \cup {c}) \ unpaid \subseteq Counted \cup {c}
    BY DEF Counted
  <2>. QED
    BY <1>2, <2>2, <2>3, FewerFit DEF Admitted
<1>. QED
  BY <1>1, <1>2

LEMMA QuotaInit == FilesInit => QuotaInv
<1> SUFFICES ASSUME FilesInit PROVE QuotaInv
  OBVIOUS
<1>1. StoreInv
  BY StoreInit
<1>2. OneReserves /\ RoomIsLeft
  BY DEF FilesInit, NoFileTask, OneReserves, RoomIsLeft, Reserved
<1>3. Counted \ unpaid = {}
  BY DEF FilesInit, Counted
<1>. QED
  BY <1>1, <1>2, <1>3, FS_EmptySet, FileStoreAssumption DEF QuotaInv, QuotaKept

LEMMA QuotaStep == IsFiniteSet(Content) /\ QuotaInv /\ [FilesNext]_fileVars => QuotaInv'
<1> SUFFICES ASSUME IsFiniteSet(Content), QuotaInv, [FilesNext]_fileVars
             PROVE  OneReserves' /\ RoomIsLeft' /\ QuotaKept'
  BY StoreStep DEF QuotaInv
<1> USE DEF QuotaInv
<1>0. FilesTypeOK /\ KnowsItsContent
  BY DEF StoreInv
<1>1. CASE UNCHANGED fileVars
  BY <1>1 DEF fileVars, OneReserves, RoomIsLeft, QuotaKept, Reserved, Counted
<1>2. ASSUME NEW w \in FileTask, NEW n \in FileName, NEW c \in Content, UploadBegin(w, n, c)
      PROVE  OneReserves' /\ RoomIsLeft' /\ QuotaKept'
  <2>1. Counted' = Counted /\ unpaid' = unpaid /\ \A v \in FileTask \ {w} : task'[v] = task[v]
    BY <1>2, <1>0 DEF UploadBegin, Counted, Begin, FilesTypeOK
  <2>2. ~Reserved(w)' /\ (task'[w].op \in {"upload", "stage"} => task'[w].locked = {})
    BY <1>2, <1>0 DEF UploadBegin, Begin, NoFileTask, FilesTypeOK, Reserved
  <2>. QED
    BY <2>1, <2>2, RestIsLeft
<1>3. ASSUME NEW w \in FileTask, NEW n \in FileName, NEW c \in Content, RestoreBegin(w, n, c)
      PROVE  OneReserves' /\ RoomIsLeft' /\ QuotaKept'
  <2>1. Counted' = Counted /\ unpaid' = unpaid /\ \A v \in FileTask \ {w} : task'[v] = task[v]
    BY <1>3, <1>0 DEF RestoreBegin, Counted, Begin, FilesTypeOK
  <2>2. ~Reserved(w)' /\ (task'[w].op \in {"upload", "stage"} => task'[w].locked = {})
    BY <1>3, <1>0 DEF RestoreBegin, Begin, NoFileTask, FilesTypeOK, Reserved
  <2>. QED
    BY <2>1, <2>2, RestIsLeft
<1>4. ASSUME NEW w \in FileTask, UploadQuota(w)
      PROVE  OneReserves' /\ RoomIsLeft' /\ QuotaKept'
  <2>1. Counted' = Counted /\ unpaid' = unpaid /\ \A v \in FileTask \ {w} : task'[v] = task[v]
    BY <1>4, <1>0 DEF UploadQuota, Counted, Advance, FilesTypeOK
  <2>2. Reserved(w)' /\ task'[w].of = task[w].of /\ task[w].of \in Content /\ task'[w].locked \subseteq {task'[w].of}
    <3>1. task' = [task EXCEPT ![w].pc = "quota"] /\ task[w].op = "upload"
      BY <1>4 DEF UploadQuota, Advance
    <3>2. task'[w].pc = "quota" /\ task'[w].op = "upload" /\ task'[w].of = task[w].of /\ task'[w].locked = task[w].locked
      BY <1>0, <3>1 DEF FilesTypeOK, FileRequest
    <3>. QED
      BY <1>0, <3>1, <3>2 DEF Reserved, KnowsItsContent, Works, RoomIsLeft
  <2>3. \A v \in FileTask \ {w} : ~Reserved(v)
    BY <1>4 DEF UploadQuota, QuotaFree, Reserved
  <2>4. Cardinality((Counted \cup {task[w].of}) \ unpaid) =< Quota
    BY <1>4, <2>2, RoomIsGiven DEF UploadQuota
  <2>5. Cardinality((Counted' \cup {task'[w].of}) \ unpaid') =< Quota
    BY <2>1, <2>2, <2>4
  <2>6. \A v \in FileTask \ {w} : ~Reserved(v)'
    BY <2>1, <2>3 DEF Reserved
  <2>7. OneReserves'
    BY <2>6 DEF OneReserves
  <2>8. RoomIsLeft'
    BY <2>1, <2>2, <2>5, <2>6 DEF RoomIsLeft
  <2>. QED
    BY <2>1, <2>7, <2>8 DEF QuotaKept
<1>5. ASSUME NEW w \in FileTask, Touch(w)
      PROVE  OneReserves' /\ RoomIsLeft' /\ QuotaKept'
  <2>1. Counted' = Counted /\ unpaid' = unpaid /\ \A v \in FileTask \ {w} : task'[v] = task[v]
    BY <1>5, <1>0 DEF Touch, Counted, FilesTypeOK
  <2>2. task'[w].op = task[w].op /\ task'[w].of = task[w].of
    BY <1>5, <1>0 DEF Touch, FilesTypeOK, FileRequest
  <2>3. task'[w].locked \subseteq task[w].locked \cup {task[w].of}
    BY <1>5, <1>0 DEF Touch, FilesTypeOK, FileRequest
  <2>4. Reserved(w)' => Reserved(w)
    BY <1>5, <2>2 DEF Touch, Reserved
  <2>5. OneReserves'
    BY <2>1, <2>2, <2>4 DEF OneReserves, Reserved
  <2>6. RoomIsLeft'
    BY <2>1, <2>2, <2>3, <2>4 DEF RoomIsLeft, Reserved
  <2>. QED
    BY <2>1, <2>5, <2>6 DEF QuotaKept
<1>6. ASSUME NEW w \in FileTask, Write(w)
      PROVE  OneReserves' /\ RoomIsLeft' /\ QuotaKept'
  <2>1. Counted' = Counted /\ unpaid' = unpaid /\ \A v \in FileTask \ {w} : task'[v] = task[v]
    BY <1>6, <1>0 DEF Write, Counted, FilesTypeOK
  <2>2. task'[w].op = task[w].op /\ task'[w].of = task[w].of
    BY <1>6, <1>0 DEF Write, FilesTypeOK, FileRequest
  <2>3. task'[w].locked \subseteq task[w].locked \cup {task[w].of}
    BY <1>6, <1>0 DEF Write, FilesTypeOK, FileRequest
  <2>4. Reserved(w)' => Reserved(w)
    BY <1>6, <2>2 DEF Write, Reserved
  <2>5. OneReserves'
    BY <2>1, <2>2, <2>4 DEF OneReserves, Reserved
  <2>6. RoomIsLeft'
    BY <2>1, <2>2, <2>3, <2>4 DEF RoomIsLeft, Reserved
  <2>. QED
    BY <2>1, <2>5, <2>6 DEF QuotaKept
<1>7. ASSUME NEW w \in FileTask, RestoreCheck(w)
      PROVE  OneReserves' /\ RoomIsLeft' /\ QuotaKept'
  <2>1. Counted' = Counted /\ unpaid' = unpaid /\ \A v \in FileTask \ {w} : task'[v] = task[v]
    BY <1>7, <1>0 DEF RestoreCheck, Counted, FilesTypeOK
  <2>2. task'[w].op \notin {"upload", "stage"}
    BY <1>7, <1>0 DEF RestoreCheck, FilesTypeOK, FileRequest
  <2>3. ~Reserved(w)'
    BY <2>2 DEF Reserved
  <2>. QED
    BY <2>1, <2>2, <2>3, RestIsLeft
<1>8. ASSUME NEW w \in FileTask, NEW n \in FileName, NEW S \in SUBSET Content, AttachBegin(w, n, S)
      PROVE  OneReserves' /\ RoomIsLeft' /\ QuotaKept'
  <2>1. Counted' = Counted /\ unpaid' = unpaid /\ \A v \in FileTask \ {w} : task'[v] = task[v]
    BY <1>8, <1>0 DEF AttachBegin, Counted, Begin, FilesTypeOK
  <2>2. ~Reserved(w)' /\ (task'[w].op \in {"upload", "stage"} => task'[w].locked = {})
    BY <1>8, <1>0 DEF AttachBegin, Begin, NoFileTask, FilesTypeOK, Reserved
  <2>. QED
    BY <2>1, <2>2, RestIsLeft
<1>9. ASSUME NEW w \in FileTask, NEW c \in Content, StageBegin(w, c)
      PROVE  OneReserves' /\ RoomIsLeft' /\ QuotaKept'
  <2>1. Counted' = Counted /\ unpaid' = unpaid /\ \A v \in FileTask \ {w} : task'[v] = task[v]
    BY <1>9, <1>0 DEF StageBegin, Counted, Begin, FilesTypeOK
  <2>2. Reserved(w)' /\ task'[w].of = c /\ c \in Content /\ task'[w].locked \subseteq {task'[w].of}
    BY <1>9, <1>0 DEF StageBegin, Begin, NoFileTask, FilesTypeOK, FileRequest, Reserved,
       KnowsItsContent, Works, RoomIsLeft
  <2>3. \A v \in FileTask \ {w} : ~Reserved(v)
    BY <1>9 DEF StageBegin, QuotaFree, Reserved
  <2>4. Cardinality((Counted \cup {c}) \ unpaid) =< Quota
    BY <1>9, <2>2, RoomIsGiven DEF StageBegin
  <2>5. Cardinality((Counted' \cup {task'[w].of}) \ unpaid') =< Quota
    BY <2>1, <2>2, <2>4
  <2>6. \A v \in FileTask \ {w} : ~Reserved(v)'
    BY <2>1, <2>3 DEF Reserved
  <2>7. OneReserves'
    BY <2>6 DEF OneReserves
  <2>8. RoomIsLeft'
    BY <2>1, <2>2, <2>5, <2>6 DEF RoomIsLeft
  <2>. QED
    BY <2>1, <2>7, <2>8 DEF QuotaKept
<1>10. ASSUME NEW w \in FileTask, NEW c \in Content, AttachNext(w, c)
      PROVE  OneReserves' /\ RoomIsLeft' /\ QuotaKept'
  <2>1. Counted' = Counted /\ unpaid' = unpaid /\ \A v \in FileTask \ {w} : task'[v] = task[v]
    BY <1>10, <1>0 DEF AttachNext, Counted, FilesTypeOK
  <2>2. task'[w].op \notin {"upload", "stage"}
    BY <1>10, <1>0, AttachGoes
  <2>3. ~Reserved(w)'
    BY <2>2 DEF Reserved
  <2>. QED
    BY <2>1, <2>2, <2>3, RestIsLeft
<1>11. ASSUME NEW w \in FileTask, AttachCheck(w)
      PROVE  OneReserves' /\ RoomIsLeft' /\ QuotaKept'
  <2>1. Counted' = Counted /\ unpaid' = unpaid /\ \A v \in FileTask \ {w} : task'[v] = task[v]
    BY <1>11, <1>0 DEF AttachCheck, Counted, FilesTypeOK
  <2>2. task'[w].op \notin {"upload", "stage"}
    BY <1>11, <1>0 DEF AttachCheck, FilesTypeOK, FileRequest
  <2>3. ~Reserved(w)'
    BY <2>2 DEF Reserved
  <2>. QED
    BY <2>1, <2>2, <2>3, RestIsLeft
<1>12. ASSUME NEW w \in FileTask, CommitVersion(w)
      PROVE  OneReserves' /\ RoomIsLeft' /\ QuotaKept'
  <2>1. task'[w] = NoFileTask /\ Counted' = Counted \cup task[w].locked /\ \A v \in FileTask \ {w} : task'[v] = task[v]
    BY <1>12, <1>0 DEF CommitVersion, EndTask, Counted, TouchedRows, FilesTypeOK, FileRequest
  <2>2. ~Reserved(w)' /\ (task'[w].op \in {"upload", "stage"} => task'[w].locked = {})
    BY <2>1 DEF NoFileTask, Reserved
  <2>3. CASE task[w].op \in {"upload", "stage"}
    <3>1. Reserved(w) /\ unpaid' = unpaid
      BY <1>12, <2>3 DEF CommitVersion, Reserved
    <3>2. \A v \in FileTask \ {w} : ~Reserved(v)'
      BY <2>1, <3>1 DEF OneReserves, Reserved
    <3>3. task[w].of \in Content /\ (Counted \cup {task[w].of}) \ unpaid \subseteq Content
      BY <1>0, <3>1 DEF KnowsItsContent, Works, Reserved, Counted
    <3>4. Counted' \ unpaid' \subseteq (Counted \cup {task[w].of}) \ unpaid
      BY <2>1, <2>3, <3>1 DEF RoomIsLeft
    <3>5. QuotaKept'
      BY <3>1, <3>3, <3>4, FewerFit DEF RoomIsLeft, QuotaKept
    <3>6. OneReserves' /\ RoomIsLeft'
      BY <2>1, <2>2, <3>2 DEF OneReserves, RoomIsLeft
    <3>. QED
      BY <3>5, <3>6
  <2>4. CASE task[w].op \notin {"upload", "stage"}
    <3>1. unpaid' = unpaid \cup (task[w].locked \ Counted)
      BY <1>12, <1>0, <2>4 DEF CommitVersion, Unasked, Counted, FilesTypeOK, FileRequest
    <3>2. Counted' \ unpaid' \subseteq Counted \ unpaid /\ unpaid \subseteq unpaid'
      BY <2>1, <3>1
    <3>. QED
      BY <2>1, <2>2, <3>2, RestIsLeft
  <2>. QED
    BY <2>3, <2>4
<1>13. ASSUME NEW w \in FileTask, CommitStage(w)
      PROVE  OneReserves' /\ RoomIsLeft' /\ QuotaKept'
  <2>1. task'[w] = NoFileTask /\ Counted' = Counted \cup task[w].locked /\ \A v \in FileTask \ {w} : task'[v] = task[v]
    BY <1>13, <1>0 DEF CommitStage, EndTask, Counted, TouchedRows, FilesTypeOK, FileRequest
  <2>2. ~Reserved(w)' /\ (task'[w].op \in {"upload", "stage"} => task'[w].locked = {})
    BY <2>1 DEF NoFileTask, Reserved
  <2>3. CASE task[w].op \in {"upload", "stage"}
    <3>1. Reserved(w) /\ unpaid' = unpaid
      BY <1>13, <2>3 DEF CommitStage, Reserved
    <3>2. \A v \in FileTask \ {w} : ~Reserved(v)'
      BY <2>1, <3>1 DEF OneReserves, Reserved
    <3>3. task[w].of \in Content /\ (Counted \cup {task[w].of}) \ unpaid \subseteq Content
      BY <1>0, <3>1 DEF KnowsItsContent, Works, Reserved, Counted
    <3>4. Counted' \ unpaid' \subseteq (Counted \cup {task[w].of}) \ unpaid
      BY <2>1, <2>3, <3>1 DEF RoomIsLeft
    <3>5. QuotaKept'
      BY <3>1, <3>3, <3>4, FewerFit DEF RoomIsLeft, QuotaKept
    <3>6. OneReserves' /\ RoomIsLeft'
      BY <2>1, <2>2, <3>2 DEF OneReserves, RoomIsLeft
    <3>. QED
      BY <3>5, <3>6
  <2>. QED
    BY <1>13, <2>3 DEF CommitStage
<1>14. ASSUME NEW w \in FileTask, AbortFile(w)
      PROVE  OneReserves' /\ RoomIsLeft' /\ QuotaKept'
  <2>1. Counted' = Counted /\ unpaid' = unpaid /\ \A v \in FileTask \ {w} : task'[v] = task[v]
    BY <1>14, <1>0 DEF AbortFile, Counted, EndTask, FilesTypeOK
  <2>2. ~Reserved(w)' /\ (task'[w].op \in {"upload", "stage"} => task'[w].locked = {})
    BY <1>14, <1>0 DEF AbortFile, EndTask, NoFileTask, FilesTypeOK, Reserved
  <2>. QED
    BY <2>1, <2>2, RestIsLeft
<1>15. ASSUME NEW w \in FileTask, NEW c \in Content, SweepLock(w, c)
      PROVE  OneReserves' /\ RoomIsLeft' /\ QuotaKept'
  <2>1. Counted' = Counted /\ unpaid' = unpaid /\ \A v \in FileTask \ {w} : task'[v] = task[v]
    BY <1>15, <1>0 DEF SweepLock, Counted, Begin, FilesTypeOK
  <2>2. ~Reserved(w)' /\ (task'[w].op \in {"upload", "stage"} => task'[w].locked = {})
    BY <1>15, <1>0 DEF SweepLock, Begin, NoFileTask, FilesTypeOK, Reserved
  <2>. QED
    BY <2>1, <2>2, RestIsLeft
<1>16. ASSUME NEW w \in FileTask, NEW c \in Content, OrphanClaim(w, c)
      PROVE  OneReserves' /\ RoomIsLeft' /\ QuotaKept'
  <2>1. Counted' = Counted /\ unpaid' = unpaid /\ \A v \in FileTask \ {w} : task'[v] = task[v]
    BY <1>16, <1>0 DEF OrphanClaim, Counted, Begin, FilesTypeOK
  <2>2. ~Reserved(w)' /\ (task'[w].op \in {"upload", "stage"} => task'[w].locked = {})
    BY <1>16, <1>0 DEF OrphanClaim, Begin, NoFileTask, FilesTypeOK, Reserved
  <2>. QED
    BY <2>1, <2>2, RestIsLeft
<1>17. ASSUME NEW w \in FileTask, RemoveBytes(w)
      PROVE  OneReserves' /\ RoomIsLeft' /\ QuotaKept'
  <2>1. Counted' = Counted /\ unpaid' = unpaid /\ \A v \in FileTask \ {w} : task'[v] = task[v]
    BY <1>17, <1>0 DEF RemoveBytes, Counted, Advance, FilesTypeOK
  <2>2. task'[w].op \notin {"upload", "stage"}
    BY <1>17, <1>0 DEF RemoveBytes, Advance, FilesTypeOK, FileRequest
  <2>3. ~Reserved(w)'
    BY <2>2 DEF Reserved
  <2>. QED
    BY <2>1, <2>2, <2>3, RestIsLeft
<1>18. ASSUME NEW w \in FileTask, RemoveRow(w)
      PROVE  OneReserves' /\ RoomIsLeft' /\ QuotaKept'
  <2>1. Counted' \subseteq Counted /\ unpaid' = unpaid /\ task'[w] = NoFileTask /\ \A v \in FileTask \ {w} : task'[v] = task[v]
    BY <1>18, <1>0 DEF RemoveRow, EndTask, Counted, FilesTypeOK
  <2>2. ~Reserved(w)' /\ (task'[w].op \in {"upload", "stage"} => task'[w].locked = {})
    BY <2>1 DEF NoFileTask, Reserved
  <2>. QED
    BY <2>1, <2>2, RestIsLeft
<1>19. ASSUME NEW n \in FileName, DeleteFile(n)
      PROVE  OneReserves' /\ RoomIsLeft' /\ QuotaKept'
  <2>1. Counted' = Counted /\ unpaid' = unpaid /\ task' = task
    BY <1>19, <1>0 DEF DeleteFile, Counted, FilesTypeOK
  <2>. QED
    BY <2>1 DEF OneReserves, RoomIsLeft, QuotaKept, Reserved
<1>20. ASSUME NEW S \in SUBSET Content, DropStaged(S)
      PROVE  OneReserves' /\ RoomIsLeft' /\ QuotaKept'
  <2>1. Counted' = Counted /\ unpaid' = unpaid /\ task' = task
    BY <1>20, <1>0 DEF DropStaged, Counted, FilesTypeOK
  <2>. QED
    BY <2>1 DEF OneReserves, RoomIsLeft, QuotaKept, Reserved
<1>21. ASSUME NEW c \in Content, AgeBlob(c)
      PROVE  OneReserves' /\ RoomIsLeft' /\ QuotaKept'
  <2>1. Counted' = Counted /\ unpaid' = unpaid /\ task' = task
    BY <1>21, <1>0 DEF AgeBlob, Counted, FilesTypeOK
  <2>. QED
    BY <2>1 DEF OneReserves, RoomIsLeft, QuotaKept, Reserved
<1>. QED
  BY <1>1, <1>2, <1>3, <1>4, <1>5, <1>6, <1>7, <1>8, <1>9, <1>10, <1>11, <1>12, <1>13, <1>14,
     <1>15, <1>16, <1>17, <1>18, <1>19, <1>20, <1>21 DEF FilesNext

(* Uploads and imports side by side never take the workspace over its      *)
(* quota, but for the contents an attachment counts without asking.        *)
THEOREM QuotaHolds ==
  ASSUME IsFiniteSet(Content)
  PROVE  FilesSpec => []QuotaKept
<1>1. FilesInit => QuotaInv
  BY QuotaInit
<1>2. QuotaInv /\ [FilesNext]_fileVars => QuotaInv'
  BY QuotaStep
<1>3. QuotaInv => QuotaKept
  BY DEF QuotaInv
<1>. QED
  BY <1>1, <1>2, <1>3, PTL DEF FilesSpec

=============================================================================
