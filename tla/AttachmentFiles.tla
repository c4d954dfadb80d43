---------------------------- MODULE AttachmentFiles ----------------------------
(***************************************************************************)
(* The encrypted attachments (vault/protected.py, AttachmentStore): each is a *)
(* file of ciphertext and a file of metadata with the digest of the first,    *)
(* written and removed one after the other under the lock of the directory.   *)
(* The process may die, a write may fail before or after its file is in place, *)
(* and so may the removal that follows.                                      *)
(***************************************************************************)
EXTENDS Integers

CONSTANTS
  Attachments,   \* ids, each drawn once
  LastFileDay,   \* bound of the days that pass
  NoFile, Corrupt

ASSUME FileDays == LastFileDay \in Nat
ASSUME CorruptIsNoFile ==
  /\ NoFile \notin Attachments \cup Nat
  /\ Corrupt \notin Attachments \cup Nat \cup {NoFile}

VARIABLES
  ciphertext,  \* the first file: whose bytes it holds, or NoFile
  metadata,    \* the second: the first day the attachment is over, or as above
  filer,       \* the operation that has the lock of the directory
  fileDay,
  cleaning,    \* adds that failed and have not removed their files yet
  drawnFiles,  \* history: ids drawn
  kept,        \* history: ids whose add returned, with what it promised
  served,      \* history: reads that returned
  leftover,    \* history: ids of which a crash or a removal that failed left a file
  halved       \* history: ids whose purge ended between its two removals

attachmentVars == <<ciphertext, metadata, filer, fileDay, cleaning, drawnFiles, kept,
                    served, leftover, halved>>

FileDay == 0 .. LastFileDay
NoFiler == [at |-> "idle", file |-> NoFile, expiry |-> NoFile]

AttachmentsTypeOK ==
  /\ ciphertext \in [Attachments -> Attachments \cup {Corrupt, NoFile}]
  /\ metadata \in [Attachments -> FileDay \cup {Corrupt, NoFile}]
  /\ filer \in [at : {"idle", "adding", "sealed", "stored", "purging"},
                file : Attachments \cup {NoFile}, expiry : FileDay \cup {NoFile}]
  /\ fileDay \in FileDay
  /\ cleaning \cup leftover \cup halved \subseteq drawnFiles /\ drawnFiles \subseteq Attachments
  /\ kept \subseteq [file : Attachments, expiry : FileDay]
  /\ served \subseteq [file : Attachments, bytes : Attachments, day : FileDay]

AttachmentsInit ==
  /\ ciphertext = [f \in Attachments |-> NoFile] /\ metadata = ciphertext
  /\ filer = NoFiler /\ fileDay = 0
  /\ cleaning = {} /\ drawnFiles = {} /\ kept = {} /\ served = {} /\ leftover = {}
  /\ halved = {}

Over(expiry) == expiry <= fileDay

\* A file is put in place, or another one in the place of the old, in one step.
Put(files, f, bytes) == [files EXCEPT ![f] = bytes]

\* The fields are what they must be, and the seal is not broken.
MetadataValid(m) == m \in FileDay

\* What a read or a purge goes by is the metadata file and nothing else.
Trusted(f) == metadata[f] # NoFile /\ MetadataValid(metadata[f])

FileDayPasses ==
  /\ fileDay < LastFileDay
  /\ fileDay' = fileDay + 1
  /\ UNCHANGED <<ciphertext, metadata, filer, cleaning, drawnFiles, kept, served, leftover, halved>>

\* Another program, or the disk.
Spoil(f) ==
  /\ ciphertext[f] \notin {Corrupt, NoFile}
  /\ ciphertext' = Put(ciphertext, f, Corrupt)
  /\ UNCHANGED <<metadata, filer, fileDay, cleaning, drawnFiles, kept, served, leftover, halved>>

SpoilMetadata(f) ==
  /\ metadata[f] \in FileDay
  /\ metadata' = Put(metadata, f, Corrupt)
  /\ UNCHANGED <<ciphertext, filer, fileDay, cleaning, drawnFiles, kept, served, leftover, halved>>

-----------------------------------------------------------------------------
(* Add *)

\* The earlier of the expiry and the end of the retention.
AddAttachment(f, expiry) ==
  /\ filer.at = "idle" /\ f \notin drawnFiles
  /\ drawnFiles' = drawnFiles \cup {f}
  /\ filer' = [at |-> "adding", file |-> f, expiry |-> expiry]
  /\ UNCHANGED <<ciphertext, metadata, fileDay, cleaning, kept, served, leftover, halved>>

SealContent ==
  /\ filer.at = "adding"
  /\ ciphertext' = Put(ciphertext, filer.file, filer.file)
  /\ filer' = [filer EXCEPT !.at = "sealed"]
  /\ UNCHANGED <<metadata, fileDay, cleaning, drawnFiles, kept, served, leftover, halved>>

SealMetadata ==
  /\ filer.at = "sealed"
  /\ metadata' = Put(metadata, filer.file, filer.expiry)
  /\ filer' = [filer EXCEPT !.at = "stored"]
  /\ UNCHANGED <<ciphertext, fileDay, cleaning, drawnFiles, kept, served, leftover, halved>>

AnswerAdd ==
  /\ filer.at = "stored"
  /\ kept' = kept \cup {[file |-> filer.file, expiry |-> filer.expiry]}
  /\ filer' = NoFiler
  /\ UNCHANGED <<ciphertext, metadata, fileDay, cleaning, drawnFiles, served, leftover, halved>>

\* The lock is let go before the files are removed.
AddFails ==
  /\ filer.at \in {"adding", "sealed", "stored"}
  /\ cleaning' = cleaning \cup {filer.file}
  /\ filer' = NoFiler
  /\ UNCHANGED <<ciphertext, metadata, fileDay, drawnFiles, kept, served, leftover, halved>>

\* Each removal may fail without a word, and the process may die before it.
RemoveFiles(f, first, second) ==
  /\ f \in cleaning
  /\ cleaning' = cleaning \ {f}
  /\ ciphertext' = IF first THEN [ciphertext EXCEPT ![f] = NoFile] ELSE ciphertext
  /\ metadata' = IF second THEN [metadata EXCEPT ![f] = NoFile] ELSE metadata
  /\ leftover' = IF first /\ second THEN leftover ELSE leftover \cup {f}
  /\ UNCHANGED <<filer, fileDay, drawnFiles, kept, served, halved>>

\* The process dies, or the second removal of a purge fails.
FilerDies ==
  /\ filer.at # "idle"
  /\ halved' = IF filer.at = "purging" THEN halved \cup {filer.file} ELSE halved
  /\ leftover' = leftover \cup ({filer.file} \ {k.file : k \in kept})
  /\ filer' = NoFiler
  /\ UNCHANGED <<ciphertext, metadata, fileDay, cleaning, drawnFiles, kept, served>>

-----------------------------------------------------------------------------
(* Read and purge *)

ReadAttachment(f) ==
  /\ filer.at = "idle" /\ Trusted(f)
  /\ ~Over(metadata[f])
  /\ ciphertext[f] = f
  /\ served' = served \cup {[file |-> f, bytes |-> ciphertext[f], day |-> fileDay]}
  /\ UNCHANGED <<ciphertext, metadata, filer, fileDay, cleaning, drawnFiles, kept, leftover, halved>>

\* Variant: the metadata goes first.
PurgeMetadataFirst(f) ==
  /\ filer.at = "idle" /\ Trusted(f)
  /\ Over(metadata[f])
  /\ metadata' = [metadata EXCEPT ![f] = NoFile]
  /\ filer' = [NoFiler EXCEPT !.at = "purging", !.file = f]
  /\ UNCHANGED <<ciphertext, fileDay, cleaning, drawnFiles, kept, served, leftover, halved>>

\* The content goes first.  Both files must be there: metadata whose content a
\* purge has removed is purged no more.
PurgeContent(f) ==
  /\ filer.at = "idle" /\ Trusted(f)
  /\ Over(metadata[f])
  /\ ciphertext[f] # NoFile
  /\ ciphertext' = [ciphertext EXCEPT ![f] = NoFile]
  /\ filer' = [NoFiler EXCEPT !.at = "purging", !.file = f]
  /\ UNCHANGED <<metadata, fileDay, cleaning, drawnFiles, kept, served, leftover, halved>>

PurgeRest ==
  /\ filer.at = "purging"
  /\ ciphertext' = [ciphertext EXCEPT ![filer.file] = NoFile]
  /\ metadata' = [metadata EXCEPT ![filer.file] = NoFile]
  /\ filer' = NoFiler
  /\ UNCHANGED <<fileDay, cleaning, drawnFiles, kept, served, leftover, halved>>

-----------------------------------------------------------------------------
AttachmentsNext ==
  \/ FileDayPasses \/ SealContent \/ SealMetadata \/ AnswerAdd \/ AddFails
  \/ FilerDies \/ PurgeRest
  \/ \E f \in Attachments :
       \/ Spoil(f) \/ SpoilMetadata(f) \/ ReadAttachment(f) \/ PurgeContent(f)
       \/ \E expiry \in 1 .. LastFileDay : AddAttachment(f, expiry)
       \/ \E first, second \in BOOLEAN : RemoveFiles(f, first, second)

AttachmentsSpec == AttachmentsInit /\ [][AttachmentsNext]_attachmentVars

-----------------------------------------------------------------------------
(* Properties *)

Settled(f) == f \notin leftover \cup cleaning /\ filer.file # f

\* Through failures and crashes an attachment whose add returned stays until it
\* is over, and then goes as a whole: no file is left without the other, but
\* for what an add that failed or died left behind and for the metadata, never
\* the content, of a purge that ended halfway.  A read returns its own bytes, and
\* none after the expiry.
AttachmentsWhole ==
  /\ \A k \in kept :
       Settled(k.file) /\ ~Over(k.expiry) =>
         ciphertext[k.file] # NoFile /\ metadata[k.file] \in {k.expiry, Corrupt}
  /\ \A f \in Attachments : Settled(f) =>
       /\ ciphertext[f] # NoFile => metadata[f] # NoFile
       /\ metadata[f] # NoFile => ciphertext[f] # NoFile \/ f \in halved
  /\ \A f \in halved : ciphertext[f] = NoFile
  /\ \A s \in served : s.bytes = s.file /\ \A k \in kept : k.file = s.file => s.day < k.expiry

=============================================================================
