------------------------------- MODULE Uploads -------------------------------
(***************************************************************************)
(* UploadsService (modules/uploads/uploads.service.ts) and the inspection  *)
(* of modules/uploads/file-security.ts: a photo is counted, inspected,     *)
(* written to the disk and only then given a row. The disk of the hosting  *)
(* may be wiped by a redeployment. lookupRecipient of the wallet is        *)
(* counted the same way, under keys of its own.                            *)
(***************************************************************************)
EXTENDS RateLimit

CONSTANTS None,    \* no row, nothing there
          Owners,  \* users who upload
          Photos,  \* the files they send
          Calls,   \* slots for accept calls running at once
          Ids      \* uploaded_files rows that may be made; each with its storedName

Formats == {"jpeg", "png", "webp"}
ExtensionsOf == [jpeg |-> {".jpg", ".jpeg"}, png |-> {".png"}, webp |-> {".webp"}]
MimeTypeOf == [jpeg |-> "image/jpeg", png |-> "image/png", webp |-> "image/webp"]

\* A file as it is received: its size, the extension of its name, the type it
\* declares and what its first bytes are: a format, a known hostile head, or
\* anything else.
Sizes == {"small", "usable", "large"}
Heads == Formats \cup {"hostile", "other"}
Extensions == UNION {ExtensionsOf[f]: f \in Formats} \cup {".php", ""}
MimeTypes == {MimeTypeOf[f]: f \in Formats} \cup {"text/html"}
ReceivedFile == [size: Sizes, extension: Extensions, declared: MimeTypes, head: Heads]

Row == [ownerId: Owners, content: Photos]

ASSUME UploadsAssumption ==
  /\ Photos \subseteq ReceivedFile
  /\ None \notin Photos \cup Owners \cup Row
  /\ Keys = Owners

VARIABLES disk,    \* storedName -> the content written there, or None
          rows,    \* id -> its row, or None
          calls,   \* slot -> the accept call in it
          audits,  \* ids with an upload.accepted audit row
          died     \* owners one of whose calls died after writing to the disk

uploadVars == <<disk, rows, calls, audits, died>>
vars == <<rateVars, uploadVars>>

Idle == [at |-> "idle"]

UploadsInit ==
  /\ RateInit
  /\ disk = [i \in Ids |-> None]
  /\ rows = [i \in Ids |-> None]
  /\ calls = [c \in Calls |-> Idle]
  /\ audits = {}
  /\ died = {}

-----------------------------------------------------------------------------
(* inspectUpload: the checks in their order, each a condition to go on. *)

Bounded(f) == f.size = "usable"
Announced(f) ==
  /\ \E x \in Formats: f.extension \in ExtensionsOf[x]
  /\ \E x \in Formats: f.declared = MimeTypeOf[x]
NotHostile(f) == f.head # "hostile"
Truthful(f) ==
  /\ f.head \in Formats
  /\ f.extension \in ExtensionsOf[f.head]
  /\ f.declared = MimeTypeOf[f.head]

\* Mutant of Inspect: what the file says of itself is believed.
InspectAnnounced(f) == Bounded(f) /\ Announced(f) /\ NotHostile(f)

Inspect(f) == Bounded(f) /\ Announced(f) /\ NotHostile(f) /\ Truthful(f)

-----------------------------------------------------------------------------
(* accept *)

\* The call is counted first; a refused one ends here.
CountUpload(c, owner, f, heard) ==
  /\ calls[c] = Idle
  /\ Consume(owner, heard)
  /\ calls' = IF heard /\ Allowed(owner)
              THEN [calls EXCEPT ![c] = [at |-> "counted", owner |-> owner, content |-> f, id |-> None]]
              ELSE calls
  /\ UNCHANGED <<disk, rows, audits, died>>

\* Mutant of WriteFile: the row before the content.
WriteRowFirst(c) ==
  /\ calls[c].at = "counted"
  /\ IF Inspect(calls[c].content)
     THEN \E i \in Ids:
            /\ rows[i] = None /\ disk[i] = None /\ \A d \in Calls: calls[d] # Idle => calls[d].id # i
            /\ rows' = [rows EXCEPT ![i] = [ownerId |-> calls[c].owner, content |-> calls[c].content]]
            /\ calls' = [calls EXCEPT ![c].at = "written", ![c].id = i]
     ELSE calls' = [calls EXCEPT ![c] = Idle] /\ UNCHANGED rows
  /\ UNCHANGED <<rateVars, disk, audits, died>>

\* Mutant of WriteFile: the content is written before it is inspected.
WriteUninspected(c) ==
  /\ calls[c].at = "counted"
  /\ \E i \in Ids:
       /\ rows[i] = None /\ disk[i] = None /\ \A d \in Calls: calls[d] # Idle => calls[d].id # i
       /\ disk' = [disk EXCEPT ![i] = calls[c].content]
       /\ calls' = [calls EXCEPT ![c] = IF Inspect(calls[c].content)
                                        THEN [@ EXCEPT !.at = "written", !.id = i] ELSE Idle]
  /\ UNCHANGED <<rateVars, rows, audits, died>>

\* The file is inspected, and written under a name made here (randomUUID, so a
\* name nothing has).
WriteFile(c) ==
  /\ calls[c].at = "counted"
  /\ IF Inspect(calls[c].content)
     THEN \E i \in Ids:
            /\ rows[i] = None /\ disk[i] = None /\ \A d \in Calls: calls[d] # Idle => calls[d].id # i
            /\ disk' = [disk EXCEPT ![i] = calls[c].content]
            /\ calls' = [calls EXCEPT ![c].at = "written", ![c].id = i]
     ELSE calls' = [calls EXCEPT ![c] = Idle] /\ UNCHANGED disk
  /\ UNCHANGED <<rateVars, rows, audits, died>>

\* The row keeps the owner and the fingerprint of what was accepted.
SaveRow(c) ==
  /\ calls[c].at = "written"
  /\ rows' = [rows EXCEPT ![calls[c].id] = [ownerId |-> calls[c].owner, content |-> calls[c].content]]
  /\ calls' = [calls EXCEPT ![c].at = "saved"]
  /\ UNCHANGED <<rateVars, disk, audits, died>>

AuditUpload(c) ==
  /\ calls[c].at = "saved"
  /\ audits' = audits \cup {calls[c].id}
  /\ calls' = [calls EXCEPT ![c] = Idle]
  /\ UNCHANGED <<rateVars, disk, rows, died>>

\* The process dies, or a write fails, between two awaits.
Die(c) ==
  /\ calls[c] # Idle
  /\ died' = IF calls[c].at = "counted" THEN died ELSE died \cup {calls[c].owner}
  /\ calls' = [calls EXCEPT ![c] = Idle]
  /\ UNCHANGED <<rateVars, disk, rows, audits>>

\* UPLOAD_DIR is a local disk that a redeployment empties; the calls die with
\* the process.
Redeploy ==
  /\ \E i \in Ids: disk[i] # None
  /\ disk' = [i \in Ids |-> None]
  /\ died' = died \cup {calls[c].owner: c \in {d \in Calls: calls[d] # Idle}}
  /\ calls' = [c \in Calls |-> Idle]
  /\ UNCHANGED <<rateVars, rows, audits>>

Init == UploadsInit

Next ==
  \/ Tick /\ UNCHANGED uploadVars
  \/ \E c \in Calls:
       \/ \E o \in Owners, f \in Photos, heard \in BOOLEAN: CountUpload(c, o, f, heard)
       \/ WriteFile(c) \/ SaveRow(c) \/ AuditUpload(c) \/ Die(c)
  \/ Redeploy

Spec == Init /\ [][Next]_vars

-----------------------------------------------------------------------------
UploadsTypeOK ==
  /\ counters \in [Keys -> [count: Nat, expiresAt: Nat]]
  /\ disk \in [Ids -> Photos \cup {None}]
  /\ rows \in [Ids -> Row \cup {None}]
  /\ calls \in [Calls -> {Idle} \cup [at: {"counted", "written", "saved"}, owner: Owners,
                                      content: Photos, id: Ids \cup {None}]]
  /\ audits \subseteq Ids /\ died \subseteq Owners

\* What is kept is what was announced and inspected, under every interleaving:
\* a row, and whatever is on the disk, is a photo of one format, named and
\* declared as that format, in the bounds ("nothing refused touches the disk").
OnlyPhotosKept ==
  \A f \in {disk[i]: i \in Ids} \cup {rows[i].content: i \in {j \in Ids: rows[j] # None}}:
    f # None => /\ f.size = "usable"
                /\ \E x \in Formats: /\ f.head = x /\ f.declared = MimeTypeOf[x]
                                     /\ f.extension \in ExtensionsOf[x]

\* A row's content was on the disk before the row was, and stays what was
\* accepted: reading a file gives that content or, after a redeployment, the
\* answer that it is gone.
ReadsGiveWhatWasAccepted ==
  [][\A i \in Ids:
       /\ rows[i] = None /\ rows'[i] # None => disk'[i] = rows'[i].content
       /\ rows[i] # None => rows'[i] = rows[i] /\ disk'[i] \in {disk[i], None}]_vars

\* Content on the disk without a row belongs to a call that is about to make
\* the row, or is left by one that died: nothing else litters the disk.
DiskIsAccountedFor ==
  \A i \in Ids: disk[i] # None /\ rows[i] = None =>
    \/ \E c \in Calls: calls[c].at = "written" /\ calls[c].id = i
    \/ died # {}

\* The two together, on rows of the right types.
UploadsInv == UploadsTypeOK /\ OnlyPhotosKept /\ DiskIsAccountedFor
=============================================================================
