-------------------------------- MODULE LFS --------------------------------
(***************************************************************************)
(* Large files (internal/lfs/store.go, which no server uses yet).  An      *)
(* upload goes to a temporary file, is checked against the object's name   *)
(* and renamed, all under the lock; which objects there are is in memory   *)
(* only, and forgotten when the process ends.                              *)
(***************************************************************************)
EXTENDS Integers, FiniteSets

CONSTANTS
  OID,         \* names of objects, each the hash of one content
  MaxUploads,  \* bound: uploads
  MaxFaults    \* bound: uploads cut short, crashes

VARIABLES
  tmp,         \* tmp[o]: the content of the temporary file: "none", "part", an OID
  final,       \* final[o]: the content of the file of o: "none" or an OID
  objects,     \* the objects the store knows of
  upload,      \* the upload that holds the lock: [oid, content, stage]
  uploads, faults

lfsVars == <<tmp, final, objects, upload, uploads, faults>>

Nobody == [oid |-> "none", content |-> "none", stage |-> "none"]

LFSInit ==
  /\ tmp = [o \in OID |-> "none"] /\ final = [o \in OID |-> "none"]
  /\ objects = {} /\ upload = Nobody /\ uploads = 0 /\ faults = 0

Fails == faults < MaxFaults /\ faults' = faults + 1

\* Upload of an object that is not there yet, with whatever content the client sends.
Upload(o, content) ==
  /\ upload = Nobody /\ o \notin objects /\ uploads < MaxUploads /\ uploads' = uploads + 1
  /\ tmp' = [tmp EXCEPT ![o] = "part"]
  /\ upload' = [oid |-> o, content |-> content, stage |-> "copy"]
  /\ UNCHANGED <<final, objects, faults>>

\* The content has come in ...
Copy ==
  /\ upload.stage = "copy"
  /\ tmp' = [tmp EXCEPT ![upload.oid] = upload.content]
  /\ upload' = [upload EXCEPT !.stage = "verify"]
  /\ UNCHANGED <<final, objects, uploads, faults>>

\* Mutant of Verify: the file is in place before its hash is looked at.
VerifyAfter ==
  /\ upload.stage = "verify"
  /\ tmp' = [tmp EXCEPT ![upload.oid] = "none"]
  /\ final' = [final EXCEPT ![upload.oid] = upload.content]
  /\ upload' = IF upload.content = upload.oid THEN [upload EXCEPT !.stage = "enter"] ELSE Nobody
  /\ UNCHANGED <<objects, uploads, faults>>

\* ... and is renamed if its hash is the name.
Verify ==
  /\ upload.stage = "verify"
  /\ tmp' = [tmp EXCEPT ![upload.oid] = "none"]
  /\ IF upload.content = upload.oid
     THEN /\ final' = [final EXCEPT ![upload.oid] = upload.content]
          /\ upload' = [upload EXCEPT !.stage = "enter"]
     ELSE final' = final /\ upload' = Nobody
  /\ UNCHANGED <<objects, uploads, faults>>

Enter ==
  /\ upload.stage = "enter"
  /\ objects' = objects \cup {upload.oid}
  /\ upload' = Nobody
  /\ UNCHANGED <<tmp, final, uploads, faults>>

\* The content stops coming, or a file cannot be written or renamed.
UploadFails ==
  /\ upload.stage \in {"copy", "verify"} /\ Fails
  /\ tmp' = [tmp EXCEPT ![upload.oid] = "none"]
  /\ upload' = Nobody
  /\ UNCHANGED <<final, objects, uploads>>

\* Delete.
Delete(o) ==
  /\ upload = Nobody /\ o \in objects
  /\ final' = [final EXCEPT ![o] = "none"]
  /\ objects' = objects \ {o}
  /\ UNCHANGED <<tmp, upload, uploads, faults>>

Crash ==
  /\ Fails
  /\ objects' = {} /\ upload' = Nobody
  /\ UNCHANGED <<tmp, final, uploads>>

LFSNext ==
  \/ Copy \/ Verify \/ Enter \/ UploadFails \/ Crash
  \/ \E o \in OID : Delete(o) \/ \E content \in OID \cup {"other"} : Upload(o, content)

LFSSpec == LFSInit /\ [][LFSNext]_lfsVars
-----------------------------------------------------------------------------
\* What Download opens.
Download(o) == IF o \in objects THEN final[o] ELSE "none"

\* Whatever can be downloaded is the content its name stands for, and a file under
\* such a name never holds anything else, through uploads of the wrong content,
\* uploads cut short, deletions and crashes.
NamesTrue == \A o \in OID : final[o] \in {"none", o} /\ (o \in objects => Download(o) = o)
=============================================================================
