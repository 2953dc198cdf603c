-------------------------------- MODULE Media ---------------------------------
(***************************************************************************)
(* Images (media/media.service.ts, media.controller.ts, s3.service.ts):    *)
(* an upload of several files at once, each scaled and stored by itself,   *)
(* and the resizing of a stored image, streamed from the bucket through    *)
(* sharp and back.                                                         *)
(*                                                                         *)
(* Nobody listens for the errors of those streams: one ends the process,   *)
(* with every request in it.  S3 keeps an object or not, and its answer    *)
(* may be lost; a streamed object is kept when its stream ends.            *)
(***************************************************************************)
EXTENDS Naturals, FiniteSets

CONSTANTS
    Uploads,        \* upload requests
    Files,          \* the files of one
    KindOf(_, _),   \* "image", "other", "broken" image or "unsupported"
    Resizes,        \* resize requests
    SourceOf(_),    \* the upload and the file whose key is asked for
    Pieces,         \* an image is read in so many
    MaxFaults

VARIABLES
    file,           \* [Uploads -> [Files -> ...]]: how far each file is
    bucket,         \* the uploaded files S3 has
    upload,         \* [Uploads -> ...]: the requests
    resize,         \* [Resizes -> ...]
    read, scaled,   \* [Resizes -> 0..Pieces]: read from S3; passed on by sharp
    resized,        \* [Resizes -> 0..Pieces]: the size of the object, 0 for none
    faults,         \* what has gone wrong outside
    unheard,        \* files S3 has though its answer was lost
    crashed         \* resizes whose error ended the process

mediaVars ==
    <<file, bucket, upload, resize, read, scaled, resized, faults, unheard, crashed>>

TypeOK ==
    /\ file \in [Uploads -> [Files -> {"waiting", "scaled", "key", "error"}]]
    /\ bucket \subseteq Uploads \X Files /\ unheard \subseteq bucket
    /\ upload \in [Uploads -> {"idle", "storing", "answered", "refused", "cut"}]
    /\ resize \in [Resizes -> {"idle", "streaming", "answered", "refused", "cut"}]
    /\ read \in [Resizes -> 0..Pieces] /\ scaled \in [Resizes -> 0..Pieces]
    /\ resized \in [Resizes -> 0..Pieces]
    /\ faults \in 0..MaxFaults
    /\ crashed \subseteq Resizes

Init ==
    /\ file = [u \in Uploads |-> [f \in Files |-> "waiting"]]
    /\ bucket = {} /\ unheard = {}
    /\ upload = [u \in Uploads |-> "idle"]
    /\ resize = [r \in Resizes |-> "idle"]
    /\ read = [r \in Resizes |-> 0] /\ scaled = [r \in Resizes |-> 0]
    /\ resized = [r \in Resizes |-> 0]
    /\ faults = 0
    /\ crashed = {}

streams == <<resize, read, scaled, resized, crashed>>

-----------------------------------------------------------------------------
(* Uploads                                                                 *)

SetFile(u, f, s) == file' = [file EXCEPT ![u][f] = s]

Fault == faults < MaxFaults /\ faults' = faults + 1

(* uploadImages, after validateImageUploadQueryParams: all files at once.  *)
UploadImages(u) ==
    /\ upload[u] = "idle"
    /\ upload' = [upload EXCEPT ![u] = "storing"]
    /\ UNCHANGED <<file, bucket, streams, faults, unheard>>

Unsupported(u, f) ==
    /\ upload[u] = "storing" /\ file[u][f] = "waiting" /\ KindOf(u, f) = "unsupported"
    /\ SetFile(u, f, "error")
    /\ UNCHANGED <<bucket, upload, streams, faults, unheard>>

(* An image is turned and scaled; what sharp cannot read is an error of    *)
(* that file.  Other files are stored as they are.                         *)
ScaleImage(u, f) ==
    /\ upload[u] = "storing" /\ file[u][f] = "waiting" /\ KindOf(u, f) # "unsupported"
    /\ SetFile(u, f, IF KindOf(u, f) = "broken" THEN "error" ELSE "scaled")
    /\ UNCHANGED <<bucket, upload, streams, faults, unheard>>

UploadBuffer(u, f) ==
    /\ upload[u] = "storing" /\ file[u][f] = "scaled"
    /\ bucket' = bucket \cup {<<u, f>>}
    /\ SetFile(u, f, "key")
    /\ UNCHANGED <<upload, streams, faults, unheard>>

(* S3 refuses, or its answer is lost: the catch around this file alone.    *)
UploadBufferFails(u, f) ==
    /\ upload[u] = "storing" /\ file[u][f] = "scaled"
    /\ Fault
    /\ SetFile(u, f, "error")
    /\ \/ UNCHANGED <<bucket, unheard>>
       \/ /\ bucket' = bucket \cup {<<u, f>>}
          /\ unheard' = unheard \cup {<<u, f>>}
    /\ UNCHANGED <<upload, streams>>

(* Promise.all: the results of all files, each at its own place.           *)
UploadAnswered(u) ==
    /\ upload[u] = "storing"
    /\ \A f \in Files : file[u][f] \in {"key", "error"}
    /\ upload' = [upload EXCEPT ![u] = "answered"]
    /\ UNCHANGED <<file, bucket, streams, faults, unheard>>

-----------------------------------------------------------------------------
(* Resizing                                                                *)

uploads == <<file, bucket, upload, unheard>>

(* resizeImage: a size without a width is refused; a key is not looked up. *)
ResizeImage(r, width) ==
    /\ resize[r] = "idle"
    /\ resize' = [resize EXCEPT ![r] = IF width = 0 THEN "refused" ELSE "streaming"]
    /\ UNCHANGED <<uploads, read, scaled, resized, faults, crashed>>

Stored(r) == SourceOf(r) \in bucket

ReadPiece(r) ==
    /\ resize[r] = "streaming" /\ Stored(r) /\ read[r] < Pieces
    /\ read' = [read EXCEPT ![r] = @ + 1]
    /\ UNCHANGED <<uploads, resize, scaled, resized, faults, crashed>>

(* readStream.pipe(streamResize).pipe(uploadStream): what is readable is   *)
(* passed on, and the end of one stream ends the next.                     *)
PipePiece(r) ==
    /\ resize[r] = "streaming" /\ scaled[r] < read[r]
    /\ KindOf(SourceOf(r)[1], SourceOf(r)[2]) = "image"
    /\ scaled' = [scaled EXCEPT ![r] = @ + 1]
    /\ UNCHANGED <<uploads, resize, read, resized, faults, crashed>>

StreamEnds(r) ==
    /\ resize[r] = "streaming" /\ scaled[r] = Pieces
    /\ resized' = [resized EXCEPT ![r] = scaled[r]]
    /\ resize' = [resize EXCEPT ![r] = "answered"]
    /\ UNCHANGED <<uploads, read, scaled, faults, crashed>>

(* S3 refuses the upload, or its answer is lost: the catch of resizeImage. *)
StreamNotKept(r) ==
    /\ resize[r] = "streaming" /\ scaled[r] = Pieces
    /\ Fault
    /\ resized' \in {resized, [resized EXCEPT ![r] = scaled[r]]}
    /\ resize' = [resize EXCEPT ![r] = "refused"]
    /\ UNCHANGED <<uploads, read, scaled, crashed>>

(* An 'error' event without a listener.                                    *)
Dies(r) ==
    /\ crashed' = crashed \cup {r}
    /\ upload' = [u \in Uploads |-> IF upload[u] = "storing" THEN "cut" ELSE upload[u]]
    /\ resize' = [s \in Resizes |-> IF resize[s] = "streaming" THEN "cut" ELSE resize[s]]
    /\ UNCHANGED <<file, bucket, unheard, read, scaled, resized>>

(* No such key, or not an image.                                           *)
StreamFails(r) ==
    /\ resize[r] = "streaming"
    /\ \/ ~Stored(r)
       \/ read[r] > 0 /\ KindOf(SourceOf(r)[1], SourceOf(r)[2]) # "image"
    /\ Dies(r)
    /\ UNCHANGED faults

(* S3 stops in the middle of the object.                                   *)
ReadFails(r) ==
    /\ resize[r] = "streaming" /\ Stored(r) /\ read[r] < Pieces
    /\ Fault
    /\ Dies(r)

Next ==
    \/ \E u \in Uploads :
          \/ UploadImages(u) \/ UploadAnswered(u)
          \/ \E f \in Files :
                \/ Unsupported(u, f) \/ ScaleImage(u, f)
                \/ UploadBuffer(u, f) \/ UploadBufferFails(u, f)
    \/ \E r \in Resizes :
          \/ ReadPiece(r) \/ PipePiece(r) \/ StreamEnds(r) \/ StreamNotKept(r)
          \/ StreamFails(r) \/ ReadFails(r)
          \/ \E width \in {0, 40} : ResizeImage(r, width)

Spec == Init /\ [][Next]_mediaVars

-----------------------------------------------------------------------------
(* Who uploads is told of every file whether it was stored, the failures   *)
(* of others notwithstanding (media.service.ts 92-145): a key is in the    *)
(* bucket, a file that is in error is not unless S3's answer was lost; and *)
(* an image that was resized is whole, whatever stopped half-way (78-81).  *)
(* Nobody loses an answer but by a resize whose stream failed.             *)
ImagesAreWhole ==
    /\ \A u \in Uploads : upload[u] = "answered" =>
          \A f \in Files :
             /\ file[u][f] = "key" => <<u, f>> \in bucket
             /\ file[u][f] = "error" => <<u, f>> \in unheard \/ <<u, f>> \notin bucket
    /\ \A r \in Resizes :
          /\ resized[r] \in {0, Pieces}
          /\ resize[r] = "answered" => resized[r] = Pieces
    /\ \/ crashed # {}
       \/ /\ \A u \in Uploads : upload[u] # "cut"
          /\ \A r \in Resizes : resize[r] # "cut"
=============================================================================
