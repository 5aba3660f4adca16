------------------------------ MODULE ImageStore -------------------------------
(***************************************************************************)
(* The two stores of images.  The web server saves the upload on the local *)
(* disk; a worker saves the result there (the "preview") and then puts a   *)
(* copy of it in the S3 bucket (the "output").  save() swallows every      *)
(* error and returns False, which no caller looks at; S3's exists() takes  *)
(* every error for "not there".                                            *)
(***************************************************************************)
EXTENDS StudioTypes

VARIABLES
    uploads,        \* tasks whose input image is on the local disk
    previews,       \* tasks whose result is on the local disk
    outputs         \* tasks whose result is in the S3 bucket

StoreInit ==
    /\ uploads = {}
    /\ previews = {}
    /\ outputs = {}

SaveUpload(t) ==
    /\ \/ uploads' = uploads \union {t}
       \/ "disk" \in Faults /\ UNCHANGED uploads
    /\ UNCHANGED <<previews, outputs>>

\* save_output() writes the result beside the upload; an error there raises
\* and is part of the failing inference.
SavePreview(t) ==
    /\ previews' = previews \union {t}
    /\ UNCHANGED <<uploads, outputs>>

\* Reads the preview back and puts it.  A read that fails yields None, whose
\* put fails in turn, and either way save() only returns False.
PutOutput(t) ==
    /\ \/ outputs' = outputs \union {t}
       \/ {"disk", "s3"} \intersect Faults # {} /\ UNCHANGED outputs
    /\ UNCHANGED <<uploads, previews>>

\* What read() of each kind of store finds of the results.
LocalResults == previews
S3Results    == outputs

\* Mutant of HeadAnswers: an error is taken for "there".
HeadAnswersYes(t) ==
    {t \in outputs} \union (IF "s3" \in Faults THEN {TRUE} ELSE {})

\* What exists() of the S3 store may answer for a task.
HeadAnswers(t) ==
    {t \in outputs} \union (IF "s3" \in Faults THEN {FALSE} ELSE {})

StoreType ==
    /\ uploads \subseteq Tasks
    /\ previews \subseteq Tasks
    /\ outputs \subseteq Tasks

================================================================================
