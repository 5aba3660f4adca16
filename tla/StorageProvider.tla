---------------------------- MODULE StorageProvider ----------------------------
(***************************************************************************)
(* The web server's one StorageService object.  get_storage_service makes  *)
(* it of the kind that is asked for first, and gives it to everyone who    *)
(* asks later.  get_s3_storage_service asks for S3; the other routes ask   *)
(* for what the parameter storage_type of the query says, which FastAPI    *)
(* makes of the dependency's argument, or for what the environment says if *)
(* there is none.  Workers have a store of each kind of their own.         *)
(***************************************************************************)
EXTENDS ImageStore

VARIABLE provider   \* the kind of _storage_service, "none" before it is made

ProviderInit == provider = "none"

\* What get_storage_service(kind) returns.
Provided(kind) == IF provider = "none" THEN kind ELSE provider

Ask(kind) == provider' = Provided(kind)

\* A request for which get_storage_service is called without an argument.
AskAny == \E kind \in StorageTypes : Ask(kind)

\* The results that read() finds in a store of this kind.
Results(kind) == IF kind = "local" THEN LocalResults ELSE S3Results

\* The input image goes to the store the web server has.  Workers look for it
\* on the local disk only.
StoreUpload(t) ==
    \E kind \in StorageTypes :
       /\ Ask(kind)
       /\ IF Provided(kind) = "local"
          THEN SaveUpload(t)
          ELSE UNCHANGED <<uploads, previews, outputs>>

\* A new web process has no store yet.
ForgetProvider == provider' = "none"

ProviderType == provider \in {"none", "local", "s3"}

================================================================================
