----------------------------- MODULE MediaStorage -----------------------------
(*************************************************************************)
(* StorageProviderService and StorageUploadService: where media live,    *)
(* and how they get there.                                               *)
(*                                                                       *)
(* An upload is promised in one transaction, made by the browser         *)
(* straight to the bucket, and confirmed by a request that looks at the  *)
(* bucket between two transactions, while headquarters may edit the      *)
(* provider. A provider's version tells whether it was.                  *)
(*************************************************************************)
EXTENDS Integers

CONSTANTS
  Providers,    (* storage_providers of one owner.                       *)
  Buckets,      (* What endpoint and bucket of a provider can name.      *)
  Uploads,      (* media_assets that are uploaded.                       *)
  SourceMedia,  (* media_assets registered from a source bucket.         *)
  SourceBucket, (* The bucket that holds the objects of SourceMedia.     *)
  Completions,  (* Requests that complete uploads.                       *)
  MaxEdits      (* Bound on the version of a provider.                   *)

Media == Uploads \cup SourceMedia

ASSUME StorageAssumption ==
  /\ Uploads \cap SourceMedia = {}
  /\ SourceBucket \in Buckets
  /\ MaxEdits \in Nat

VARIABLES
  provider,    (* storage_providers: status, bucket, version.            *)
  media,       (* media_assets: status, provider, and of its uploadIntent
                  the provider's version and the bucket that the URL names.   *)
  urlLive,     (* Uploads whose presigned URL has not expired.           *)
  objects,     (* What the buckets hold: pairs of bucket and media.      *)
  completion   (* Where each request is, and the candidate it read.      *)

storageVars == <<provider, media, urlLive, objects, completion>>

NoMedia == [status |-> "none"]
NoCompletion == [at |-> "idle"]

StorageTypeOK ==
  /\ provider \in [Providers -> [status: {"none", "active", "disabled"}, bucket: Buckets,
                                 version: 0 .. MaxEdits]]
  /\ media \in [Media -> {NoMedia}
       \cup [status: {"uploading", "ready"}, provider: Providers, version: 0 .. MaxEdits,
             bucket: Buckets]]
  /\ urlLive \subseteq Uploads
  /\ objects \subseteq Buckets \X Media
  /\ completion \in [Completions -> {NoCompletion}
       \cup [at: {"read", "verified"}, media: Uploads, provider: Providers, version: 0 .. MaxEdits,
             bucket: Buckets]]

StorageInit ==
  /\ provider \in [Providers -> [status: {"none"}, bucket: Buckets, version: {0}]]
  /\ media = [m \in Media |-> NoMedia]
  /\ urlLive = {}
  /\ objects = {SourceBucket} \X SourceMedia
  /\ completion = [r \in Completions |-> NoCompletion]

Exists(p) == provider[p].status # "none"
Usable(p) == provider[p].status = "active"

-----------------------------------------------------------------------------
(* The owner's storage providers.                                        *)

CreateProvider(p) ==
  /\ ~Exists(p)
  /\ provider' = [provider EXCEPT ![p].status = "active"]
  /\ UNCHANGED <<media, urlLive, objects, completion>>

\* update: also when only the label or the credentials change.
UpdateProvider(p) ==
  /\ Exists(p)
  /\ provider[p].version < MaxEdits
  /\ \E b \in Buckets :
       provider' = [provider EXCEPT ![p].bucket = b, ![p].version = @ + 1]
  /\ UNCHANGED <<media, urlLive, objects, completion>>

SetProviderStatus(p) ==
  /\ Exists(p)
  /\ provider[p].version < MaxEdits
  /\ \E s \in {"active", "disabled"} :
       provider' = [provider EXCEPT ![p].status = s, ![p].version = @ + 1]
  /\ UNCHANGED <<media, urlLive, objects, completion>>

\* delete: media_assets refers to the provider with ON DELETE RESTRICT.
DeleteProvider(p) ==
  /\ Exists(p)
  /\ \A m \in Media : media[m] # NoMedia => media[m].provider # p
  /\ \E b \in Buckets :
       provider' = [provider EXCEPT ![p] = [status |-> "none", bucket |-> b, version |-> 0]]
  /\ UNCHANGED <<media, urlLive, objects, completion>>

-----------------------------------------------------------------------------
(* Uploads.                                                              *)

Promise(p, status) ==
  [status |-> status, provider |-> p, version |-> provider[p].version,
   bucket |-> provider[p].bucket]

\* createPlatformUploadIntent, createTenantUploadIntent.
CreateUploadIntent(m, p) ==
  /\ media[m] = NoMedia
  /\ Usable(p)
  /\ media' = [media EXCEPT ![m] = Promise(p, "uploading")]
  /\ urlLive' = urlLive \cup {m}
  /\ UNCHANGED <<provider, objects, completion>>

\* Ten minutes pass.
UrlExpires(m) ==
  /\ m \in urlLive
  /\ urlLive' = urlLive \ {m}
  /\ UNCHANGED <<provider, media, objects, completion>>

\* The browser's conditional PUT, to the bucket that was signed.
PutObject(m) ==
  /\ m \in urlLive
  /\ <<media[m].bucket, m>> \notin objects
  /\ objects' = objects \cup {<<media[m].bucket, m>>}
  /\ UNCHANGED <<provider, media, urlLive, completion>>

\* selectCompletionRows and parseCompletion: the intent and the provider that
\* it was promised for, unless the provider was edited since.
Completable(m) ==
  /\ media[m].status = "uploading"
  /\ Usable(media[m].provider)
  /\ media[m].version = provider[media[m].provider].version

ReadCandidate(r, m) ==
  /\ completion[r] = NoCompletion
  /\ Completable(m)
  /\ completion' = [completion EXCEPT ![r] =
       [at |-> "read", media |-> m, provider |-> media[m].provider,
        version |-> provider[media[m].provider].version,
        bucket |-> provider[media[m].provider].bucket]]
  /\ UNCHANGED <<provider, media, urlLive, objects>>

\* headObject and verifyHead, outside any transaction.
HeadObject(r) ==
  LET c == completion[r] IN
  /\ c.at = "read"
  /\ completion' = [completion EXCEPT ![r] =
       IF <<c.bucket, c.media>> \in objects THEN [c EXCEPT !.at = "verified"] ELSE NoCompletion]
  /\ UNCHANGED <<provider, media, urlLive, objects>>

\* assertUnchangedCandidate.
Unchanged(c) ==
  /\ media[c.media].provider = c.provider
  /\ provider[c.provider].version = c.version

\* Mutant: the second transaction only looks at the media's status.
CompleteUnlooked(r) ==
  LET c == completion[r] IN
  /\ c.at = "verified"
  /\ media' = [media EXCEPT ![c.media].status = IF @ = "uploading" THEN "ready" ELSE @]
  /\ completion' = [completion EXCEPT ![r] = NoCompletion]
  /\ UNCHANGED <<provider, urlLive, objects>>

\* The second transaction of completePlatformUpload and completeTenantUpload.
CompleteUpload(r) ==
  LET c == completion[r] IN
  /\ c.at = "verified"
  /\ media' = [media EXCEPT ![c.media].status =
       IF Completable(c.media) /\ Unchanged(c) THEN "ready" ELSE @]
  /\ completion' = [completion EXCEPT ![r] = NoCompletion]
  /\ UNCHANGED <<provider, urlLive, objects>>

\* registerPlatformSourceObject: it looks at the bucket while it holds the
\* provider's row.
RegisterSourceObject(m, p) ==
  /\ media[m] = NoMedia
  /\ Usable(p)
  /\ <<provider[p].bucket, m>> \in objects
  /\ media' = [media EXCEPT ![m] = Promise(p, "ready")]
  /\ UNCHANGED <<provider, urlLive, objects, completion>>

StorageNext ==
  \/ \E p \in Providers : \/ CreateProvider(p) \/ UpdateProvider(p)
                          \/ SetProviderStatus(p) \/ DeleteProvider(p)
  \/ \E m \in Uploads : \/ UrlExpires(m) \/ PutObject(m)
                        \/ \E p \in Providers : CreateUploadIntent(m, p)
                        \/ \E r \in Completions : ReadCandidate(r, m)
  \/ \E r \in Completions : HeadObject(r) \/ CompleteUpload(r)
  \/ \E m \in SourceMedia, p \in Providers : RegisterSourceObject(m, p)

StorageSpec == StorageInit /\ [][StorageNext]_storageVars

-----------------------------------------------------------------------------
(* Properties.                                                           *)

\* Media become ready only when their object is where their provider points at
\* that moment, though the look at the bucket was before the transaction and
\* nothing was locked in between.
ReadyIsWhereItPoints ==
  [][\A m \in Media :
       (media'[m] # media[m] /\ media'[m] # NoMedia /\ media'[m].status = "ready")
         => <<provider[media'[m].provider].bucket, m>> \in objects]_storageVars
=============================================================================
