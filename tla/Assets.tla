------------------------------- MODULE Assets -------------------------------
(***************************************************************************)
(* Assets: uploaded, or registered by URL; ingested by the worker; then    *)
(* embedded, and checked at any time.                                      *)
(*                                                                         *)
(* A file is its bytes and its content hash at once.  An asset registered  *)
(* by URL starts with a hash made from the URL and the URL as its storage  *)
(* key.  An execution of `ingest.asset` is a worker slot; each             *)
(* transaction, fetch or look at storage is one action, and writing a file *)
(* is two: the local driver, the default, truncates the final path, then   *)
(* writes.  Assets are of kind image, pdf or the like; a copy-only asset   *)
(* is inserted as ingested and is not touched again.                       *)
(***************************************************************************)
EXTENDS Naturals, FiniteSets

CONSTANTS
    Ids,            \* rows that the table may have: a bound of the model
    Files,          \* contents, by hash
    Clients, Workers,
    Uploads,        \* bound of the model: what each client may upload
    MaxRetries,     \* retryLimit of a job
    MaxFailures,    \* bound of the model: uploads and executions that fail or are killed
    Provisional,    \* the hash made from the URL
    Url,            \* the URL as a storage key
    NoFile,
    Torn,           \* the bytes, and the hash, of a file read half-written
    Absent, Whole   \* of a path in storage

Writers == Clients \cup Workers

ASSUME FilesAssumption ==
    /\ {Provisional, Url, NoFile, Torn} \cap Files = {}
    /\ Provisional # NoFile /\ Torn \notin {Provisional, Url, NoFile}
ASSUME StorageAssumption ==
    Absent # Whole /\ {Absent, Whole} \cap Writers = {} /\ Clients \cap Workers = {}
ASSUME BoundsAssumption == MaxRetries \in Nat /\ MaxFailures \in Nat

VARIABLES
    row,        \* assets
    storage,    \* by content address: absent, whole, or who opened it last to write it
    cut,        \* history: files a write of which was cut short
    overlapped, \* history: files looked at half-written, or opened while they were there
    client,     \* POST /v1/assets in progress
    jobs,       \* jobs of ingest.asset that wait; equal ones are one
    worker,     \* executions of ingest.asset
    sweep,      \* assets the reconciler has read and not yet sent a job for
    announced,  \* assets of which asset.ingested was told, which is done once
    embed,      \* assets for which a job of embed.asset waits
    embedding,  \* the hash under which the asset's vector is filed
    failures

disk == <<storage, cut, overlapped>>

vars == <<row, disk, client, jobs, worker, sweep, announced, embed, embedding, failures>>

Bytes == Files \cup {Torn}
Hashes == Bytes \cup {Provisional}
Keys == Files \cup {Url}
Row == [status : {"none", "uploading", "ingested", "analyzed", "failed"},
        hash : Hashes \cup {NoFile}, key : Keys \cup {NoFile}, deleted : BOOLEAN]
Job == [asset : Ids, url : BOOLEAN, tries : 0 .. MaxRetries]

NoRow == [status |-> "none", hash |-> NoFile, key |-> NoFile, deleted |-> FALSE]
IdleClient == [pc |-> "idle", file |-> NoFile, asset |-> {}]
IdleWorker == [pc |-> "idle", job |-> {}, key |-> NoFile, file |-> NoFile]

Exists(a) == row[a].status # "none"

(* What may be read under a storage key (readOrFetch, engineUri): a URL    *)
(* may serve something else every time.                                    *)
Contents(key) ==
    IF key = Url THEN Files ELSE {IF storage[key] = Whole THEN key ELSE Torn}

Init ==
    /\ row = [a \in Ids |-> NoRow]
    /\ storage = [f \in Files |-> Absent]
    /\ cut = {}
    /\ overlapped = {}
    /\ client = [c \in Clients |-> IdleClient]
    /\ jobs = {}
    /\ worker = [w \in Workers |-> IdleWorker]
    /\ sweep = {}
    /\ announced = {}
    /\ embed = {}
    /\ embedding = [a \in Ids |-> NoFile]
    /\ failures = 0

-----------------------------------------------------------------------------
(* putContentAddressed, and `if (!exists) put` of ingestAsset, by a client *)
(* or an execution.                                                        *)

At(p) == IF p \in Clients THEN client[p] ELSE worker[p]
Writes(p, f) == At(p).pc = "writing" /\ At(p).file = f

GoTo(p, pc) ==
    IF p \in Clients
    THEN client' = [client EXCEPT ![p].pc = pc] /\ UNCHANGED worker
    ELSE worker' = [worker EXCEPT ![p].pc = pc] /\ UNCHANGED client

Stored(p) == GoTo(p, IF p \in Clients THEN "insert" ELSE "commit")

NoteUnless(f, states) ==
    overlapped' = IF storage[f] \in states THEN overlapped ELSE overlapped \cup {f}

(* A path that is there is taken for the file, as much as there is of it.  *)
Put(p) ==
    /\ At(p).pc = "put"
    /\ IF storage[At(p).file] = Absent THEN GoTo(p, "write") ELSE Stored(p)
    /\ NoteUnless(At(p).file, {Absent, Whole})
    /\ UNCHANGED <<row, storage, cut, jobs, sweep, announced, embed, embedding, failures>>

BeginWrite(p) ==
    /\ At(p).pc = "write"
    /\ storage' = [storage EXCEPT ![At(p).file] = p]
    /\ NoteUnless(At(p).file, {Absent})
    /\ GoTo(p, "writing")
    /\ UNCHANGED <<row, cut, jobs, sweep, announced, embed, embedding, failures>>

(* All is written, and is there unless another has truncated it meanwhile. *)
EndWrite(p) ==
    /\ At(p).pc = "writing"
    /\ \/ storage' = [storage EXCEPT ![At(p).file] = Whole]
       \/ storage[At(p).file] # p /\ UNCHANGED storage
    /\ Stored(p)
    /\ UNCHANGED <<row, cut, overlapped, jobs, sweep, announced, embed, embedding, failures>>

CutShort(p) ==
    /\ cut' = cut \cup {f \in Files : Writes(p, f)}
    /\ UNCHANGED <<storage, overlapped>>

-----------------------------------------------------------------------------
(* AssetsService *)

(* The hash is looked up; a file that is known is answered with its asset. *)
(* That there is a row left is the bound of the model.                     *)
LookUp(c, f) ==
    /\ client[c].pc = "idle"
    /\ \E a \in Ids : ~ Exists(a)
    /\ \A a \in Ids : row[a].hash = f => row[a].deleted
    /\ client' = [client EXCEPT ![c] = [IdleClient EXCEPT !.pc = "put", !.file = f]]
    /\ UNCHANGED <<row, disk, jobs, worker, sweep, announced, embed, embedding, failures>>

InsertRow(c, a, hash, key) ==
    /\ ~ Exists(a)
    /\ row' = [row EXCEPT ![a] = [status |-> "uploading", hash |-> hash, key |-> key,
                                  deleted |-> FALSE]]
    /\ client' = [client EXCEPT ![c] = [pc |-> "send", file |-> hash, asset |-> {a}]]
    /\ UNCHANGED <<disk, jobs, worker, sweep, announced, embed, embedding, failures>>

Insert(c, a) ==
    /\ client[c].pc = "insert"
    /\ InsertRow(c, a, client[c].file, client[c].file)

RegisterByUrl(c, a) ==
    /\ client[c].pc = "idle"
    /\ InsertRow(c, a, Provisional, Url)

(* The job carries the URL if there is one; an error is logged, no more.   *)
EnqueueIngest(c) ==
    /\ client[c].pc = "send"
    /\ client' = [client EXCEPT ![c] = IdleClient]
    /\ \/ jobs' = jobs \cup {[asset |-> a, url |-> client[c].file = Provisional, tries |-> 0] :
                                a \in client[c].asset}
       \/ jobs' = jobs
    /\ UNCHANGED <<row, disk, worker, sweep, announced, embed, embedding, failures>>

(* An error or a crash of the API on the way to the row.                   *)
Abort(c) ==
    /\ client[c].pc \in {"put", "write", "writing", "insert"}
    /\ failures < MaxFailures
    /\ failures' = failures + 1
    /\ CutShort(c)
    /\ client' = [client EXCEPT ![c] = IdleClient]
    /\ UNCHANGED <<row, jobs, worker, sweep, announced, embed, embedding>>

Remove(a) ==
    /\ Exists(a)
    /\ ~ row[a].deleted
    /\ row' = [row EXCEPT ![a].deleted = TRUE]
    /\ UNCHANGED <<disk, client, jobs, worker, sweep, announced, embed, embedding, failures>>

-----------------------------------------------------------------------------
(* ingestAsset *)

Idle(w) == worker' = [worker EXCEPT ![w] = IdleWorker]
Now(w) == CHOOSE j \in worker[w].job : TRUE

(* Mutant: an asset that has failed is left alone, too.                    *)
TakeUploading(w, j) ==
    /\ worker[w].pc = "idle"
    /\ j \in jobs
    /\ jobs' = jobs \ {j}
    /\ IF row[j.asset].status = "uploading"
       THEN worker' = [worker EXCEPT ![w] = [pc |-> "fetch", job |-> {j}, key |-> row[j.asset].key,
                                             file |-> NoFile]]
       ELSE UNCHANGED worker
    /\ UNCHANGED <<row, disk, client, sweep, announced, embed, embedding, failures>>

(* The row is read; one that is neither new nor failed is left alone.      *)
Take(w, j) ==
    /\ worker[w].pc = "idle"
    /\ j \in jobs
    /\ jobs' = jobs \ {j}
    /\ IF row[j.asset].status \in {"uploading", "failed"}
       THEN worker' = [worker EXCEPT ![w] = [pc |-> "fetch", job |-> {j}, key |-> row[j.asset].key,
                                             file |-> NoFile]]
       ELSE UNCHANGED worker
    /\ UNCHANGED <<row, disk, client, sweep, announced, embed, embedding, failures>>

Source(w) == IF Now(w).url THEN Url ELSE worker[w].key

(* Mutant: what was fetched is not written to storage.                     *)
FetchUnstored(w) ==
    /\ worker[w].pc = "fetch"
    /\ \E bytes \in Contents(Source(w)) :
            worker' = [worker EXCEPT ![w].pc = "commit", ![w].file = bytes]
    /\ UNCHANGED <<row, disk, client, jobs, sweep, announced, embed, embedding, failures>>

(* Only a job with the URL writes what it fetched to storage.              *)
Fetch(w) ==
    /\ worker[w].pc = "fetch"
    /\ \E bytes \in Contents(Source(w)) :
            worker' = [worker EXCEPT ![w].pc = IF Now(w).url THEN "put" ELSE "commit",
                                     ![w].file = bytes]
    /\ UNCHANGED <<row, disk, client, jobs, sweep, announced, embed, embedding, failures>>

Commit(w) ==
    LET a == Now(w).asset
        file == worker[w].file
    IN /\ worker[w].pc = "commit"
       /\ row' = [row EXCEPT ![a].status = "ingested", ![a].hash = file,
                             ![a].key = IF Now(w).url THEN file ELSE worker[w].key]
       /\ announced' = announced \cup {a}
       /\ worker' = [worker EXCEPT ![w] = [@ EXCEPT !.pc = "embed", !.key = NoFile, !.file = NoFile]]
       /\ UNCHANGED <<disk, client, jobs, sweep, embed, embedding, failures>>

SendEmbed(w) ==
    LET a == Now(w).asset
    IN /\ worker[w].pc = "embed"
       /\ embed' = embed \cup {a}
       /\ Idle(w)
       /\ UNCHANGED <<row, disk, client, jobs, sweep, announced, embedding, failures>>

(* The job is put back until its retries are used up. *)
Retry(w) ==
    jobs' = jobs \cup {[j EXCEPT !.tries = @ + 1] : j \in {i \in worker[w].job : i.tries < MaxRetries}}

(* What is thrown anywhere marks the asset as failed and fails the job.    *)
Fail(w) ==
    /\ worker[w].pc # "idle"
    /\ failures < MaxFailures
    /\ failures' = failures + 1
    /\ row' = [row EXCEPT ![Now(w).asset].status = "failed"]
    /\ CutShort(w)
    /\ Retry(w)
    /\ Idle(w)
    /\ UNCHANGED <<client, sweep, announced, embed, embedding>>

Kill(w) ==
    /\ worker[w].pc # "idle"
    /\ failures < MaxFailures
    /\ failures' = failures + 1
    /\ CutShort(w)
    /\ Retry(w)
    /\ Idle(w)
    /\ UNCHANGED <<row, client, sweep, announced, embed, embedding>>

-----------------------------------------------------------------------------
(* reconcile, its second part: assets that have been uploading for long;   *)
(* the job it sends has no URL.                                            *)

SweepRead(a) ==
    /\ a \notin sweep
    /\ row[a].status = "uploading"
    /\ ~ row[a].deleted
    /\ sweep' = sweep \cup {a}
    /\ UNCHANGED <<row, disk, client, jobs, worker, announced, embed, embedding, failures>>

SweepSend(a) ==
    /\ a \in sweep
    /\ sweep' = sweep \ {a}
    /\ jobs' = jobs \cup {[asset |-> a, url |-> FALSE, tries |-> 0]}
    /\ UNCHANGED <<row, disk, client, worker, announced, embed, embedding, failures>>

(* Mutant: the vector is filed under the storage key.                      *)
EmbedUnderKey(a) ==
    /\ a \in embed
    /\ embed' = embed \ {a}
    /\ embedding' = [embedding EXCEPT ![a] = IF @ = NoFile THEN row[a].key ELSE @]
    /\ UNCHANGED <<row, disk, client, jobs, worker, sweep, announced, failures>>

(* embedAsset: an asset that has a vector is left alone, whatever the file *)
(* was that it was made from.  Nothing else in the model depends on the    *)
(* embedding, so that its reading and its writing are one step.            *)
Embed(a) ==
    /\ a \in embed
    /\ embed' = embed \ {a}
    /\ embedding' = [embedding EXCEPT ![a] = IF @ = NoFile THEN row[a].hash ELSE @]
    /\ UNCHANGED <<row, disk, client, jobs, worker, sweep, announced, failures>>

(* A check of an asset, as far as the asset goes (CheckRuns has the rest): *)
(* it does not ask for the status, judges what is found under the storage  *)
(* key, files the verdicts under the hash, and leaves the asset analyzed.  *)
Check(a) ==
    /\ Exists(a)
    /\ row' = [row EXCEPT ![a].status = "analyzed"]
    /\ UNCHANGED <<disk, client, jobs, worker, sweep, announced, embed, embedding, failures>>

-----------------------------------------------------------------------------
Write(p) == Put(p) \/ BeginWrite(p) \/ EndWrite(p)
Work(w) == (\E j \in jobs : Take(w, j)) \/ Fetch(w) \/ Write(w) \/ Commit(w) \/ SendEmbed(w)
Sweep(a) == SweepRead(a) \/ SweepSend(a)

Next ==
    \/ \E c \in Clients, f \in Files : f \in Uploads[c] /\ LookUp(c, f)
    \/ \E c \in Clients : Write(c) \/ EnqueueIngest(c) \/ Abort(c)
    \/ \E c \in Clients, a \in Ids : Insert(c, a) \/ RegisterByUrl(c, a)
    \/ \E w \in Workers : Work(w) \/ Fail(w) \/ Kill(w)
    \/ \E a \in Ids : Sweep(a) \/ Embed(a) \/ Check(a) \/ Remove(a)

Spec == Init /\ [][Next]_vars

(* The worker works and the reconciler is run by cron; clients and checks  *)
(* may stop anywhere.                                                      *)
FairSpec ==
    /\ Spec
    /\ \A w \in Workers : WF_vars(Work(w))
    /\ \A a \in Ids : WF_vars(Sweep(a)) /\ WF_vars(Embed(a))

-----------------------------------------------------------------------------
(* The types of the tables, of storage and of what is in progress.         *)
TypeOK ==
    /\ row \in [Ids -> Row]
    /\ storage \in [Files -> {Absent, Whole} \cup Writers]
    /\ cut \subseteq Files
    /\ overlapped \subseteq Files
    /\ client \in [Clients -> [pc : {"idle", "put", "write", "writing", "insert", "send"},
                               file : Hashes \cup {NoFile}, asset : SUBSET Ids]]
    /\ jobs \subseteq Job
    /\ worker \in [Workers -> [pc : {"idle", "fetch", "put", "write", "writing", "commit", "embed"},
                               job : SUBSET Job, key : Keys \cup {NoFile}, file : Bytes \cup {NoFile}]]
    /\ sweep \subseteq Ids
    /\ announced \subseteq Ids
    /\ embed \subseteq Ids
    /\ embedding \in [Ids -> Bytes \cup {NoFile}]
    /\ failures \in 0 .. MaxFailures

(* An asset whose storage key is a content address has the hash of the     *)
(* file of that address, or of a part of it that was read half-written;    *)
(* and only if a write of the file was cut short, or overlapped another    *)
(* look or write, is it a part (putContentAddressed and ingestAsset look   *)
(* for the path and take what is there).  Once nobody writes the file it   *)
(* is there as a whole, overlaps or not, unless a write was cut short.     *)
(* Nothing is said of an asset that has its URL as its key.                *)
ContentAddressed ==
    \A a \in Ids : row[a].key \in Files =>
        LET f == row[a].key
        IN /\ row[a].hash \in {f, Torn}
           /\ f \notin cut \cup overlapped => row[a].hash = f
           /\ f \notin cut /\ (\A p \in Writers : ~ Writes(p, f)) => storage[f] = Whole

(* In the end an asset is ingested, or analyzed, or removed, although its  *)
(* job may never have been sent, the reconciler looks only at assets that  *)
(* are uploading, and executions fail or are killed: as long as those are  *)
(* no more than a job has retries.                                         *)
IngestedInTheEnd ==
    <>[](\A a \in Ids : row[a].status \in {"none", "ingested", "analyzed"} \/ row[a].deleted)

=============================================================================
