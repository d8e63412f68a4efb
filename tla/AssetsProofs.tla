---------------------------- MODULE AssetsProofs ----------------------------
(***************************************************************************)
(* Theorems about Assets, for any assets, files, clients, workers, retries *)
(* and failures: types, and how far content addresses tell the truth.      *)
(***************************************************************************)
EXTENDS Assets, TLAPS

(* A row that exists has a hash and a key, one that does not has nothing.  *)
Filled ==
    \A a \in Ids :
        /\ row[a].status = "none" => row[a] = NoRow
        /\ Exists(a) => row[a].hash \in Hashes /\ row[a].key \in Keys

(* Whatever is still to be done is to be done to rows that exist.          *)
Owed ==
    /\ \A j \in jobs : Exists(j.asset)
    /\ \A a \in sweep : Exists(a)
    /\ \A c \in Clients : \A a \in client[c].asset : Exists(a)

(* A file is spoilt if a write of it was cut short or overlapped.  A path  *)
(* that somebody relies on is there, and whole if the file is not spoilt.  *)
Spoilt(f) == f \in cut \cup overlapped
Kept(f) == storage[f] # Absent /\ (Spoilt(f) \/ storage[f] = Whole)
PartOf(hash, f) == hash \in {f, Torn} /\ (Spoilt(f) \/ hash = f)

(* Who writes a file that is not spoilt is the one who opened it, and who  *)
(* opened one that no write was cut short of is still writing it.          *)
Written ==
    /\ \A p \in Writers : At(p).pc = "writing" =>
            /\ storage[At(p).file] # Absent
            /\ Spoilt(At(p).file) \/ storage[At(p).file] = p
    /\ \A f \in Files : storage[f] \in Writers => f \in cut \/ Writes(storage[f], f)

ClientHolds ==
    \A c \in Clients :
        /\ client[c].pc \in {"put", "write", "writing", "insert"} => client[c].file \in Files
        /\ client[c].pc = "insert" => Kept(client[c].file)

(* What an execution is about to write, by how far it has come.            *)
HoldsJob(w, j) ==
    /\ worker[w].job = {j} /\ Exists(j.asset)
    /\ worker[w].pc # "embed" => worker[w].key \in Keys
    /\ worker[w].key \in Files => Kept(worker[w].key)
    /\ worker[w].pc \in {"put", "write", "writing"} => j.url /\ worker[w].file \in Files
    /\ worker[w].pc = "commit" =>
            IF j.url THEN worker[w].file \in Files /\ Kept(worker[w].file)
            ELSE /\ worker[w].file \in Bytes
                 /\ worker[w].key \in Files => PartOf(worker[w].file, worker[w].key)
    /\ worker[w].pc = "embed" => row[j.asset].hash \in Bytes

WorkerHolds ==
    \A w \in Workers : worker[w].pc # "idle" => \E j \in Job : HoldsJob(w, j)

Embeddable == \A a \in embed : row[a].hash \in Bytes

Addressed ==
    \A a \in Ids : row[a].key \in Files => Kept(row[a].key) /\ PartOf(row[a].hash, row[a].key)

Inv ==
    /\ TypeOK /\ Filled /\ Owed /\ Written /\ ClientHolds /\ WorkerHolds /\ Embeddable
    /\ Addressed

(* What storage may do: a path that is kept stays so, a file that is       *)
(* spoilt stays spoilt.                                                    *)
DiskKeeps ==
    \A f \in Files : (Spoilt(f) => Spoilt(f)') /\ (Kept(f) => Kept(f)')

-----------------------------------------------------------------------------
Request == [pc : {"idle", "put", "write", "writing", "insert", "send"}, file : Hashes \cup {NoFile},
            asset : SUBSET Ids]
Working == {"idle", "fetch", "put", "write", "writing", "commit", "embed"}
Execution == [pc : Working, job : SUBSET Job, key : Keys \cup {NoFile},
              file : Bytes \cup {NoFile}]

LEMMA InitInv == Init => Inv
  <1> SUFFICES ASSUME Init PROVE Inv
    OBVIOUS
  <1> USE DEF Init, NoRow, IdleClient, IdleWorker
  <1>1. TypeOK
    BY BoundsAssumption DEF TypeOK, Row, Hashes, Keys
  <1>2. Filled /\ Owed /\ ClientHolds /\ WorkerHolds /\ Embeddable
    BY DEF Filled, Owed, ClientHolds, WorkerHolds, Embeddable, Exists
  <1>3. Addressed
    BY FilesAssumption DEF Addressed
  <1>4. Written
    BY StorageAssumption DEF Written, At, Writers
  <1> QED
    BY <1>1, <1>2, <1>3, <1>4 DEF Inv

(* The invariant is about content addresses.                               *)
LEMMA InvAddresses == Inv => ContentAddressed
  <1> SUFFICES ASSUME Inv, NEW a \in Ids, row[a].key \in Files
               PROVE  LET f == row[a].key
                      IN /\ row[a].hash \in {f, Torn}
                         /\ f \notin cut \cup overlapped => row[a].hash = f
                         /\ f \notin cut /\ (\A p \in Writers : ~ Writes(p, f)) => storage[f] = Whole
    BY DEF ContentAddressed
  <1> DEFINE f == row[a].key
  <1>1. Kept(f) /\ PartOf(row[a].hash, f)
    BY DEF Inv, Addressed
  <1>2. storage[f] \in {Absent, Whole} \cup Writers /\ (storage[f] \in Writers => f \in cut \/ Writes(storage[f], f))
    BY DEF Inv, TypeOK, Written
  <1> QED
    BY <1>1, <1>2 DEF Kept, PartOf, Spoilt

(* Where storage and those who write are left alone.                       *)
LEMMA DiskStill ==
    ASSUME Inv, UNCHANGED disk,
           \A p \in Writers : At(p).pc = "writing" \/ At(p)'.pc = "writing" => At(p)' = At(p)
    PROVE  DiskKeeps /\ Written'
  <1>1. storage' = storage /\ cut' = cut /\ overlapped' = overlapped
    BY DEF disk
  <1>2. DiskKeeps
    BY <1>1 DEF DiskKeeps, Spoilt, Kept
  <1>3. ASSUME NEW p \in Writers, At(p)'.pc = "writing"
        PROVE  storage'[At(p)'.file] # Absent /\ (Spoilt(At(p).file)' \/ storage'[At(p)'.file] = p)
    BY <1>1, <1>3 DEF Inv, Written, Spoilt
  <1>4. ASSUME NEW f \in Files, storage'[f] \in Writers PROVE f \in cut' \/ Writes(storage[f], f)'
    BY <1>1, <1>4 DEF Inv, Written, Writes
  <1> QED
    BY <1>2, <1>3, <1>4 DEF Written

(* What rests on storage lasts as it changes, for clients and executions   *)
(* that do not move themselves.                                            *)
LEMMA OthersKeep ==
    ASSUME Inv, DiskKeeps
    PROVE  /\ \A c \in Clients : client'[c] = client[c] =>
                /\ client'[c].pc \in {"put", "write", "writing", "insert"} => client'[c].file \in Files
                /\ client'[c].pc = "insert" => Kept(client[c].file)'
           /\ \A w \in Workers, j \in Job :
                /\ HoldsJob(w, j) /\ worker'[w] = worker[w]
                /\ Exists(j.asset)' /\ (row[j.asset].hash \in Bytes => row'[j.asset].hash \in Bytes)
                => HoldsJob(w, j)'
           /\ \A a \in Ids : row'[a].key = row[a].key /\ row'[a].hash = row[a].hash /\ row[a].key \in Files
                => Kept(row[a].key)' /\ PartOf(row[a].hash, row[a].key)'
  <1>1. \A f \in Files : Kept(f) => Kept(f)'
    BY DEF DiskKeeps
  <1>2. ASSUME NEW f \in Files, NEW b, PartOf(b, f)
        PROVE  b \in {f, Torn} /\ (Spoilt(f)' \/ b = f)
    BY <1>2 DEF DiskKeeps, PartOf
  <1>3. ASSUME NEW c \in Clients, client'[c] = client[c]
        PROVE  /\ client'[c].pc \in {"put", "write", "writing", "insert"} => client'[c].file \in Files
               /\ client'[c].pc = "insert" => Kept(client[c].file)'
    <2>1. Kept(client[c].file)' <=> storage'[client[c].file] # Absent
             /\ (client[c].file \in cut' \cup overlapped' \/ storage'[client[c].file] = Whole)
      BY <1>3 DEF Kept, Spoilt
    <2> QED
      BY <1>1, <1>3, <2>1 DEF Inv, ClientHolds, Kept, Spoilt
  <1>4. ASSUME NEW w \in Workers, NEW j \in Job, HoldsJob(w, j), worker'[w] = worker[w],
               Exists(j.asset)', row[j.asset].hash \in Bytes => row'[j.asset].hash \in Bytes
        PROVE  HoldsJob(w, j)'
    BY <1>1, <1>2, <1>4 DEF HoldsJob, Kept, PartOf, Spoilt
  <1>5. ASSUME NEW a \in Ids, row'[a].key = row[a].key, row'[a].hash = row[a].hash, row[a].key \in Files
        PROVE  Kept(row[a].key)' /\ PartOf(row[a].hash, row[a].key)'
    BY <1>1, <1>2, <1>5 DEF Inv, Addressed, Kept, PartOf, Spoilt
  <1> QED
    BY <1>3, <1>4, <1>5

-----------------------------------------------------------------------------
(* Clients.                                                                *)

(* One client moves on; what it is at next holds.                          *)
LEMMA ClientMoves ==
    ASSUME Inv, NEW c \in Clients, NEW r \in Request, client' = [client EXCEPT ![c] = r],
           UNCHANGED <<row, worker, sweep, announced, embed, embedding>>,
           storage' \in [Files -> {Absent, Whole} \cup Writers],
           cut' \subseteq Files, overlapped' \subseteq Files, failures' \in 0 .. MaxFailures,
           jobs' \subseteq Job, \A j \in jobs' : Exists(j.asset),
           DiskKeeps, Written',
           r.pc \in {"put", "write", "writing", "insert"} => r.file \in Files,
           r.pc = "insert" => Kept(r.file)',
           \A a \in r.asset : Exists(a)
    PROVE  Inv'
  <1> USE DEF Inv
  <1>1. TypeOK'
    BY DEF TypeOK, Request
  <1>2. Filled' /\ Embeddable'
    BY DEF Filled, Embeddable, Exists
  <1>3. \A d \in Clients : client'[d] = IF d = c THEN r ELSE client[d]
    BY DEF TypeOK
  <1>4. Owed'
    BY <1>3 DEF Owed, Exists
  <1>5. ClientHolds'
    BY <1>3, OthersKeep DEF ClientHolds, Kept, Spoilt
  <1>6. WorkerHolds'
    <2> SUFFICES ASSUME NEW w \in Workers, worker'[w].pc # "idle"
                 PROVE  \E j \in Job : HoldsJob(w, j)'
      BY DEF WorkerHolds
    <2>1. PICK j \in Job : HoldsJob(w, j)
      BY DEF WorkerHolds
    <2>2. Exists(j.asset)' /\ row' = row /\ worker'[w] = worker[w]
      BY <2>1 DEF HoldsJob, Exists
    <2> QED
      BY <2>1, <2>2, OthersKeep
  <1>7. Addressed'
    BY OthersKeep DEF Addressed, Kept, PartOf, Spoilt
  <1> QED
    BY <1>1, <1>2, <1>4, <1>5, <1>6, <1>7

LEMMA ClientSteps ==
    ASSUME Inv, NEW c \in Clients,
           (\E f \in Files : LookUp(c, f)) \/ EnqueueIngest(c)
    PROVE  Inv'
  <1> USE DEF Inv
  <1>1. \A p \in Writers : p # c => At(p)' = At(p)
    <2>1. client' = [client EXCEPT ![c] = client'[c]] /\ worker' = worker
      BY DEF LookUp, EnqueueIngest, TypeOK
    <2> QED
      BY <2>1 DEF At, TypeOK
  <1>2. ASSUME NEW r \in Request, client' = [client EXCEPT ![c] = r], r.pc # "writing"
        PROVE  \A p \in Writers : At(p).pc = "writing" \/ At(p)'.pc = "writing" => At(p)' = At(p)
    <2>1. At(c)' = r /\ At(c) = client[c]
      BY <1>2 DEF At, TypeOK
    <2>2. client[c].pc # "writing"
      BY DEF LookUp, EnqueueIngest
    <2> QED
      BY <1>1, <1>2, <2>1, <2>2
  <1>3. /\ storage \in [Files -> {Absent, Whole} \cup Writers] /\ cut \subseteq Files
        /\ overlapped \subseteq Files /\ failures \in 0 .. MaxFailures /\ jobs \subseteq Job
        /\ \A j \in jobs : Exists(j.asset)
    BY DEF TypeOK, Owed
  <1>4. UNCHANGED <<row, disk, worker, sweep, announced, embed, embedding, failures>>
    BY DEF LookUp, EnqueueIngest
  <1>5. ASSUME NEW f \in Files, LookUp(c, f) PROVE Inv'
    <2> DEFINE new == [IdleClient EXCEPT !.pc = "put", !.file = f]
    <2>1. new \in Request /\ new.pc = "put" /\ new.file = f /\ new.asset = {}
      BY DEF Request, IdleClient, Hashes, Bytes
    <2>2. client' = [client EXCEPT ![c] = new] /\ jobs' = jobs
      BY <1>5 DEF LookUp
    <2> HIDE DEF new
    <2>3. DiskKeeps /\ Written'
      BY <1>2, <1>4, <2>1, <2>2, DiskStill
    <2> QED
      BY <1>3, <1>4, <2>1, <2>2, <2>3, ClientMoves DEF disk
  <1>6. ASSUME EnqueueIngest(c) PROVE Inv'
    <2> DEFINE sent == {[asset |-> a, url |-> client[c].file = Provisional, tries |-> 0] :
                            a \in client[c].asset}
    <2>1. jobs' = jobs \/ jobs' = jobs \cup sent
      BY <1>6 DEF EnqueueIngest
    <2>2. client' = [client EXCEPT ![c] = IdleClient]
      BY <1>6 DEF EnqueueIngest
    <2>3. ASSUME NEW j \in sent PROVE j \in Job /\ Exists(j.asset)
      <3>1. PICK a \in client[c].asset :
                j = [asset |-> a, url |-> client[c].file = Provisional, tries |-> 0]
        BY <2>3
      <3>2. a \in Ids /\ Exists(a) /\ 0 \in 0 .. MaxRetries
        BY BoundsAssumption DEF TypeOK, Owed
      <3>3. (client[c].file = Provisional) \in BOOLEAN
        OBVIOUS
      <3>4. j.asset = a
        BY <3>1
      <3> QED
        BY <3>1, <3>2, <3>3, <3>4 DEF Job
    <2> HIDE DEF sent
    <2>4. IdleClient \in Request /\ IdleClient.pc = "idle" /\ IdleClient.asset = {}
      BY DEF IdleClient, Request
    <2>5. DiskKeeps /\ Written'
      BY <1>2, <1>4, <2>2, <2>4, DiskStill
    <2> QED
      BY <1>3, <1>4, <2>1, <2>2, <2>3, <2>4, <2>5, ClientMoves DEF disk
  <1> QED
    BY <1>5, <1>6

(* A row is inserted where there was none, so that nobody refers to it.    *)
LEMMA InsertKeeps ==
    ASSUME Inv, NEW c \in Clients, NEW a \in Ids, NEW hash \in Hashes, NEW key \in Keys,
           InsertRow(c, a, hash, key), client[c].pc # "writing",
           key \in Files => hash = key /\ Kept(key)
    PROVE  Inv'
  <1> USE DEF Inv
  <1> DEFINE new == [status |-> "uploading", hash |-> hash, key |-> key, deleted |-> FALSE]
             r == [pc |-> "send", file |-> hash, asset |-> {a}]
  <1>1. /\ row' = [row EXCEPT ![a] = new]
        /\ client' = [client EXCEPT ![c] = r]
        /\ row[a] = NoRow
    BY DEF InsertRow, Filled, Exists
  <1>2. new \in Row
    BY DEF Row
  <1>3. TypeOK'
    BY <1>1, <1>2 DEF InsertRow, TypeOK, disk
  <1>4. \A b \in Ids : b # a => row'[b] = row[b]
    BY <1>1 DEF TypeOK
  <1>5. row'[a] = new /\ row'[a].status = "uploading"
    BY <1>1 DEF TypeOK
  <1>6. \A b \in Ids : Exists(b) => Exists(b)' /\ b # a
    BY <1>4, <1>1 DEF Exists, NoRow
  <1>7. Filled'
    BY <1>4, <1>5 DEF Filled, Exists
  <1>8. Owed'
    BY <1>1, <1>5, <1>6 DEF InsertRow, Owed, TypeOK, Job, Exists
  <1>9. \A d \in Clients : client'[d] = IF d = c THEN r ELSE client[d]
    BY <1>1 DEF TypeOK
  <1>10. DiskKeeps /\ Written'
    <2>1. worker' = worker /\ UNCHANGED disk
      BY DEF InsertRow
    <2>2. ASSUME NEW p \in Writers, At(p).pc = "writing" \/ At(p)'.pc = "writing"
          PROVE  At(p)' = At(p)
      <3>1. CASE p = c
        BY <1>9, <2>2, <3>1 DEF At
      <3>2. CASE p # c
        BY <1>9, <2>1, <3>2 DEF At
      <3> QED
        BY <3>1, <3>2
    <2> QED
      BY <2>1, <2>2, DiskStill
  <1>11. ClientHolds'
    BY <1>9, <1>10, OthersKeep DEF ClientHolds, Kept, Spoilt
  <1>12. \A b \in Ids : row[b].hash \in Bytes => row'[b].hash \in Bytes
    BY <1>1, <1>4, FilesAssumption DEF NoRow, Bytes
  <1>13. WorkerHolds'
    <2>1. ASSUME NEW w \in Workers, NEW j \in Job, HoldsJob(w, j) PROVE HoldsJob(w, j)'
      BY <2>1, <1>6, <1>10, <1>12, OthersKeep DEF InsertRow, HoldsJob, Job
    <2> QED
      BY <2>1 DEF InsertRow, WorkerHolds
  <1>14. Embeddable'
    BY <1>12 DEF InsertRow, Embeddable, TypeOK
  <1>15. Addressed'
    <2> SUFFICES ASSUME NEW b \in Ids, row'[b].key \in Files
                 PROVE  Kept(row[b].key)' /\ PartOf(row[b].hash, row[b].key)'
      BY DEF Addressed
    <2>1. CASE b = a
      BY <1>5, <1>10, <2>1 DEF DiskKeeps, Kept, PartOf, Spoilt
    <2>2. CASE b # a
      BY <1>4, <1>10, <2>2, OthersKeep DEF Kept, PartOf, Spoilt
    <2> QED
      BY <2>1, <2>2
  <1> QED
    BY <1>3, <1>7, <1>8, <1>10, <1>11, <1>13, <1>14, <1>15

LEMMA InsertSteps ==
    ASSUME Inv, NEW c \in Clients, NEW a \in Ids, Insert(c, a) \/ RegisterByUrl(c, a)
    PROVE  Inv'
  <1>1. CASE Insert(c, a)
    BY <1>1, InsertKeeps DEF Insert, Inv, ClientHolds, Hashes, Bytes, Keys
  <1>2. CASE RegisterByUrl(c, a)
    BY <1>2, InsertKeeps, FilesAssumption DEF RegisterByUrl, Hashes, Bytes, Keys
  <1> QED
    BY <1>1, <1>2

-----------------------------------------------------------------------------
(* Storage.                                                                *)

LEMMA GoToMoves ==
    ASSUME TypeOK, NEW p \in Writers, NEW pc, GoTo(p, pc)
    PROVE  /\ At(p)' = [At(p) EXCEPT !.pc = pc] /\ At(p)'.pc = pc /\ At(p)'.file = At(p).file
           /\ \A q \in Writers : q # p => At(q)' = At(q)
           /\ p \in Clients => UNCHANGED worker /\ client' = [client EXCEPT ![p] = [@ EXCEPT !.pc = pc]]
           /\ p \in Workers => UNCHANGED client /\ worker' = [worker EXCEPT ![p] = [@ EXCEPT !.pc = pc]]
  <1>1. CASE p \in Clients
    BY <1>1, StorageAssumption DEF GoTo, At, TypeOK, Writers
  <1>2. CASE p \in Workers
    BY <1>2, StorageAssumption DEF GoTo, At, TypeOK, Writers
  <1> QED
    BY <1>1, <1>2 DEF Writers

LEMMA WritesFile ==
    ASSUME Inv, NEW p \in Writers, At(p).pc = "writing"
    PROVE  At(p).file \in Files
  <1>1. CASE p \in Clients
    BY <1>1 DEF At, Inv, ClientHolds
  <1>2. CASE p \notin Clients
    BY <1>2 DEF At, Writers, Inv, WorkerHolds, HoldsJob
  <1> QED
    BY <1>1, <1>2

(* A look, and the beginning and the end of a write: what has been relied  *)
(* upon stays, and the file is kept once the step leads past the write.    *)
LEMMA WriteDisk ==
    ASSUME Inv, NEW p \in Writers, NEW f \in Files, At(p).file = f, Write(p)
    PROVE  /\ DiskKeeps /\ Written'
           /\ storage' \in [Files -> {Absent, Whole} \cup Writers]
           /\ cut' \subseteq Files /\ overlapped' \subseteq Files
           /\ \E pc \in {"write", "writing", IF p \in Clients THEN "insert" ELSE "commit"} :
                GoTo(p, pc) /\ (pc \in {"insert", "commit"} => Kept(f)')
  <1> DEFINE After == IF p \in Clients THEN "insert" ELSE "commit"
  <1> USE DEF Inv
  <1>1. /\ storage \in [Files -> {Absent, Whole} \cup Writers] /\ cut \subseteq Files
        /\ overlapped \subseteq Files
    BY DEF TypeOK
  <1>2. After \in {"insert", "commit"}
    OBVIOUS
  <1>3. CASE Put(p)
    <2>1. PICK pc \in {"write", After} :
              GoTo(p, pc) /\ (pc # "write" => storage[f] # Absent)
      BY <1>3 DEF Put, Stored
    <2>2. /\ storage' = storage /\ cut' = cut /\ At(p).pc = "put"
          /\ overlapped' = IF storage[f] \in {Absent, Whole} THEN overlapped ELSE overlapped \cup {f}
      BY <1>3 DEF Put, NoteUnless
    <2>3. DiskKeeps
      BY <2>2 DEF DiskKeeps, Spoilt, Kept
    <2>4. pc # "writing" /\ At(p)'.pc = pc /\ \A q \in Writers : q # p => At(q)' = At(q)
      BY <1>2, <2>1, GoToMoves
    <2>5. Written'
      <3>1. ASSUME NEW q \in Writers, At(q)'.pc = "writing"
            PROVE  storage'[At(q)'.file] # Absent /\ (Spoilt(At(q).file)' \/ storage'[At(q)'.file] = q)
        BY <2>2, <2>4, <3>1 DEF Written, Spoilt
      <3>2. ASSUME NEW g \in Files, storage'[g] \in Writers PROVE g \in cut' \/ Writes(storage[g], g)'
        BY <2>2, <2>4, <3>2 DEF Written, Writes
      <3> QED
        BY <3>1, <3>2 DEF Written
    <2>6. pc \in {"insert", "commit"} => Kept(f)'
      BY <1>1, <2>1, <2>2 DEF Kept, Spoilt
    <2> QED
      BY <1>1, <2>1, <2>2, <2>3, <2>5, <2>6
  <1>4. CASE BeginWrite(p)
    <2>1. /\ storage' = [storage EXCEPT ![f] = p] /\ cut' = cut /\ GoTo(p, "writing")
          /\ overlapped' = IF storage[f] = Absent THEN overlapped ELSE overlapped \cup {f}
      BY <1>4 DEF BeginWrite, NoteUnless
    <2>2. \A g \in Files : storage'[g] = IF g = f THEN p ELSE storage[g]
      BY <1>1, <2>1
    <2>3. p # Absent
      BY StorageAssumption
    <2>4. DiskKeeps
      BY <2>1, <2>2, <2>3 DEF DiskKeeps, Spoilt, Kept
    <2>5. At(p)'.pc = "writing" /\ At(p)'.file = f /\ \A q \in Writers : q # p => At(q)' = At(q)
      BY <2>1, GoToMoves
    <2>6. Written'
      <3>1. ASSUME NEW q \in Writers, At(q)'.pc = "writing"
            PROVE  storage'[At(q)'.file] # Absent /\ (Spoilt(At(q).file)' \/ storage'[At(q)'.file] = q)
        <4>1. CASE q = p
          BY <2>2, <2>3, <2>5, <4>1
        <4>2. CASE q # p
          <5>1. At(q)' = At(q) /\ storage[At(q).file] # Absent
                /\ (Spoilt(At(q).file) \/ storage[At(q).file] = q)
            BY <2>5, <3>1, <4>2 DEF Written
          <5>2. CASE At(q).file = f
            BY <2>1, <2>2, <2>3, <5>1, <5>2 DEF Spoilt
          <5>3. CASE At(q).file # f
            BY <2>1, <5>1, <5>3 DEF Spoilt
          <5> QED
            BY <5>2, <5>3
        <4> QED
          BY <4>1, <4>2
      <3>2. ASSUME NEW g \in Files, storage'[g] \in Writers PROVE g \in cut' \/ Writes(storage[g], g)'
        <4>1. CASE g = f
          BY <2>2, <2>5, <4>1 DEF Writes
        <4>2. CASE g # f
          <5>1. storage'[g] = storage[g]
            BY <2>2, <4>2
          <5>2. g \in cut \/ (At(storage[g]).pc = "writing" /\ At(storage[g]).file = g)
            BY <3>2, <5>1 DEF Written, Writes
          <5>3. storage[g] # p \/ g \in cut
            BY <4>2, <5>2
          <5> QED
            BY <2>1, <2>5, <3>2, <5>1, <5>2, <5>3 DEF Writes
        <4> QED
          BY <4>1, <4>2
      <3> QED
        BY <3>1, <3>2 DEF Written
    <2> QED
      BY <1>1, <2>1, <2>4, <2>6
  <1>5. CASE EndWrite(p)
    <2>1. /\ At(p).pc = "writing" /\ cut' = cut /\ overlapped' = overlapped /\ GoTo(p, After)
          /\ storage' = [storage EXCEPT ![f] = Whole] \/ (storage[f] # p /\ storage' = storage)
      BY <1>5 DEF EndWrite, Stored
    <2>2. \A g \in Files : g # f => storage'[g] = storage[g]
      BY <1>1, <2>1
    <2>3. storage'[f] = Whole \/ (storage'[f] = storage[f] /\ storage[f] # p)
      BY <1>1, <2>1
    <2>4. storage[f] # Absent /\ (Spoilt(f) \/ storage[f] = p) /\ Whole # Absent
      BY <2>1, StorageAssumption DEF Written
    <2>5. \A g \in Files : Spoilt(g)' <=> Spoilt(g)
      BY <2>1 DEF Spoilt
    <2>6. DiskKeeps /\ Kept(f)'
      BY <2>1, <2>2, <2>3, <2>4, <2>5 DEF DiskKeeps, Spoilt, Kept
    <2>7. At(p)'.pc = After /\ \A q \in Writers : q # p => At(q)' = At(q)
      BY <2>1, GoToMoves
    <2>8. Written'
      <3>1. ASSUME NEW q \in Writers, At(q)'.pc = "writing"
            PROVE  storage'[At(q)'.file] # Absent /\ (Spoilt(At(q).file)' \/ storage'[At(q)'.file] = q)
        <4>1. q # p /\ At(q)' = At(q) /\ storage[At(q).file] # Absent
                /\ (Spoilt(At(q).file) \/ storage[At(q).file] = q)
          BY <1>2, <2>7, <3>1 DEF Written
        <4>2. CASE At(q).file = f
          BY <2>1, <2>3, <2>4, <4>1, <4>2 DEF Spoilt
        <4>3. CASE At(q).file # f
          <5>1. At(q).file \in Files
            BY <3>1, <4>1, WritesFile
          <5> QED
            BY <2>1, <2>2, <4>1, <4>3, <5>1 DEF Spoilt
        <4> QED
          BY <4>2, <4>3
      <3>2. ASSUME NEW g \in Files, storage'[g] \in Writers PROVE g \in cut' \/ Writes(storage[g], g)'
        <4>1. Whole \notin Writers
          BY StorageAssumption
        <4>2. storage'[g] = storage[g] /\ (g = f => storage[g] # p)
          BY <2>2, <2>3, <3>2, <4>1
        <4>3. g \in cut \/ (At(storage[g]).pc = "writing" /\ At(storage[g]).file = g)
          BY <3>2, <4>2 DEF Written, Writes
        <4>4. g \in cut \/ storage[g] # p
          BY <4>2, <4>3
        <4> QED
          BY <2>1, <2>7, <3>2, <4>2, <4>3, <4>4 DEF Writes
      <3> QED
        BY <3>1, <3>2 DEF Written
    <2>9. storage' \in [Files -> {Absent, Whole} \cup Writers]
      BY <1>1, <2>1
    <2> QED
      BY <1>1, <2>1, <2>6, <2>8, <2>9
  <1> QED
    BY <1>3, <1>4, <1>5 DEF Write

(* Who stops is not writing any more, and may have left half a file.       *)
LEMMA CutDisk ==
    ASSUME Inv, NEW p \in Writers, CutShort(p), At(p)'.pc # "writing",
           \A q \in Writers : q # p => At(q)' = At(q)
    PROVE  /\ DiskKeeps /\ Written'
           /\ storage' \in [Files -> {Absent, Whole} \cup Writers]
           /\ cut' \subseteq Files /\ overlapped' \subseteq Files
  <1> USE DEF Inv
  <1>1. /\ storage' = storage /\ overlapped' = overlapped
        /\ cut' = cut \cup {f \in Files : Writes(p, f)}
    BY DEF CutShort
  <1>2. DiskKeeps
    BY <1>1 DEF DiskKeeps, Spoilt, Kept
  <1>3. ASSUME NEW q \in Writers, At(q)'.pc = "writing"
        PROVE  storage'[At(q)'.file] # Absent /\ (Spoilt(At(q).file)' \/ storage'[At(q)'.file] = q)
    BY <1>1, <1>3 DEF Written, Spoilt
  <1>4. ASSUME NEW g \in Files, storage'[g] \in Writers PROVE g \in cut' \/ Writes(storage[g], g)'
    <2>1. g \in cut \/ Writes(storage[g], g)
      BY <1>1, <1>4 DEF Written
    <2>2. CASE storage[g] = p
      BY <1>1, <2>1, <2>2
    <2>3. CASE storage[g] # p
      BY <1>1, <1>4, <2>1, <2>3 DEF Writes
    <2> QED
      BY <2>2, <2>3
  <1>5. Written'
    BY <1>3, <1>4 DEF Written
  <1> QED
    BY <1>1, <1>2, <1>5 DEF TypeOK

(* An upload looks, writes, or is given up.                                *)
LEMMA UploadSteps ==
    ASSUME Inv, NEW c \in Clients, Write(c) \/ Abort(c)
    PROVE  Inv'
  <1> USE DEF Inv
  <1>1. /\ c \in Writers /\ At(c) = client[c] /\ client[c] \in Request
        /\ jobs \subseteq Job /\ \A j \in jobs : Exists(j.asset)
        /\ \A a \in client[c].asset : Exists(a)
    BY DEF Writers, At, TypeOK, Owed, Request
  <1>2. UNCHANGED <<row, worker, sweep, jobs, announced, embed, embedding>>
    BY <1>1 DEF Write, Put, BeginWrite, EndWrite, Stored, GoTo, Abort
  <1>3. CASE Write(c)
    <2>1. client[c].pc \in {"put", "write", "writing"} /\ client[c].file \in Files
          /\ failures' = failures
      BY <1>1, <1>3 DEF Write, Put, BeginWrite, EndWrite, ClientHolds
    <2>2. PICK f \in Files : f = client[c].file
      BY <2>1
    <2>3. At(c).file = f
      BY <1>1, <2>2
    <2>4. PICK pc \in {"write", "writing", IF c \in Clients THEN "insert" ELSE "commit"} :
              GoTo(c, pc) /\ (pc \in {"insert", "commit"} => Kept(f)')
      BY <1>1, <1>3, <2>3, WriteDisk
    <2>5. /\ DiskKeeps /\ Written'
          /\ storage' \in [Files -> {Absent, Whole} \cup Writers]
          /\ cut' \subseteq Files /\ overlapped' \subseteq Files
      BY <1>1, <1>3, <2>3, WriteDisk
    <2>6. pc \in {"write", "writing", "insert"}
      BY <2>4
    <2>7. PICK r \in Request : r = [client[c] EXCEPT !.pc = pc]
      BY <1>1, <2>6 DEF Request
    <2>8. client' = [client EXCEPT ![c] = r]
      BY <1>1, <2>4, <2>7, GoToMoves
    <2>9. r.pc = pc /\ r.file = f /\ r.asset = client[c].asset
      BY <1>1, <2>2, <2>7 DEF Request
    <2>10. failures' \in 0 .. MaxFailures
      BY <2>1 DEF TypeOK
    <2> QED
      BY <1>1, <1>2, <2>4, <2>5, <2>6, <2>8, <2>9, <2>10, ClientMoves
  <1>4. CASE Abort(c)
    <2>1. IdleClient \in Request /\ IdleClient.pc = "idle" /\ IdleClient.asset = {}
      BY DEF IdleClient, Request
    <2>2. client' = [client EXCEPT ![c] = IdleClient] /\ CutShort(c)
      BY <1>4 DEF Abort
    <2>3. At(c)'.pc # "writing" /\ \A q \in Writers : q # c => At(q)' = At(q)
      BY <1>1, <1>2, <2>1, <2>2 DEF At, TypeOK
    <2>4. /\ DiskKeeps /\ Written'
          /\ storage' \in [Files -> {Absent, Whole} \cup Writers]
          /\ cut' \subseteq Files /\ overlapped' \subseteq Files
      BY <1>1, <2>2, <2>3, CutDisk
    <2>5. failures' \in 0 .. MaxFailures
      BY <1>4, BoundsAssumption DEF Abort, TypeOK
    <2> QED
      BY <1>1, <1>2, <2>1, <2>2, <2>4, <2>5, ClientMoves
  <1> QED
    BY <1>3, <1>4

-----------------------------------------------------------------------------
(* Rows, sweeping and embedding.                                           *)

(* What changes a row that exists without touching what is filed under it. *)
LEMMA MarkKeeps ==
    ASSUME Inv, NEW a \in Ids, Exists(a), NEW r \in Row, row' = [row EXCEPT ![a] = r],
           r.status # "none", r.hash = row[a].hash, r.key = row[a].key,
           UNCHANGED <<sweep, client, embed>>, DiskKeeps
    PROVE  /\ row' \in [Ids -> Row] /\ Filled' /\ ClientHolds' /\ Embeddable' /\ Addressed'
           /\ \A b \in Ids : Exists(b) => Exists(b)'
           /\ \A b \in Ids : row'[b].hash = row[b].hash
  <1> USE DEF Inv
  <1>1. \A b \in Ids : row'[b] = IF b = a THEN r ELSE row[b]
    BY DEF TypeOK
  <1>2. row' \in [Ids -> Row] /\ \A b \in Ids : Exists(b) => Exists(b)'
    BY <1>1 DEF TypeOK, Exists
  <1>3. \A b \in Ids : row'[b].hash = row[b].hash /\ row'[b].key = row[b].key
    BY <1>1
  <1>4. Filled'
    BY <1>1, <1>3 DEF Filled, Exists
  <1>5. ClientHolds'
    BY OthersKeep DEF ClientHolds, Kept, Spoilt
  <1>6. Embeddable'
    BY <1>3 DEF Embeddable, TypeOK
  <1>7. Addressed'
    BY <1>3, OthersKeep DEF Addressed, Kept, PartOf, Spoilt
  <1> QED
    BY <1>2, <1>3, <1>4, <1>5, <1>6, <1>7

LEMMA MarkSteps ==
    ASSUME Inv, NEW a \in Ids, Remove(a) \/ Check(a)
    PROVE  Inv'
  <1> USE DEF Inv
  <1>1. PICK r \in Row : /\ row' = [row EXCEPT ![a] = r]
                         /\ r.status # "none" /\ r.hash = row[a].hash /\ r.key = row[a].key
    <2>1. CASE Remove(a)
      <3> DEFINE r == [row[a] EXCEPT !.deleted = TRUE]
      <3>0. row[a] \in Row
        BY DEF TypeOK
      <3>1. r \in Row /\ r.status = row[a].status /\ r.hash = row[a].hash /\ r.key = row[a].key
        BY <3>0 DEF Row
      <3>2. row' = [row EXCEPT ![a] = r] /\ row[a].status # "none"
        BY <2>1 DEF Remove, Exists
      <3> QED
        BY <3>1, <3>2
    <2>2. CASE Check(a)
      <3> DEFINE r == [row[a] EXCEPT !.status = "analyzed"]
      <3>0. row[a] \in Row
        BY DEF TypeOK
      <3>1. r \in Row /\ r.status # "none" /\ r.hash = row[a].hash /\ r.key = row[a].key
        BY <3>0 DEF Row
      <3>2. row' = [row EXCEPT ![a] = r]
        BY <2>2 DEF Check
      <3> QED
        BY <3>1, <3>2
    <2> QED
      BY <2>1, <2>2
  <1>2. Exists(a) /\ UNCHANGED <<disk, client, jobs, worker, sweep, announced, embed, embedding, failures>>
    BY DEF Remove, Check
  <1>3. DiskKeeps /\ Written'
    BY <1>2, DiskStill DEF At
  <1>4. /\ row' \in [Ids -> Row] /\ Filled' /\ ClientHolds' /\ Embeddable' /\ Addressed'
        /\ \A b \in Ids : Exists(b) => Exists(b)'
        /\ \A b \in Ids : row'[b].hash = row[b].hash
    BY <1>1, <1>2, <1>3, MarkKeeps
  <1>5. TypeOK'
    BY <1>2, <1>4 DEF TypeOK, disk
  <1>6. Owed'
    BY <1>2, <1>4 DEF Owed, TypeOK, Job
  <1>7. WorkerHolds'
    <2>1. ASSUME NEW w \in Workers, NEW j \in Job, HoldsJob(w, j) PROVE HoldsJob(w, j)'
      BY <2>1, <1>2, <1>3, <1>4, OthersKeep DEF HoldsJob, Job
    <2> QED
      BY <2>1, <1>2 DEF WorkerHolds
  <1> QED
    BY <1>3, <1>4, <1>5, <1>6, <1>7

LEMMA SweepSteps ==
    ASSUME Inv, NEW a \in Ids, Sweep(a) \/ Embed(a)
    PROVE  Inv'
  <1> USE DEF Inv
  <1>1. UNCHANGED <<row, disk, client, worker, announced, failures>>
    BY DEF Sweep, SweepRead, SweepSend, Embed
  <1>2. storage' = storage /\ cut' = cut /\ overlapped' = overlapped
    BY <1>1 DEF disk
  <1>3. Written'
    BY <1>1, DiskStill DEF At
  <1>4. Filled' /\ ClientHolds' /\ WorkerHolds' /\ Addressed'
    BY <1>1, <1>2 DEF Filled, ClientHolds, WorkerHolds, HoldsJob, Addressed, Kept, PartOf, Spoilt, Exists
  <1>5. TypeOK' /\ Owed' /\ Embeddable'
    <2>1. CASE SweepRead(a)
      BY <1>1, <1>2, <2>1 DEF SweepRead, TypeOK, Owed, Embeddable, Exists
    <2>2. CASE SweepSend(a)
      <3> DEFINE j == [asset |-> a, url |-> FALSE, tries |-> 0]
      <3>1. j \in Job /\ Exists(j.asset) /\ jobs' = jobs \cup {j}
        BY <2>2, BoundsAssumption DEF SweepSend, Job, Owed
      <3> HIDE DEF j
      <3> QED
        BY <1>1, <1>2, <2>2, <3>1 DEF SweepSend, TypeOK, Owed, Embeddable, Exists
    <2>3. CASE Embed(a)
      <3>1. embedding' \in [Ids -> Bytes \cup {NoFile}]
        BY <2>3 DEF Embed, Embeddable, TypeOK
      <3> QED
        BY <1>1, <1>2, <2>3, <3>1 DEF Embed, TypeOK, Owed, Embeddable, Exists
    <2> QED
      BY <2>1, <2>2, <2>3 DEF Sweep
  <1> QED
    BY <1>3, <1>4, <1>5

-----------------------------------------------------------------------------
(* The executions.                                                         *)

LEMMA NowIsHeld ==
    ASSUME NEW w, NEW j, HoldsJob(w, j)
    PROVE  Now(w) = j
  BY DEF HoldsJob, Now

(* A step that only moves one execution on.                                *)
LEMMA MoveKeeps ==
    ASSUME Inv, NEW w \in Workers, NEW e \in Execution, worker' = [worker EXCEPT ![w] = e],
           storage' \in [Files -> {Absent, Whole} \cup Writers],
           cut' \subseteq Files, overlapped' \subseteq Files, DiskKeeps, Written',
           NEW j \in Job, e.pc # "idle" => HoldsJob(w, j)',
           UNCHANGED <<row, client, sweep, announced, embedding>>,
           jobs' \subseteq Job, \A i \in jobs' : Exists(i.asset),
           embed' \subseteq Ids, \A a \in embed' : row[a].hash \in Bytes,
           failures' \in 0 .. MaxFailures
    PROVE  Inv'
  <1> USE DEF Inv
  <1>1. TypeOK'
    BY DEF TypeOK, Execution, Working
  <1>2. Filled' /\ Owed' /\ Embeddable'
    BY DEF Filled, Owed, Embeddable, Exists
  <1>3. ClientHolds' /\ Addressed'
    BY OthersKeep DEF ClientHolds, Addressed, Kept, PartOf, Spoilt
  <1>4. WorkerHolds'
    <2> SUFFICES ASSUME NEW v \in Workers, worker'[v].pc # "idle"
                 PROVE  \E i \in Job : HoldsJob(v, i)'
      BY DEF WorkerHolds
    <2>1. CASE v = w
      BY <2>1 DEF TypeOK
    <2>2. CASE v # w
      <3>1. worker'[v] = worker[v]
        BY <2>2 DEF TypeOK
      <3>2. PICK i \in Job : HoldsJob(v, i)
        BY <3>1 DEF WorkerHolds
      <3>3. HoldsJob(v, i)'
        BY <3>1, <3>2, OthersKeep DEF HoldsJob, Exists
      <3> QED
        BY <3>3
    <2> QED
      BY <2>1, <2>2
  <1> QED
    BY <1>1, <1>2, <1>3, <1>4

(* One that neither writes nor has written.                                *)
LEMMA QuietDisk ==
    ASSUME Inv, NEW w \in Workers, NEW e \in Execution, worker' = [worker EXCEPT ![w] = e],
           worker[w].pc # "writing", e.pc # "writing", UNCHANGED <<client, disk>>
    PROVE  /\ DiskKeeps /\ Written'
           /\ storage' \in [Files -> {Absent, Whole} \cup Writers]
           /\ cut' \subseteq Files /\ overlapped' \subseteq Files
  <1>1. worker' = [worker EXCEPT ![w] = e] /\ worker'[w] = e /\ \A v \in Workers : v # w => worker'[v] = worker[v]
    BY DEF Inv, TypeOK
  <1>2. w \notin Clients
    BY StorageAssumption
  <1>3. \A p \in Writers : At(p).pc = "writing" \/ At(p)'.pc = "writing" => At(p)' = At(p)
    BY <1>1, <1>2 DEF At, Writers
  <1> QED
    BY <1>3, DiskStill DEF Inv, TypeOK, disk

LEMMA TakeKeeps ==
    ASSUME Inv, NEW w \in Workers, NEW j \in jobs, Take(w, j)
    PROVE  Inv'
  <1> USE DEF Inv
  <1>1. j \in Job /\ Exists(j.asset) /\ j.asset \in Ids
    BY DEF TypeOK, Owed, Job
  <1>2. UNCHANGED <<row, disk, client, sweep, announced, embed, embedding, failures>>
        /\ jobs' = jobs \ {j} /\ worker[w].pc = "idle"
    BY DEF Take
  <1>3. CASE row[j.asset].status \in {"uploading", "failed"}
    <2>1. PICK e \in Execution :
              e = [pc |-> "fetch", job |-> {j}, key |-> row[j.asset].key, file |-> NoFile]
      BY <1>1 DEF Execution, Working, TypeOK, Row
    <2>2. worker' = [worker EXCEPT ![w] = e]
      BY <1>3, <2>1 DEF Take
    <2>3. worker'[w] = e
      BY <2>2 DEF TypeOK
    <2>4. row[j.asset].key \in Keys
          /\ (row[j.asset].key \in Files => Kept(row[j.asset].key))
      BY <1>1 DEF Filled, Addressed
    <2>5. /\ DiskKeeps /\ Written'
          /\ storage' \in [Files -> {Absent, Whole} \cup Writers]
          /\ cut' \subseteq Files /\ overlapped' \subseteq Files
      BY <1>2, <2>1, <2>2, QuietDisk
    <2>6. HoldsJob(w, j)'
      BY <1>1, <1>2, <2>1, <2>3, <2>4, <2>5 DEF HoldsJob, Exists, DiskKeeps, Kept, Spoilt
    <2>7. jobs \subseteq Job /\ embed \subseteq Ids /\ failures \in 0 .. MaxFailures
      BY DEF TypeOK
    <2> QED
      BY <1>1, <1>2, <2>2, <2>5, <2>6, <2>7, MoveKeeps DEF Owed, Embeddable
  <1>4. CASE row[j.asset].status \notin {"uploading", "failed"}
    <2>1. UNCHANGED <<worker, storage, cut, overlapped>>
      BY <1>2, <1>4 DEF Take, disk
    <2>2. TypeOK' /\ Owed'
      BY <1>2, <2>1 DEF TypeOK, Owed, Exists
    <2>3. Written'
      BY <1>2, <2>1, DiskStill DEF At
    <2> QED
      BY <1>2, <2>1, <2>2, <2>3 DEF Filled, ClientHolds, WorkerHolds, HoldsJob, Embeddable,
                                    Addressed, Kept, PartOf, Spoilt, Exists
  <1> QED
    BY <1>3, <1>4

LEMMA FetchKeeps ==
    ASSUME Inv, NEW w \in Workers, Fetch(w)
    PROVE  Inv'
  <1> USE DEF Inv
  <1>1. PICK j \in Job : HoldsJob(w, j)
    BY DEF Fetch, WorkerHolds
  <1>2. Now(w) = j /\ j.url \in BOOLEAN /\ worker[w].pc = "fetch"
    BY <1>1, NowIsHeld DEF Fetch, Job
  <1>3. PICK bytes \in Contents(Source(w)) :
            worker' = [worker EXCEPT ![w].pc = IF j.url THEN "put" ELSE "commit", ![w].file = bytes]
    BY <1>2 DEF Fetch
  <1>4. worker[w].key \in Keys /\ (worker[w].key \in Files => Kept(worker[w].key))
    BY <1>1, <1>2 DEF HoldsJob
  <1>5. bytes \in Bytes /\ (j.url => bytes \in Files)
    BY <1>2, <1>4 DEF Contents, Source, Keys, Bytes
  <1>6. ~ j.url /\ worker[w].key \in Files => PartOf(bytes, worker[w].key)
    BY <1>2, <1>4, FilesAssumption DEF Contents, Source, PartOf, Kept
  <1>7. PICK e \in Execution :
            e = [worker[w] EXCEPT !.pc = IF j.url THEN "put" ELSE "commit", !.file = bytes]
    <2>1. worker[w] \in Execution
      BY DEF Execution, Working, TypeOK
    <2>2. (IF j.url THEN "put" ELSE "commit") \in Working
      BY DEF Working
    <2> QED
      BY <1>5, <2>1, <2>2 DEF Execution
  <1>8. worker' = [worker EXCEPT ![w] = e]
    BY <1>3, <1>7 DEF TypeOK
  <1>9. /\ e.pc = IF j.url THEN "put" ELSE "commit"
        /\ e.file = bytes /\ e.job = worker[w].job /\ e.key = worker[w].key
    BY <1>7 DEF TypeOK
  <1>10. worker'[w] = e
    BY <1>8 DEF TypeOK
  <1>11. UNCHANGED <<row, disk, client, jobs, sweep, announced, embed, embedding, failures>>
    BY DEF Fetch
  <1>12. /\ DiskKeeps /\ Written'
         /\ storage' \in [Files -> {Absent, Whole} \cup Writers]
         /\ cut' \subseteq Files /\ overlapped' \subseteq Files
    BY <1>2, <1>8, <1>9, <1>11, QuietDisk
  <1>13. HoldsJob(w, j)'
    BY <1>1, <1>2, <1>4, <1>5, <1>6, <1>9, <1>10, <1>11 DEF HoldsJob, Exists, Kept, PartOf, Spoilt, disk
  <1>14. jobs \subseteq Job /\ embed \subseteq Ids /\ failures \in 0 .. MaxFailures
    BY DEF TypeOK
  <1> QED
    BY <1>8, <1>11, <1>12, <1>13, <1>14, MoveKeeps DEF Owed, Embeddable

(* Looking for the file and writing it.                                    *)
LEMMA WriteKeeps ==
    ASSUME Inv, NEW w \in Workers, Write(w)
    PROVE  Inv'
  <1> USE DEF Inv
  <1>1. w \in Writers /\ w \notin Clients /\ At(w) = worker[w]
    BY StorageAssumption DEF Writers, At
  <1>2. worker[w].pc \in {"put", "write", "writing"}
        /\ UNCHANGED <<row, jobs, sweep, announced, embed, embedding, failures>>
    BY <1>1, StorageAssumption DEF Write, Put, BeginWrite, EndWrite
  <1>3. PICK j \in Job : HoldsJob(w, j)
    BY <1>2 DEF WorkerHolds
  <1>4. j.url /\ worker[w].file \in Files /\ worker[w].key \in Keys
    BY <1>2, <1>3 DEF HoldsJob
  <1>5. PICK f \in Files : f = worker[w].file
    BY <1>4
  <1>6. At(w).file = f
    BY <1>1, <1>5
  <1>7. PICK pc \in {"write", "writing", IF w \in Clients THEN "insert" ELSE "commit"} :
            GoTo(w, pc) /\ (pc \in {"insert", "commit"} => Kept(f)')
    BY <1>1, <1>6, WriteDisk
  <1>8. /\ DiskKeeps /\ Written'
        /\ storage' \in [Files -> {Absent, Whole} \cup Writers]
        /\ cut' \subseteq Files /\ overlapped' \subseteq Files
    BY <1>1, <1>6, WriteDisk
  <1>9. pc \in {"write", "writing", "commit"}
    BY <1>1, <1>7
  <1>10. PICK e \in Execution : e = [worker[w] EXCEPT !.pc = pc]
    <2>1. worker[w] \in Execution
      BY DEF Execution, Working, TypeOK
    <2>2. pc \in Working
      BY <1>9 DEF Working
    <2> QED
      BY <2>1, <2>2 DEF Execution
  <1>11. worker' = [worker EXCEPT ![w] = e] /\ client' = client
    BY <1>1, <1>7, <1>10, GoToMoves
  <1>12. e.pc = pc /\ e.file = f /\ e.job = worker[w].job /\ e.key = worker[w].key /\ worker'[w] = e
    BY <1>5, <1>10, <1>11 DEF TypeOK
  <1>13. worker[w].key \in Files => Kept(worker[w].key)
    BY <1>3 DEF HoldsJob
  <1>14. HoldsJob(w, j)'
    <2>1. e.key \in Files => storage'[e.key] # Absent /\ (e.key \in cut' \cup overlapped' \/ storage'[e.key] = Whole)
      BY <1>8, <1>12, <1>13 DEF DiskKeeps, Kept, Spoilt
    <2>2. pc = "commit" => storage'[f] # Absent /\ (f \in cut' \cup overlapped' \/ storage'[f] = Whole)
      BY <1>7 DEF Kept, Spoilt
    <2> QED
      BY <1>2, <1>3, <1>4, <1>9, <1>12, <2>1, <2>2 DEF HoldsJob, Exists, Kept, Spoilt
  <1>15. jobs \subseteq Job /\ embed \subseteq Ids /\ failures \in 0 .. MaxFailures
    BY DEF TypeOK
  <1> QED
    BY <1>2, <1>8, <1>11, <1>14, <1>15, MoveKeeps DEF Owed, Embeddable

LEMMA SendEmbedKeeps ==
    ASSUME Inv, NEW w \in Workers, SendEmbed(w)
    PROVE  Inv'
  <1> USE DEF Inv
  <1>1. PICK j \in Job : HoldsJob(w, j)
    BY DEF SendEmbed, WorkerHolds
  <1>2. Now(w) = j /\ j.asset \in Ids /\ row[j.asset].hash \in Bytes /\ worker[w].pc = "embed"
    BY <1>1, NowIsHeld DEF HoldsJob, SendEmbed, Job
  <1>3. IdleWorker \in Execution /\ IdleWorker.pc = "idle"
    BY DEF IdleWorker, Execution, Working
  <1>4. worker' = [worker EXCEPT ![w] = IdleWorker] /\ embed' = embed \cup {j.asset}
    BY <1>2 DEF SendEmbed, Idle
  <1>5. UNCHANGED <<row, disk, client, jobs, sweep, announced, embedding, failures>>
    BY DEF SendEmbed
  <1>6. jobs \subseteq Job /\ embed' \subseteq Ids /\ failures \in 0 .. MaxFailures
    BY <1>2, <1>4 DEF TypeOK
  <1>7. /\ DiskKeeps /\ Written'
        /\ storage' \in [Files -> {Absent, Whole} \cup Writers]
        /\ cut' \subseteq Files /\ overlapped' \subseteq Files
    BY <1>2, <1>3, <1>4, <1>5, QuietDisk
  <1> QED
    BY <1>2, <1>3, <1>4, <1>5, <1>6, <1>7, MoveKeeps DEF Owed, Embeddable

(* Jobs that are put back are as good as the one that was taken.           *)
LEMMA RetryKeeps ==
    ASSUME Inv, NEW w \in Workers, NEW j \in Job, HoldsJob(w, j), Retry(w)
    PROVE  jobs' \subseteq Job /\ \A i \in jobs' : Exists(i.asset)
  <1>1. jobs' = jobs \cup {[i EXCEPT !.tries = @ + 1] :
                                i \in {k \in {j} : k.tries < MaxRetries}}
    BY DEF Retry, HoldsJob
  <1>2. ASSUME j.tries < MaxRetries
        PROVE  [j EXCEPT !.tries = @ + 1] \in Job /\ [j EXCEPT !.tries = @ + 1].asset = j.asset
    <2>1. j.tries + 1 \in 0 .. MaxRetries
      BY <1>2, BoundsAssumption DEF Job
    <2> QED
      BY <2>1 DEF Job
  <1>3. Exists(j.asset) /\ jobs \subseteq Job /\ \A i \in jobs : Exists(i.asset)
    BY DEF HoldsJob, Inv, TypeOK, Owed
  <1> QED
    BY <1>1, <1>2, <1>3

(* An execution that stops, in the middle of a write or elsewhere.         *)
LEMMA StopDisk ==
    ASSUME Inv, NEW w \in Workers, CutShort(w), Idle(w), UNCHANGED client
    PROVE  /\ IdleWorker \in Execution /\ IdleWorker.pc = "idle"
           /\ worker' = [worker EXCEPT ![w] = IdleWorker]
           /\ DiskKeeps /\ Written'
           /\ storage' \in [Files -> {Absent, Whole} \cup Writers]
           /\ cut' \subseteq Files /\ overlapped' \subseteq Files
  <1>1. IdleWorker \in Execution /\ IdleWorker.pc = "idle"
    BY DEF IdleWorker, Execution, Working
  <1>2. worker' = [worker EXCEPT ![w] = IdleWorker]
    BY DEF Idle
  <1>3. worker'[w] = IdleWorker /\ \A v \in Workers : v # w => worker'[v] = worker[v]
    BY <1>2 DEF Inv, TypeOK
  <1>4. w \in Writers /\ At(w)'.pc # "writing" /\ \A q \in Writers : q # w => At(q)' = At(q)
    BY <1>1, <1>3, StorageAssumption DEF At, Writers
  <1> QED
    BY <1>1, <1>2, <1>4, CutDisk

LEMMA KillKeeps ==
    ASSUME Inv, NEW w \in Workers, Kill(w)
    PROVE  Inv'
  <1> USE DEF Inv
  <1>1. PICK j \in Job : HoldsJob(w, j)
    BY DEF Kill, WorkerHolds
  <1>2. jobs' \subseteq Job /\ \A i \in jobs' : Exists(i.asset)
    BY <1>1, RetryKeeps DEF Kill
  <1>3. /\ IdleWorker \in Execution /\ IdleWorker.pc = "idle"
        /\ worker' = [worker EXCEPT ![w] = IdleWorker]
        /\ DiskKeeps /\ Written'
        /\ storage' \in [Files -> {Absent, Whole} \cup Writers]
        /\ cut' \subseteq Files /\ overlapped' \subseteq Files
    BY StopDisk DEF Kill
  <1>4. failures' \in 0 .. MaxFailures
    BY BoundsAssumption DEF Kill, TypeOK
  <1>5. embed \subseteq Ids
    BY DEF TypeOK
  <1> QED
    BY <1>1, <1>2, <1>3, <1>4, <1>5, MoveKeeps DEF Kill, Embeddable

(* A failure marks the row and leaves its hash and key.                    *)
LEMMA FailKeeps ==
    ASSUME Inv, NEW w \in Workers, Fail(w)
    PROVE  Inv'
  <1> USE DEF Inv
  <1>1. PICK j \in Job : HoldsJob(w, j)
    BY DEF Fail, WorkerHolds
  <1>2. Now(w) = j /\ j.asset \in Ids /\ Exists(j.asset)
    BY <1>1, NowIsHeld DEF HoldsJob, Job
  <1>3. PICK r \in Row : r = [row[j.asset] EXCEPT !.status = "failed"]
    <2>1. row[j.asset] \in Row
      BY <1>2 DEF TypeOK
    <2> QED
      BY <2>1 DEF Row
  <1>4. /\ row' = [row EXCEPT ![j.asset] = r] /\ r.status # "none"
        /\ r.hash = row[j.asset].hash /\ r.key = row[j.asset].key
    <2>1. row[j.asset] \in Row
      BY <1>2 DEF TypeOK
    <2> QED
      BY <1>2, <1>3, <2>1 DEF Fail, Row
  <1>5. UNCHANGED <<client, sweep, announced, embed, embedding>>
    BY DEF Fail
  <1>6. /\ IdleWorker \in Execution /\ IdleWorker.pc = "idle"
        /\ worker' = [worker EXCEPT ![w] = IdleWorker]
        /\ DiskKeeps /\ Written'
        /\ storage' \in [Files -> {Absent, Whole} \cup Writers]
        /\ cut' \subseteq Files /\ overlapped' \subseteq Files
    BY StopDisk DEF Fail
  <1>7. /\ row' \in [Ids -> Row] /\ Filled' /\ ClientHolds' /\ Embeddable' /\ Addressed'
        /\ \A b \in Ids : Exists(b) => Exists(b)'
        /\ \A b \in Ids : row'[b].hash = row[b].hash
    BY <1>2, <1>4, <1>5, <1>6, MarkKeeps
  <1>8. jobs' \subseteq Job /\ \A i \in jobs' : Exists(i.asset)
    BY <1>1, RetryKeeps DEF Fail
  <1>9. failures' \in 0 .. MaxFailures
    BY BoundsAssumption DEF Fail, TypeOK
  <1>10. TypeOK'
    BY <1>5, <1>6, <1>7, <1>8, <1>9 DEF TypeOK, Execution, Working
  <1>11. Owed'
    BY <1>5, <1>7, <1>8 DEF Owed, TypeOK, Job
  <1>12. WorkerHolds'
    <2> SUFFICES ASSUME NEW v \in Workers, worker'[v].pc # "idle"
                 PROVE  \E i \in Job : HoldsJob(v, i)'
      BY DEF WorkerHolds
    <2>1. v # w /\ worker'[v] = worker[v]
      BY <1>6 DEF TypeOK
    <2>2. PICK i \in Job : HoldsJob(v, i)
      BY <2>1 DEF WorkerHolds
    <2>3. HoldsJob(v, i)'
      BY <1>6, <1>7, <2>1, <2>2, OthersKeep DEF HoldsJob, Job
    <2> QED
      BY <2>3
  <1> QED
    BY <1>6, <1>7, <1>10, <1>11, <1>12

(* What is committed: the hash of what was fetched, under its own address  *)
(* if it came from a URL, and otherwise under the key it was read from.    *)
LEMMA CommitKeeps ==
    ASSUME Inv, NEW w \in Workers, Commit(w)
    PROVE  Inv'
  <1> USE DEF Inv
  <1>1. PICK j \in Job : HoldsJob(w, j)
    BY DEF Commit, WorkerHolds
  <1>2. Now(w) = j /\ j.asset \in Ids /\ Exists(j.asset) /\ j.url \in BOOLEAN
        /\ worker[w].pc = "commit"
    BY <1>1, NowIsHeld DEF HoldsJob, Job, Commit
  <1>3. PICK file \in Bytes, key \in Keys :
            /\ file = worker[w].file /\ key = IF j.url THEN file ELSE worker[w].key
            /\ key \in Files => Kept(key) /\ PartOf(file, key)
    BY <1>1, <1>2 DEF HoldsJob, Keys, Bytes, PartOf
  <1>4. PICK r \in Row : r = [row[j.asset] EXCEPT !.status = "ingested", !.hash = file, !.key = key]
    <2>1. row[j.asset] \in Row
      BY <1>2 DEF TypeOK
    <2> QED
      BY <1>3, <2>1 DEF Row, Hashes
  <1>5. /\ r.status = "ingested" /\ r.hash = file /\ r.key = key
        /\ row' = [row EXCEPT ![j.asset] = r]
    <2>1. row[j.asset] \in Row
      BY <1>2 DEF TypeOK
    <2>2. r.status = "ingested" /\ r.hash = file /\ r.key = key
      BY <1>4, <2>1 DEF Row
    <2>3. row' = [row EXCEPT ![j.asset] = r]
      BY <1>2, <1>3, <1>4 DEF Commit
    <2> QED
      BY <2>2, <2>3
  <1>6. PICK e \in Execution :
            e = [worker[w] EXCEPT !.pc = "embed", !.key = NoFile, !.file = NoFile]
    <2>1. worker[w] \in Execution
      BY DEF Execution, Working, TypeOK
    <2> QED
      BY <2>1 DEF Execution, Working
  <1>7. e.pc = "embed" /\ e.job = worker[w].job /\ e.key = NoFile
        /\ worker' = [worker EXCEPT ![w] = e]
    BY <1>6 DEF TypeOK, Commit
  <1>8. announced' \subseteq Ids
    BY <1>2 DEF Commit, TypeOK
  <1>9. UNCHANGED <<disk, client, jobs, sweep, embed, embedding, failures>>
    BY DEF Commit
  <1>10. /\ DiskKeeps /\ Written'
         /\ storage' \in [Files -> {Absent, Whole} \cup Writers]
         /\ cut' \subseteq Files /\ overlapped' \subseteq Files
    BY <1>2, <1>7, <1>9, QuietDisk
  <1>11. \A b \in Ids : row'[b] = IF b = j.asset THEN r ELSE row[b]
    BY <1>5 DEF TypeOK
  <1>12. \A b \in Ids : /\ Exists(b) => Exists(b)'
                        /\ row[b].hash \in Bytes => row'[b].hash \in Bytes
    BY <1>3, <1>5, <1>11 DEF Exists
  <1>13. TypeOK'
    BY <1>5, <1>7, <1>8, <1>9, <1>10 DEF TypeOK, Execution, Working
  <1>14. Filled'
    BY <1>3, <1>5, <1>11 DEF Filled, Exists, Hashes
  <1>15. Owed' /\ Embeddable'
    BY <1>9, <1>12 DEF Owed, Embeddable, TypeOK, Job
  <1>16. ClientHolds'
    BY <1>9, <1>10, OthersKeep DEF ClientHolds, Kept, Spoilt
  <1>17. Addressed'
    <2> SUFFICES ASSUME NEW b \in Ids, row'[b].key \in Files
                 PROVE  Kept(row[b].key)' /\ PartOf(row[b].hash, row[b].key)'
      BY DEF Addressed
    <2>1. CASE b = j.asset
      BY <1>3, <1>5, <1>9, <1>11, <2>1 DEF disk, Kept, PartOf, Spoilt
    <2>2. CASE b # j.asset
      BY <1>10, <1>11, <2>2, OthersKeep DEF Kept, PartOf, Spoilt
    <2> QED
      BY <2>1, <2>2
  <1>18. WorkerHolds'
    <2> SUFFICES ASSUME NEW v \in Workers, worker'[v].pc # "idle"
                 PROVE  \E i \in Job : HoldsJob(v, i)'
      BY DEF WorkerHolds
    <2>1. CASE v = w
      <3>1. worker'[w] = e /\ row'[j.asset].hash = file /\ Exists(j.asset)'
        BY <1>2, <1>5, <1>7, <1>11, <1>12 DEF TypeOK
      <3>2. HoldsJob(w, j)'
        BY <1>1, <1>3, <1>7, <3>1, FilesAssumption DEF HoldsJob
      <3> QED
        BY <2>1, <3>2
    <2>2. CASE v # w
      <3>1. worker'[v] = worker[v]
        BY <1>7, <2>2 DEF TypeOK
      <3>2. PICK i \in Job : HoldsJob(v, i)
        BY <3>1 DEF WorkerHolds
      <3>3. HoldsJob(v, i)'
        BY <1>10, <1>12, <3>1, <3>2, OthersKeep DEF HoldsJob, Job
      <3> QED
        BY <3>3
    <2> QED
      BY <2>1, <2>2
  <1> QED
    BY <1>10, <1>13, <1>14, <1>15, <1>16, <1>17, <1>18

LEMMA StepInv == Inv /\ [Next]_vars => Inv'
  <1> SUFFICES ASSUME Inv, [Next]_vars PROVE Inv'
    OBVIOUS
  <1>1. ASSUME NEW w \in Workers, Work(w) \/ Fail(w) \/ Kill(w) PROVE Inv'
    BY <1>1, TakeKeeps, FetchKeeps, WriteKeeps, CommitKeeps, SendEmbedKeeps, FailKeeps, KillKeeps
    DEF Work
  <1>2. CASE UNCHANGED vars
    <2>1. Written'
      BY <1>2, DiskStill DEF vars, At
    <2> QED
      BY <1>2, <2>1 DEF vars, disk, Inv, TypeOK, Filled, Owed, ClientHolds, WorkerHolds, HoldsJob,
                        Embeddable, Addressed, Kept, PartOf, Spoilt, Exists
  <1> QED
    BY <1>1, <1>2, ClientSteps, UploadSteps, InsertSteps, MarkSteps, SweepSteps DEF Next

-----------------------------------------------------------------------------
(* The tables keep their types; what an asset is embedded under is the     *)
(* hash of bytes that were read, never the one made from a URL.            *)
THEOREM TypeCorrect == Spec => []TypeOK
  <1>1. Inv => TypeOK
    BY DEF Inv
  <1> QED
    BY <1>1, InitInv, StepInv, PTL DEF Spec

(* A content address tells the hash of the file that is kept there         *)
(* (ingestAsset, putContentAddressed), whatever the URL serves and however *)
(* executions fail, as long as no write of the file is cut short or        *)
(* overlaps another look or write; if one does, the hash may be that of a  *)
(* part of the file, and if one is cut short, a part is what may stay.     *)
THEOREM AddressesAreTrue == Spec => []ContentAddressed
  <1> QED
    BY InvAddresses, InitInv, StepInv, PTL DEF Spec
=============================================================================
