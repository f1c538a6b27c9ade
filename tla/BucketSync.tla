------------------------------ MODULE BucketSync ------------------------------
(***************************************************************************)
(* Whole-file transfers between database directories and one bucket        *)
(* (src/storage/bucket.rs: upload_from_local, download_to_local and        *)
(* sync_with_local; push_to_bucket and sync_with_bucket of mod.rs).  A     *)
(* copy is [ver, at]: which edit's contents it holds and its modification  *)
(* time.  A transfer keeps the contents and takes the time of the writing  *)
(* side.  Every listing, upload and download is a step of its own; edits   *)
(* and transfers of other sites come in between, and any request may fail  *)
(* and end the call.                                                       *)
(***************************************************************************)
EXTENDS Integers

CONSTANTS
    Sites,          \* local database directories
    DbFiles,        \* files under .aresadb, config.toml among them
    ConfigFile,
    Objects,        \* bucket keys outside .aresadb: payloads/<id>
    ReadonlySites,  \* sites whose BucketStorage is read-only
    MaxEdits, MaxTime

ASSUME SyncConstants ==
    /\ ConfigFile \in DbFiles /\ DbFiles \cap Objects = {}
    /\ ReadonlySites \subseteq Sites
    /\ MaxEdits \in Nat /\ MaxTime \in Nat

VARIABLES
    files,          \* site -> file -> copy
    objects,        \* bucket: file -> copy
    transfer,       \* site -> the call it runs
    clock,          \* time of day, which transfers and edits read
    edits           \* contents written so far; versions are 1 .. edits

syncVars == <<files, objects, transfer, clock, edits>>

Copy(v, t) == [ver |-> v, at |-> t]

(* The copies of one side after f was written. *)
Written(copies, f, copy) ==
    [x \in DOMAIN copies \cup {f} |-> IF x = f THEN copy ELSE copies[x]]

NoTransfer == [op |-> "none"]

SyncInit ==
    /\ files = [s \in Sites |-> [f \in {ConfigFile} |-> Copy(0, 0)]]
    /\ objects = <<>>
    /\ transfer = [s \in Sites |-> NoTransfer]
    /\ clock = 0
    /\ edits = 0

Times(copies) == [f \in DOMAIN copies |-> copies[f].at]

(* Other calls no longer run undisturbed. *)
OthersDisturbed(others) ==
    [s \in Sites |-> IF s \in others /\ transfer[s].op # "none"
                     THEN [transfer[s] EXCEPT !.calm = FALSE] ELSE transfer[s]]

PutObject(s, f, v) ==
    /\ objects' = Written(objects, f, Copy(v, clock))
    /\ transfer' = [OthersDisturbed(Sites \ {s}) EXCEPT ![s].todo = @ \ {f}]
    /\ UNCHANGED <<files, clock, edits>>

-------------------------------------------------------------------------------
(* The database, or tiered storage, writes a file or a payload object. *)
EditFile(s) == \E f \in DbFiles :
    /\ edits < MaxEdits
    /\ edits' = edits + 1
    /\ files' = [files EXCEPT ![s] = Written(@, f, Copy(edits + 1, clock))]
    /\ transfer' = OthersDisturbed({s})
    /\ UNCHANGED <<objects, clock>>

WriteObject == \E f \in Objects :
    /\ edits < MaxEdits
    /\ edits' = edits + 1
    /\ objects' = Written(objects, f, Copy(edits + 1, clock))
    /\ transfer' = OthersDisturbed(Sites)
    /\ UNCHANGED <<files, clock>>

TimePasses ==
    /\ clock < MaxTime
    /\ clock' = clock + 1
    /\ UNCHANGED <<files, objects, transfer, edits>>

-------------------------------------------------------------------------------
(* sync_with_local: both listings, and what follows from them. *)
ListRemote(s) ==
    /\ transfer[s].op = "none"
    /\ transfer' = [transfer EXCEPT ![s] =
          [op |-> "sync", pc |-> "walk", calm |-> TRUE, remote |-> Times(objects)]]
    /\ UNCHANGED <<files, objects, clock, edits>>

(* Mutant: a file the other side lacks is not transferred. *)
Newer_KnownOnly(here, there) ==
    {f \in DOMAIN here : f \in DOMAIN there /\ here[f] > there[f]}

Newer(here, there) == {f \in DOMAIN here : f \in DOMAIN there => here[f] > there[f]}

(* Only files under .aresadb are listed locally. *)
ListLocal(s) ==
    LET c == transfer[s]
        local == Times([f \in DOMAIN files[s] \cap DbFiles |-> files[s][f]]) IN
    /\ c.op = "sync" /\ c.pc = "walk"
    /\ transfer' = [transfer EXCEPT ![s] =
          [op |-> "sync", pc |-> "upload", calm |-> c.calm,
           local |-> local, remote |-> c.remote,
           todo |-> IF s \in ReadonlySites THEN {} ELSE Newer(local, c.remote)]]
    /\ UNCHANGED <<files, objects, clock, edits>>

(* push_to_bucket: the config object, then every file in the directory. *)
PushConfig(s) ==
    /\ transfer[s].op = "none"
    /\ s \notin ReadonlySites
    /\ objects' = Written(objects, ConfigFile, Copy(files[s][ConfigFile].ver, clock))
    /\ transfer' = [OthersDisturbed(Sites \ {s}) EXCEPT ![s] =
          [op |-> "push", pc |-> "upload", calm |-> TRUE,
           todo |-> DOMAIN files[s] \cap DbFiles]]
    /\ UNCHANGED <<files, clock, edits>>

UploadOne(s) ==
    /\ transfer[s].op # "none" /\ transfer[s].pc = "upload"
    /\ \E f \in transfer[s].todo : PutObject(s, f, files[s][f].ver)

UploadsDone(s) ==
    LET c == transfer[s] IN
    /\ c.op = "sync" /\ c.pc = "upload" /\ c.todo = {}
    /\ transfer' = [transfer EXCEPT ![s] =
          [c EXCEPT !.pc = "download", !.todo = Newer(c.remote, c.local)]]
    /\ UNCHANGED <<files, objects, clock, edits>>

(* push_to_bucket ends by writing the bucket's URL into the local config. *)
PushEnd(s) ==
    /\ transfer[s].op = "push" /\ transfer[s].todo = {}
    /\ edits < MaxEdits
    /\ edits' = edits + 1
    /\ files' = [files EXCEPT ![s] = Written(@, ConfigFile, Copy(edits + 1, clock))]
    /\ transfer' = [transfer EXCEPT ![s] = NoTransfer]
    /\ UNCHANGED <<objects, clock>>

(* download_to_local: every object there is. *)
ListAll(s) ==
    /\ transfer[s].op = "none"
    /\ transfer' = [transfer EXCEPT ![s] =
          [op |-> "fetch", pc |-> "download", calm |-> TRUE, todo |-> DOMAIN objects]]
    /\ UNCHANGED <<files, objects, clock, edits>>

DownloadOne(s) ==
    /\ transfer[s].op # "none" /\ transfer[s].pc = "download"
    /\ \E f \in transfer[s].todo :
          /\ files' = [files EXCEPT ![s] = Written(@, f, Copy(objects[f].ver, clock))]
          /\ transfer' = [transfer EXCEPT ![s].todo = @ \ {f}]
    /\ UNCHANGED <<objects, clock, edits>>

Returns(s) ==
    /\ transfer[s].op \in {"sync", "fetch"}
    /\ transfer[s].pc = "download" /\ transfer[s].todo = {}
    /\ transfer' = [transfer EXCEPT ![s] = NoTransfer]
    /\ UNCHANGED <<files, objects, clock, edits>>

RequestFails(s) ==
    /\ transfer[s].op # "none"
    /\ transfer' = [transfer EXCEPT ![s] = NoTransfer]
    /\ UNCHANGED <<files, objects, clock, edits>>

SyncNext ==
    \/ \E s \in Sites :
          \/ EditFile(s) \/ ListRemote(s) \/ ListLocal(s) \/ PushConfig(s)
          \/ UploadOne(s) \/ UploadsDone(s) \/ PushEnd(s) \/ ListAll(s)
          \/ DownloadOne(s) \/ Returns(s) \/ RequestFails(s)
    \/ WriteObject
    \/ TimePasses

SyncSpec == SyncInit /\ [][SyncNext]_syncVars

-------------------------------------------------------------------------------
Finished(s) == transfer[s].op # "none" /\ transfer[s].pc = "download"
                  /\ transfer[s].todo = {}

Contents(copies, f) == IF f \in DOMAIN copies THEN {copies[f].ver} ELSE {}

(* A sync no other site and no edit has disturbed leaves both sides with the
   same contents for every file, whichever was newer and in whatever order
   the files went, except where the two times listed were equal, so that
   neither copy counted as newer, or a read-only site has a file the bucket
   lacks or holds an older copy of.  An undisturbed download_to_local leaves
   the site with the contents of every object.                             *)
SyncConverges ==
    \A s \in Sites : Finished(s) /\ transfer[s].calm =>
        LET c == transfer[s] IN
        \A f \in DbFiles \cup Objects :
            \/ Contents(files[s], f) = Contents(objects, f)
            \/ c.op = "fetch" /\ f \notin DOMAIN objects
            \/ /\ c.op = "sync"
               /\ \/ f \in DOMAIN c.local \cap DOMAIN c.remote /\ c.local[f] = c.remote[f]
                  \/ s \in ReadonlySites /\ f \in Newer(c.local, c.remote)
===============================================================================
