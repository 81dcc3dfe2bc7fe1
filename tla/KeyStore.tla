------------------------------ MODULE KeyStore ------------------------------
(***************************************************************************)
(* The key files of the servers.  The identity server and the relay server *)
(* share a working directory; each loads id_ed25519 when it starts, or     *)
(* creates it, and keeps id_ed25519.pub in step with it.  Processes start  *)
(* together, are killed or stop with an I/O error at any step, and are     *)
(* started again; a power loss takes the directory entries that had not    *)
(* been synced.                                                            *)
(*                                                                         *)
(* A file gets its name by hard_link after its contents have been written  *)
(* and synced, so it is modelled by the key it holds; the temporary file   *)
(* has a name of its own and is left out.                                  *)
(***************************************************************************)
EXTENDS Naturals

CONSTANTS
  Procs,       \* the server processes
  Keys,        \* key pairs; a public key stands for its pair
  OldKeys,     \* the ones an operator or an earlier run may have left
  Attempts,    \* how often write_public_key tries to link
  MaxKills, MaxPowerLosses,  \* bounds on the faults
  None

ASSUME KeyNone == None \notin Keys /\ OldKeys \subseteq Keys
ASSUME SomeProc == Procs # {}
ASSUME KeyBounds == Attempts \in Nat \ {0} /\ MaxKills \in Nat /\ MaxPowerLosses \in Nat

VARIABLES
  secret, pub,         \* the key in id_ed25519 and in id_ed25519.pub
  secretDisk, pubDisk, \* what a power loss may leave of the two names
  pc, key, tries,      \* per process: step, secret key in hand, attempts left
  kills, losses,
  torn  \* history: a server was killed before it synced a link, and none has synced since

files == <<secret, pub, secretDisk, pubDisk>>
procs == <<pc, key, tries>>
faults == <<kills, losses, torn>>
vars == <<files, procs, faults>>

Opt(S) == S \cup {None}
Steps == {"down", "read", "create", "syncSecret", "reload", "checkPub", "link", "syncPub",
          "stat", "compare", "remove", "syncRemoved", "serving", "failed"}

TypeOK ==
  /\ secret \in Opt(Keys) /\ pub \in Opt(Keys)
  /\ secretDisk \in SUBSET Opt(Keys) /\ pubDisk \in SUBSET Opt(Keys)
  /\ pc \in [Procs -> Steps]
  /\ key \in [Procs -> Opt(Keys)]
  /\ tries \in [Procs -> 0..Attempts]
  /\ kills \in 0..MaxKills /\ losses \in 0..MaxPowerLosses /\ torn \in BOOLEAN

\* An empty directory, or what was left in it, matching or not.
Init ==
  /\ secret \in Opt(OldKeys) /\ pub \in Opt(OldKeys)
  /\ secretDisk = {secret} /\ pubDisk = {pub}
  /\ pc = [p \in Procs |-> "down"]
  /\ key = [p \in Procs |-> None]
  /\ tries = [p \in Procs |-> 0]
  /\ kills = 0 /\ losses = 0 /\ torn = FALSE

Goto(p, from, to) == pc[p] = from /\ pc' = [pc EXCEPT ![p] = to]

\* sync_parent_directory: both names are on the disk as they are now.
SyncParent ==
  /\ secretDisk' = {secret} /\ pubDisk' = {pub}
  /\ torn' = FALSE
  /\ UNCHANGED <<secret, pub, kills, losses>>

-----------------------------------------------------------------------------
(* load_or_create_keypair and create_secret_key_once.                      *)

\* get_server_sk; the relay server first waits 0.3 s for the file to appear.
Start(p) ==
  /\ Goto(p, "down", "read")
  /\ UNCHANGED <<files, key, tries, faults>>

\* A generated key differs from every other one.
Fresh == Keys \ ({secret, pub} \cup secretDisk \cup pubDisk \cup {key[p] : p \in Procs})

ReadSecret(p) ==
  /\ \/ secret # None /\ Goto(p, "read", "reload") /\ UNCHANGED key
     \/ /\ secret = None /\ Goto(p, "read", "create")
        /\ \E k \in Fresh : key' = [key EXCEPT ![p] = k]
  /\ UNCHANGED <<files, tries, faults>>

\* Mutant of LinkSecret: the file is renamed over whatever is there.
RenameSecret(p) ==
  /\ Goto(p, "create", "syncSecret")
  /\ secret' = key[p] /\ secretDisk' = secretDisk \cup {key[p]}
  /\ UNCHANGED <<pub, pubDisk, key, tries, faults>>

\* Mutant of LinkSecret: the directory is not synced.
LinkSecretUnsynced(p) ==
  /\ Goto(p, "create", "reload")
  /\ IF secret = None
     THEN secret' = key[p] /\ secretDisk' = secretDisk \cup {key[p]}
     ELSE UNCHANGED <<secret, secretDisk>>
  /\ UNCHANGED <<pub, pubDisk, key, tries, faults>>

\* hard_link gives the name to the first process only; the others go on with
\* the file that is there.
LinkSecret(p) ==
  /\ \/ /\ secret = None /\ Goto(p, "create", "syncSecret")
        /\ secret' = key[p] /\ secretDisk' = secretDisk \cup {key[p]}
     \/ /\ secret # None /\ Goto(p, "create", "reload")
        /\ UNCHANGED <<secret, secretDisk>>
  /\ UNCHANGED <<pub, pubDisk, key, tries, faults>>

SyncSecret(p) ==
  /\ Goto(p, "syncSecret", "reload")
  /\ SyncParent
  /\ UNCHANGED <<key, tries>>

\* The file is read again, whoever wrote it; it may not have disappeared.
Reload(p) ==
  /\ Goto(p, "reload", IF secret = None THEN "failed" ELSE "checkPub")
  /\ key' = [key EXCEPT ![p] = secret]
  /\ UNCHANGED <<files, tries, faults>>

-----------------------------------------------------------------------------
(* write_public_key.                                                       *)

CheckPub(p) ==
  /\ Goto(p, "checkPub", IF pub = key[p] THEN "serving" ELSE "link")
  /\ tries' = [tries EXCEPT ![p] = Attempts]
  /\ UNCHANGED <<files, key, faults>>

\* Mutant of Again: the first attempt is the last.
NotAgain(p, from) == Goto(p, from, "failed")

\* The end of one attempt that has not published the key.
Again(p, from) == Goto(p, from, IF tries[p] = 0 THEN "failed" ELSE "link")

LinkPub(p) ==
  /\ \/ /\ pub = None /\ Goto(p, "link", "syncPub")
        /\ pub' = key[p] /\ pubDisk' = pubDisk \cup {key[p]}
     \/ /\ pub # None /\ Goto(p, "link", "stat")
        /\ UNCHANGED <<pub, pubDisk>>
  /\ tries' = [tries EXCEPT ![p] = @ - 1]
  /\ UNCHANGED <<secret, secretDisk, key, faults>>

SyncPub(p) ==
  /\ Goto(p, "syncPub", "serving")
  /\ SyncParent
  /\ UNCHANGED <<key, tries>>

\* The name was taken and may be free again.
StatPub(p) ==
  /\ \/ pub = None /\ Again(p, "stat")
     \/ pub # None /\ Goto(p, "stat", "compare")
  /\ UNCHANGED <<files, key, tries, faults>>

\* A file that is gone by now counts as different.
ComparePub(p) ==
  /\ Goto(p, "compare", IF pub = key[p] THEN "serving" ELSE "remove")
  /\ UNCHANGED <<files, key, tries, faults>>

\* Mutant of RemovePub: the server goes on without publishing its key.
RemoveAndServe(p) ==
  /\ Goto(p, "remove", "serving")
  /\ pub' = None /\ pubDisk' = {None} /\ secretDisk' = {secret}
  /\ torn' = FALSE
  /\ UNCHANGED <<secret, key, tries, kills, losses>>

\* Removes what has the name now, which may be newer than what was compared.
RemovePub(p) ==
  /\ \/ /\ pub # None /\ Goto(p, "remove", "syncRemoved")
        /\ pub' = None /\ pubDisk' = pubDisk \cup {None}
     \/ /\ pub = None /\ Again(p, "remove")
        /\ UNCHANGED <<pub, pubDisk>>
  /\ UNCHANGED <<secret, secretDisk, key, tries, faults>>

SyncRemoved(p) ==
  /\ Again(p, "syncRemoved")
  /\ SyncParent
  /\ UNCHANGED <<key, tries>>

-----------------------------------------------------------------------------
(* Faults.                                                                 *)

\* The process is killed, or one of its file operations fails.
Kill(p) ==
  /\ pc[p] # "down" /\ kills < MaxKills
  /\ pc' = [pc EXCEPT ![p] = "down"]
  /\ key' = [key EXCEPT ![p] = None]
  /\ tries' = [tries EXCEPT ![p] = 0]
  /\ kills' = kills + 1
  /\ torn' = IF pc[p] \in {"syncSecret", "syncPub"} THEN TRUE ELSE torn
  /\ UNCHANGED <<files, losses>>

PowerLoss ==
  /\ losses < MaxPowerLosses
  /\ losses' = losses + 1
  /\ secret' \in secretDisk /\ pub' \in pubDisk
  /\ secretDisk' = {secret'} /\ pubDisk' = {pub'}
  /\ pc' = [p \in Procs |-> "down"]
  /\ key' = [p \in Procs |-> None]
  /\ tries' = [p \in Procs |-> 0]
  /\ torn' = FALSE
  /\ UNCHANGED kills

LoadOrCreate(p) ==
  \/ Start(p) \/ ReadSecret(p) \/ LinkSecret(p) \/ SyncSecret(p) \/ Reload(p)
  \/ CheckPub(p) \/ LinkPub(p) \/ SyncPub(p) \/ StatPub(p) \/ ComparePub(p)
  \/ RemovePub(p) \/ SyncRemoved(p)

Next == PowerLoss \/ \E p \in Procs : LoadOrCreate(p) \/ Kill(p)

Spec == Init /\ [][Next]_vars

-----------------------------------------------------------------------------
(* Properties.                                                             *)

Serving == {p \in Procs : pc[p] = "serving"}

\* All running servers hold the key that id_ed25519 holds, also when they
\* started at the same moment and each generated one (create_secret_key_once
\* links, load_or_create_keypair reads again).
KeysAgree == \A p \in Serving : key[p] = secret

\* Once every server runs, id_ed25519.pub belongs to that key, although a
\* server may remove the good file that another one has just written
\* (write_public_key compares and removes in two steps).
PublicMatches == Serving = Procs => pub = secret

\* No start fails: the file that was created does not disappear, and three
\* attempts are enough against the other server (write_public_key).
NoFailedStart == \A p \in Procs : pc[p] # "failed"

\* A key that a server uses survives a power loss.  The exception is a server
\* that was killed between giving a file its name and syncing the directory:
\* until another sync of the directory, nobody makes up for it, and the next
\* server goes on with the file it finds (sync_parent_directory is called
\* after each hard_link, by the process that linked, and by no other).
ServedKeyIsOnDisk == ~torn => \A p \in Serving : secretDisk = {key[p]}
=============================================================================
