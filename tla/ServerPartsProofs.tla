------------------------- MODULE ServerPartsProofs -------------------------
(***************************************************************************)
(* Proofs about the key files, the relay list of the main loop and the     *)
(* address changes that the console shows.  IpLimitsProofs has the tables  *)
(* that limit an address.                                                  *)
(***************************************************************************)
EXTENDS ServerParts, Integers, TLAPS

-----------------------------------------------------------------------------
(* The servers agree on one key and publish it, for any number of servers, *)
(* attempts, kills and power losses.                                       *)
(*                                                                         *)
(* HoldersAgree strengthens KeysAgree to every step after the file has been*)
(* read again: whoever is there has seen a secret key, and a name that is  *)
(* taken is not linked again.  LastWritten strengthens PublicMatches: when *)
(* no server is on its way to the public key any more, except to the sync  *)
(* after writing it, the last of them has seen or written the right one.   *)
(*                                                                         *)
(* For the two servers of an installation, UnsyncedKnown says who is about *)
(* to sync a link that is not on the disk, and SecondTry that a second     *)
(* attempt to publish the key is undisturbed.                              *)

Holding == {"checkPub", "link", "syncPub", "stat", "compare", "remove", "syncRemoved", "serving"}
Settled == {"syncPub", "serving"}

PcOK ==
  /\ pc \in [Procs -> Steps] /\ key \in [Procs -> Opt(Keys)]
  /\ secret \in Opt(Keys) /\ secretDisk \in SUBSET Opt(Keys)
HoldersAgree == \A p \in Procs : pc[p] \in Holding => key[p] = secret /\ secret # None
LastWritten == (\A p \in Procs : pc[p] \in Settled) => pub = secret

KeyInv == PcOK /\ HoldersAgree /\ LastWritten

\* What a step of p does to the others.
LEMMA OthersStay ==
  ASSUME PcOK, NEW p \in Procs, NEW from, NEW to, Goto(p, from, to)
  PROVE  /\ pc[p] = from /\ pc'[p] = to
         /\ \A q \in Procs \ {p} : pc'[q] = pc[q]
         /\ to \in Steps => pc' \in [Procs -> Steps]
  BY Zenon DEF Goto, PcOK

LEMMA Moved ==
  ASSUME PcOK, NEW p \in Procs, NEW from, NEW to, Goto(p, from, to)
  PROVE  pc[p] = from /\ pc'[p] = to /\ \A q \in Procs \ {p} : pc'[q] = pc[q]
  BY Zenon DEF Goto, PcOK

\* The next step of an attempt that failed.
LEMMA AgainGoes ==
  ASSUME NEW p \in Procs, NEW from, Again(p, from)
  PROVE  Goto(p, from, "failed") \/ Goto(p, from, "link")
  BY Zenon DEF Again

LEMMA InitKeys == Init => KeyInv
  BY SomeProc, KeyNone, Zenon DEF Init, KeyInv, PcOK, HoldersAgree, LastWritten, Holding, Settled, Steps, Opt

\* Steps before the secret key is in hand.
LEMMA LoadingKeeps ==
  ASSUME KeyInv, NEW p \in Procs,
         Start(p) \/ ReadSecret(p) \/ LinkSecret(p) \/ SyncSecret(p) \/ Reload(p)
  PROVE  KeyInv'
<1> USE DEF KeyInv
<1>1. CASE Start(p)
  <2>1. Goto(p, "down", "read") /\ UNCHANGED <<secret, secretDisk, pub, key>>
    BY <1>1, Zenon DEF Start, files
  <2> QED BY <2>1, OthersStay DEF PcOK, HoldersAgree, LastWritten, Holding, Settled, Steps
<1>2. CASE ReadSecret(p)
  <2>1. UNCHANGED <<secret, secretDisk, pub>> /\ key' \in [Procs -> Opt(Keys)]
    BY <1>2, Zenon DEF ReadSecret, files, PcOK, Opt, Fresh
  <2>2. \A q \in Procs \ {p} : key'[q] = key[q]
    BY <1>2, Zenon DEF ReadSecret, PcOK
  <2>3. Goto(p, "read", "reload") \/ Goto(p, "read", "create")
    BY <1>2, Zenon DEF ReadSecret
  <2> QED BY <2>1, <2>2, <2>3, OthersStay
          DEF PcOK, HoldersAgree, LastWritten, Holding, Settled, Steps
<1>3. CASE LinkSecret(p)
  <2>1. UNCHANGED <<pub, key>> /\ (secret # None => secret' = secret)
    BY <1>3, Zenon DEF LinkSecret
  <2>2. Goto(p, "create", "syncSecret") \/ Goto(p, "create", "reload")
    BY <1>3, Zenon DEF LinkSecret
  <2>3. secret' \in Opt(Keys) /\ secretDisk' \in SUBSET Opt(Keys)
    BY <1>3, Zenon DEF LinkSecret, PcOK
  <2> QED BY <2>1, <2>2, <2>3, OthersStay
          DEF PcOK, HoldersAgree, LastWritten, Holding, Settled, Steps
<1>4. CASE SyncSecret(p)
  <2>1. /\ Goto(p, "syncSecret", "reload") /\ UNCHANGED <<secret, pub, key>>
        /\ secretDisk' = {secret}
    BY <1>4, Zenon DEF SyncSecret, SyncParent
  <2> QED BY <2>1, OthersStay DEF PcOK, HoldersAgree, LastWritten, Holding, Settled, Steps
<1>5. CASE Reload(p)
  <2>1. UNCHANGED <<secret, secretDisk, pub>> /\ key' = [key EXCEPT ![p] = secret]
    BY <1>5, Zenon DEF Reload, files
  <2>2. \/ secret = None /\ Goto(p, "reload", "failed")
        \/ secret # None /\ Goto(p, "reload", "checkPub")
    BY <1>5, Zenon DEF Reload
  <2>3. key'[p] = secret /\ \A q \in Procs \ {p} : key'[q] = key[q]
    BY <2>1, Zenon DEF PcOK
  <2>4. key' \in [Procs -> Opt(Keys)]
    BY <2>1, Zenon DEF PcOK
  <2>5. /\ pc'[p] \in {"failed", "checkPub"} /\ \A q \in Procs \ {p} : pc'[q] = pc[q]
        /\ pc'[p] = "checkPub" => secret # None
        /\ pc' \in [Procs -> Steps]
    BY <2>2, OthersStay DEF Steps
  <2>6. LastWritten'
    BY <2>5, Zenon DEF LastWritten, Settled
  <2> QED BY <2>1, <2>3, <2>4, <2>5, <2>6, Zenon DEF PcOK, HoldersAgree, Holding
<1> QED BY <1>1, <1>2, <1>3, <1>4, <1>5, Zenon

\* Steps of write_public_key, which leave the secret key alone.
LEMMA PublishingKeeps ==
  ASSUME KeyInv, NEW p \in Procs,
         \/ CheckPub(p) \/ LinkPub(p) \/ SyncPub(p) \/ StatPub(p) \/ ComparePub(p)
         \/ RemovePub(p) \/ SyncRemoved(p)
  PROVE  KeyInv'
<1> USE DEF KeyInv
<1> DEFINE Moves(from, to) == Goto(p, from, to) /\ UNCHANGED <<secret, key>>
<1>0. secretDisk' \in SUBSET Opt(Keys)
  BY DEF CheckPub, LinkPub, SyncPub, StatPub, ComparePub, RemovePub, SyncRemoved, SyncParent,
         files, PcOK
<1>1. CASE CheckPub(p)
  <2>1. /\ UNCHANGED pub
        /\ \/ Moves("checkPub", "link")
           \/ Moves("checkPub", "serving") /\ pub = key[p]
    BY <1>1, Zenon DEF CheckPub, files
  <2> QED BY <1>0, <2>1, OthersStay DEF PcOK, HoldersAgree, LastWritten, Holding, Settled, Steps
<1>2. CASE LinkPub(p)
  <2>1. \/ Moves("link", "syncPub") /\ pub' = key[p]
        \/ Moves("link", "stat") /\ UNCHANGED pub
    BY <1>2, Zenon DEF LinkPub
  <2> QED BY <1>0, <2>1, OthersStay DEF PcOK, HoldersAgree, LastWritten, Holding, Settled, Steps
<1>3. CASE SyncPub(p)
  <2>1. Moves("syncPub", "serving") /\ UNCHANGED pub
    BY <1>3, Zenon DEF SyncPub, SyncParent
  <2> QED BY <1>0, <2>1, OthersStay, Zenon DEF PcOK, HoldersAgree, LastWritten, Holding, Settled, Steps
<1>4. CASE StatPub(p)
  <2>1. /\ UNCHANGED pub
        /\ Moves("stat", "failed") \/ Moves("stat", "link") \/ Moves("stat", "compare")
    BY <1>4, AgainGoes, Zenon DEF StatPub, files, Steps
  <2> QED BY <1>0, <2>1, OthersStay DEF PcOK, HoldersAgree, LastWritten, Holding, Settled, Steps
<1>5. CASE ComparePub(p)
  <2>1. /\ UNCHANGED pub
        /\ \/ Moves("compare", "remove")
           \/ Moves("compare", "serving") /\ pub = key[p]
    BY <1>5, Zenon DEF ComparePub, files
  <2> QED BY <1>0, <2>1, OthersStay DEF PcOK, HoldersAgree, LastWritten, Holding, Settled, Steps
<1>6. CASE RemovePub(p)
  <2>1. \/ Moves("remove", "syncRemoved") \/ Moves("remove", "failed") \/ Moves("remove", "link")
    BY <1>6, AgainGoes, Zenon DEF RemovePub, Steps
  <2> QED BY <1>0, <2>1, OthersStay DEF PcOK, HoldersAgree, LastWritten, Holding, Settled, Steps
<1>7. CASE SyncRemoved(p)
  <2>1. Moves("syncRemoved", "failed") \/ Moves("syncRemoved", "link")
    BY <1>7, AgainGoes, Zenon DEF SyncRemoved, SyncParent, Steps
  <2> QED BY <1>0, <2>1, OthersStay DEF PcOK, HoldersAgree, LastWritten, Holding, Settled, Steps
<1> QED BY <1>1, <1>2, <1>3, <1>4, <1>5, <1>6, <1>7, Zenon

\* A server that dies holds no key; a power loss ends them all.
LEMMA FaultsKeep ==
  ASSUME KeyInv, PowerLoss \/ \E p \in Procs : Kill(p)
  PROVE  KeyInv'
<1> USE DEF KeyInv
<1>1. CASE PowerLoss
  <2>1. /\ pc' = [p \in Procs |-> "down"] /\ key' = [p \in Procs |-> None]
        /\ secret' \in Opt(Keys) /\ secretDisk' \in SUBSET Opt(Keys)
    BY <1>1, Zenon DEF PowerLoss, PcOK
  <2> QED BY <2>1, SomeProc, Zenon DEF PcOK, HoldersAgree, LastWritten, Holding, Settled, Steps, Opt
<1>2. ASSUME NEW p \in Procs, Kill(p) PROVE KeyInv'
  <2>1. /\ pc' = [pc EXCEPT ![p] = "down"] /\ key' = [key EXCEPT ![p] = None]
        /\ UNCHANGED <<secret, secretDisk, pub>>
    BY <1>2, Zenon DEF Kill, files
  <2> QED BY <2>1, Zenon DEF PcOK, HoldersAgree, LastWritten, Holding, Settled, Steps, Opt
<1> QED BY <1>1, <1>2, Zenon

LEMMA StepKeys == KeyInv /\ [Next]_vars => KeyInv'
<1> SUFFICES ASSUME KeyInv, [Next]_vars PROVE KeyInv'
  BY Zenon
<1>1. CASE UNCHANGED vars
  BY <1>1, Zenon DEF KeyInv, PcOK, HoldersAgree, LastWritten, vars, files, procs
<1>2. CASE PowerLoss \/ \E p \in Procs : Kill(p)
  BY <1>2, FaultsKeep, Zenon
<1>3. ASSUME NEW p \in Procs, LoadOrCreate(p) PROVE KeyInv'
  BY <1>3, LoadingKeeps, PublishingKeeps, Zenon DEF LoadOrCreate
<1> QED BY <1>1, <1>2, <1>3, Zenon DEF Next

\* Servers that run use the key of the file, however many were started at once
\* and whatever was killed between two steps of load_or_create_keypair.
THEOREM ServersShareTheKey == Spec => []KeysAgree
<1>1. KeyInv => KeysAgree
  BY Zenon DEF KeyInv, PcOK, HoldersAgree, KeysAgree, Serving, Holding
<1> QED BY <1>1, InitKeys, StepKeys, PTL DEF Spec

\* When all servers run, the public key file is the one of their key: whoever
\* removes a file in write_public_key is not done before it has seen or written
\* the right one.
THEOREM PublishedKeyMatches == Spec => []PublicMatches
<1>1. KeyInv => PublicMatches
  BY Zenon DEF KeyInv, LastWritten, PublicMatches, Serving, Settled
<1> QED BY <1>1, InitKeys, StepKeys, PTL DEF Spec
-----------------------------------------------------------------------------
(* Two servers: the served key is on the disk, and no start fails.         *)

\* The identity server and the relay server.
TwoServers == \E a, b : Procs = {a, b}

\* A generated key is nobody else's before it is linked.
CreatorsFresh == \A p \in Procs : pc[p] = "create" =>
  /\ key[p] \in Keys /\ key[p] # pub /\ key[p] # secret
  /\ \A q \in Procs \ {p} : key[q] # key[p]
SecretSeen == \A p \in Procs : pc[p] \in {"syncSecret", "reload"} => secret # None
\* The link that is not on the disk yet is on its way there, and so is the
\* public key that belongs to it.
UnsyncedKnown == ~torn /\ secretDisk # {secret} =>
  /\ \E p \in Procs : pc[p] = "syncSecret"
  /\ pub # secret \/ \E p \in Procs : pc[p] = "syncPub"
ServedSynced == ~torn => \A p \in Serving : secretDisk = {secret}

LEMMA NextCreators ==
  ASSUME KeyInv, CreatorsFresh, SecretSeen, [Next]_vars
  PROVE  CreatorsFresh' /\ SecretSeen'
<1> USE DEF KeyInv
<1>1. ASSUME UNCHANGED <<secret, pub, key>>,
             \A p \in Procs : /\ pc'[p] = "create" => pc[p] = "create"
                              /\ pc'[p] \in {"syncSecret", "reload"} =>
                                   pc[p] \in {"syncSecret", "reload"} \/ secret # None
      PROVE  CreatorsFresh' /\ SecretSeen'
  BY <1>1, Zenon DEF CreatorsFresh, SecretSeen
<1>2. CASE UNCHANGED vars
  BY <1>1, <1>2, Zenon DEF vars, files, procs, faults
<1>3. CASE PowerLoss
  BY <1>3, Zenon DEF PowerLoss, CreatorsFresh, SecretSeen
<1>4. ASSUME NEW p \in Procs, Kill(p) PROVE CreatorsFresh' /\ SecretSeen'
  <2>1. /\ pc' = [pc EXCEPT ![p] = "down"] /\ key' = [key EXCEPT ![p] = None]
        /\ UNCHANGED <<secret, pub>>
    BY <1>4, Zenon DEF Kill, files
  <2> QED
    BY <2>1, KeyNone, Zenon DEF PcOK, CreatorsFresh, SecretSeen
<1>5. ASSUME NEW p \in Procs, NEW from, NEW to, to \notin {"create", "syncSecret"},
             Goto(p, from, to), UNCHANGED <<secret, pub, key>>, to = "reload" => secret # None
      PROVE  CreatorsFresh' /\ SecretSeen'
  BY <1>1, <1>5, Moved, Zenon
<1>6. ASSUME NEW p \in Procs, ReadSecret(p) PROVE CreatorsFresh' /\ SecretSeen'
  <2>1. CASE secret # None
    BY <1>5, <1>6, <2>1, Zenon DEF ReadSecret, files
  <2>2. CASE secret = None
    <3> PICK k \in Fresh : key' = [key EXCEPT ![p] = k]
      BY <1>6, <2>2, Zenon DEF ReadSecret
    <3>1. Goto(p, "read", "create") /\ UNCHANGED <<secret, pub>>
      BY <1>6, <2>2, Zenon DEF ReadSecret, files
    <3>2. k \in Keys /\ k # pub /\ k # secret /\ \A q \in Procs : k # key[q]
      BY Zenon DEF Fresh
    <3>3. key'[p] = k /\ \A q \in Procs \ {p} : key'[q] = key[q]
      BY Zenon DEF PcOK
    <3>4. pc'[p] = "create" /\ \A q \in Procs \ {p} : pc'[q] = pc[q]
      BY <3>1, Moved, Zenon
    <3> QED
      BY <3>1, <3>2, <3>3, <3>4 DEF CreatorsFresh, SecretSeen
  <2> QED
    BY <2>1, <2>2, Zenon
<1>7. ASSUME NEW p \in Procs, LinkSecret(p) PROVE CreatorsFresh' /\ SecretSeen'
  <2>1. CASE secret # None
    BY <1>5, <1>7, <2>1, Zenon DEF LinkSecret
  <2>2. CASE secret = None
    <3>1. Goto(p, "create", "syncSecret") /\ secret' = key[p] /\ UNCHANGED <<pub, key>>
      BY <1>7, <2>2, Zenon DEF LinkSecret
    <3>2. /\ pc[p] = "create" /\ pc'[p] = "syncSecret"
          /\ \A q \in Procs \ {p} : pc'[q] = pc[q]
      BY <3>1, Moved, Zenon
    <3> QED
      BY <3>1, <3>2, KeyNone, Zenon DEF CreatorsFresh, SecretSeen
  <2> QED
    BY <2>1, <2>2, Zenon
<1>8. ASSUME NEW p \in Procs, Reload(p) PROVE CreatorsFresh' /\ SecretSeen'
  <2>1. UNCHANGED <<secret, pub>> /\ key' = [key EXCEPT ![p] = secret]
    BY <1>8, Zenon DEF Reload, files
  <2>2. Goto(p, "reload", "checkPub") \/ Goto(p, "reload", "failed")
    BY <1>8, Zenon DEF Reload
  <2>3. pc'[p] \in {"checkPub", "failed"} /\ \A q \in Procs \ {p} : pc'[q] = pc[q]
    BY <2>2, Moved, Zenon
  <2>4. key'[p] = secret /\ \A q \in Procs \ {p} : key'[q] = key[q]
    BY <2>1, Zenon DEF PcOK
  <2> QED
    BY <2>1, <2>3, <2>4 DEF CreatorsFresh, SecretSeen
<1>9. ASSUME NEW p \in Procs, Start(p) \/ SyncSecret(p) \/ CheckPub(p) \/ SyncPub(p) \/ ComparePub(p)
      PROVE  CreatorsFresh' /\ SecretSeen'
  BY <1>5, <1>9, Zenon DEF Start, SyncSecret, CheckPub, SyncPub, ComparePub, SyncParent, files,
                    SecretSeen, Goto
<1>10. ASSUME NEW p \in Procs, StatPub(p) \/ SyncRemoved(p)
       PROVE  CreatorsFresh' /\ SecretSeen'
  BY <1>5, <1>10, AgainGoes, Zenon DEF StatPub, SyncRemoved, SyncParent, files
<1>11. ASSUME NEW p \in Procs, LinkPub(p) \/ RemovePub(p)
       PROVE  CreatorsFresh' /\ SecretSeen'
  <2>1. UNCHANGED <<secret, key>> /\ (pub' = pub \/ pub' = None \/ pub' = key[p])
    BY <1>11, Zenon DEF LinkPub, RemovePub
  <2>2. \E from \in {"link", "remove"}, to \in {"syncPub", "stat", "syncRemoved", "failed", "link"} :
          Goto(p, from, to)
    BY <1>11, AgainGoes, Zenon DEF LinkPub, RemovePub
  <2>3. /\ pc[p] # "create" /\ pc'[p] \notin {"create", "syncSecret", "reload"}
        /\ \A q \in Procs \ {p} : pc'[q] = pc[q]
    BY <2>2, Moved, Zenon
  <2> QED
    BY <2>1, <2>3, KeyNone, Zenon DEF CreatorsFresh, SecretSeen
<1> QED
  BY <1>2, <1>3, <1>4, <1>6, <1>7, <1>8, <1>9, <1>10, <1>11, Zenon DEF Next, LoadOrCreate

LEMMA NextDisk ==
  ASSUME TwoServers, KeyInv, CreatorsFresh, SecretSeen, UnsyncedKnown, ServedSynced, [Next]_vars
  PROVE  UnsyncedKnown' /\ ServedSynced'
<1> USE DEF KeyInv
<1>1. ASSUME UNCHANGED <<secret, secretDisk, torn>>,
             pub' = pub \/ pub' # secret \/ \E p \in Procs : pc'[p] = "syncPub",
             \A p \in Procs : /\ pc[p] \in {"syncSecret", "syncPub"} => pc'[p] = pc[p]
                              /\ pc'[p] = "serving" => pc[p] = "serving" \/ secretDisk = {secret}
      PROVE  UnsyncedKnown' /\ ServedSynced'
  BY <1>1, Zenon DEF UnsyncedKnown, ServedSynced, Serving
<1>2. CASE secretDisk' = {secret'}
  BY <1>2, Zenon DEF UnsyncedKnown, ServedSynced
<1>3. CASE UNCHANGED vars
  BY <1>1, <1>3, Zenon DEF vars, files, procs, faults
<1>4. CASE PowerLoss
  BY <1>2, <1>4, Zenon DEF PowerLoss
<1>5. ASSUME NEW p \in Procs, Kill(p) PROVE UnsyncedKnown' /\ ServedSynced'
  <2>1. /\ pc' = [pc EXCEPT ![p] = "down"] /\ UNCHANGED <<secret, secretDisk, pub>>
        /\ ~torn' => ~torn /\ pc[p] \notin {"syncSecret", "syncPub"}
    BY <1>5, Zenon DEF Kill, files
  <2>2. pc'[p] = "down" /\ \A q \in Procs \ {p} : pc'[q] = pc[q]
    BY <2>1, Zenon DEF PcOK
  <2> QED
    BY <2>1, <2>2, Zenon DEF UnsyncedKnown, ServedSynced, Serving
<1>6. ASSUME NEW p \in Procs, SyncSecret(p) \/ SyncPub(p) \/ SyncRemoved(p)
      PROVE  UnsyncedKnown' /\ ServedSynced'
  BY <1>2, <1>6, Zenon DEF SyncSecret, SyncPub, SyncRemoved, SyncParent
<1>7. ASSUME NEW p \in Procs, NEW from, NEW to, from \notin {"syncSecret", "syncPub"},
             Goto(p, from, to), UNCHANGED <<secret, secretDisk, torn>>,
             pub' = pub \/ pub' # secret \/ to = "syncPub",
             to = "serving" /\ ~torn => secretDisk = {secret}
      PROVE  UnsyncedKnown' /\ ServedSynced'
  <2>1. pc[p] = from /\ pc'[p] = to /\ \A q \in Procs \ {p} : pc'[q] = pc[q]
    BY <1>7, Moved, Zenon
  <2> QED
    BY <1>7, <2>1, Zenon DEF UnsyncedKnown, ServedSynced, Serving
<1>8. ASSUME NEW p \in Procs, Start(p) \/ ReadSecret(p) \/ Reload(p)
      PROVE  UnsyncedKnown' /\ ServedSynced'
  BY <1>7, <1>8, Zenon DEF Start, ReadSecret, Reload, files, faults
<1>9. ASSUME NEW p \in Procs, LinkSecret(p) PROVE UnsyncedKnown' /\ ServedSynced'
  <2>1. CASE secret # None
    BY <1>7, <1>9, <2>1, Zenon DEF LinkSecret, faults
  <2>2. CASE secret = None
    <3>1. Goto(p, "create", "syncSecret") /\ secret' = key[p] /\ UNCHANGED <<pub, torn>>
      BY <1>9, <2>2, Zenon DEF LinkSecret, faults
    <3>2. /\ pc[p] = "create" /\ pc'[p] = "syncSecret"
          /\ \A q \in Procs \ {p} : pc'[q] = pc[q]
      BY <3>1, Moved, Zenon
    <3>3. \A q \in Procs : pc[q] # "serving"
      BY <2>2, Zenon DEF HoldersAgree, Holding
    <3> QED
      BY <3>1, <3>2, <3>3, Zenon DEF CreatorsFresh, UnsyncedKnown, ServedSynced, Serving
  <2> QED
    BY <2>1, <2>2, Zenon

\* Who sees the right public key sees it on the disk: one server would have to
\* sync the secret key, a second the public one, and neither is this one.
<1>10. ASSUME NEW p \in Procs, pc[p] \in {"checkPub", "compare"}, pub = key[p], ~torn
       PROVE  secretDisk = {secret}
  <2>1. pub = secret
    BY <1>10, Zenon DEF HoldersAgree, Holding
  <2>2. ASSUME secretDisk # {secret} PROVE FALSE
    <3> PICK q \in Procs : pc[q] = "syncSecret"
      BY <1>10, <2>2, Zenon DEF UnsyncedKnown
    <3> PICK r \in Procs : pc[r] = "syncPub"
      BY <1>10, <2>1, <2>2, Zenon DEF UnsyncedKnown
    <3>1. p # q /\ p # r /\ q # r
      BY <1>10, Zenon
    <3> QED
      BY <3>1 DEF TwoServers
  <2> QED
    BY <2>2, Zenon
<1>11. ASSUME NEW p \in Procs, CheckPub(p) \/ ComparePub(p) PROVE UnsyncedKnown' /\ ServedSynced'
  <2>1. \E from \in {"checkPub", "compare"}, to \in {"link", "remove", "serving"} :
          /\ Goto(p, from, to) /\ UNCHANGED <<secret, secretDisk, pub, torn>>
          /\ to = "serving" => pub = key[p]
    BY <1>11, Zenon DEF CheckPub, ComparePub, files, faults
  <2> QED
    BY <1>7, <1>10, <2>1, Zenon DEF Goto
<1>12. ASSUME NEW p \in Procs, LinkPub(p) PROVE UnsyncedKnown' /\ ServedSynced'
  BY <1>7, <1>12, Zenon DEF LinkPub, faults
<1>13. ASSUME NEW p \in Procs, StatPub(p) PROVE UnsyncedKnown' /\ ServedSynced'
  BY <1>7, <1>13, AgainGoes, Zenon DEF StatPub, files, faults
<1>14. ASSUME NEW p \in Procs, RemovePub(p) PROVE UnsyncedKnown' /\ ServedSynced'
  <2>1. secret # None
    BY <1>14, Zenon DEF RemovePub, Again, Goto, HoldersAgree, Holding
  <2> QED
    BY <1>7, <1>14, <2>1, AgainGoes, Zenon DEF RemovePub, faults
<1> QED
  BY <1>3, <1>4, <1>5, <1>6, <1>8, <1>9, <1>11, <1>12, <1>13, <1>14, Zenon DEF Next, LoadOrCreate

\* With the two servers of an installation, however their starts interleave,
\* however often they are killed and the power fails, the key that a server
\* uses is on the disk, unless a server was killed between linking a file and
\* syncing the directory and no server has synced it since: a server that
\* finds the public key file in place did not overtake the
\* sync_parent_directory of the one that created the secret key.
THEOREM ServedKeySurvives ==
  ASSUME TwoServers
  PROVE  Spec => []ServedKeyIsOnDisk
<1>1. Init => CreatorsFresh /\ SecretSeen /\ UnsyncedKnown /\ ServedSynced
  BY DEF Init, CreatorsFresh, SecretSeen, UnsyncedKnown, ServedSynced, Serving
<1>2. KeyInv /\ ServedSynced => ServedKeyIsOnDisk
  BY Zenon DEF KeyInv, HoldersAgree, Holding, ServedSynced, ServedKeyIsOnDisk, Serving
<1>3. /\ KeyInv /\ CreatorsFresh /\ SecretSeen /\ UnsyncedKnown /\ ServedSynced
      /\ [Next]_vars
      => (CreatorsFresh /\ SecretSeen /\ UnsyncedKnown /\ ServedSynced)'
  BY NextCreators, NextDisk, Zenon
<1> QED
  BY <1>1, <1>2, <1>3, InitKeys, StepKeys, PTL DEF Spec

\* How many attempts write_public_key has left at each step: it is in its first
\* or second one, and removes a file in the first one only.
TriesLeft ==
  /\ tries \in [Procs -> Int]
  /\ \A p \in Procs :
       /\ pc[p] = "link" => tries[p] \in {Attempts, Attempts - 1}
       /\ pc[p] \in {"stat", "compare"} => tries[p] \in {Attempts - 1, Attempts - 2}
       /\ pc[p] \in {"remove", "syncRemoved"} => tries[p] = Attempts - 1

\* The second attempt, before and after it finds the name taken.
Retrying(p) == pc[p] = "syncRemoved" \/ (pc[p] = "link" /\ tries[p] = Attempts - 1)
Rechecking(p) == pc[p] \in {"stat", "compare"} /\ tries[p] = Attempts - 2

\* By the second attempt the wrong file is gone; a file that is there belongs to
\* the key, and the other server is not about to remove it.
SecondTry == \A p \in Procs :
  /\ Retrying(p) => pub \in {None, secret}
  /\ Rechecking(p) => pub = secret
  /\ Rechecking(p) \/ (Retrying(p) /\ pub = secret) => \A q \in Procs \ {p} : pc[q] # "remove"

StartInv == SecretSeen /\ TriesLeft /\ SecondTry /\ NoFailedStart

\* A step of p that is not on its way to a second attempt.
LEMMA EarlyStart ==
  ASSUME TwoServers, KeyInv, StartInv, SecretSeen', NEW p \in Procs, NEW from,
         NEW to \in {"down", "read", "create", "syncSecret", "reload", "checkPub", "syncPub",
                     "serving"},
         Goto(p, from, to) \/ pc' = [pc EXCEPT ![p] = to],
         \A q \in Procs \ {p} : tries'[q] = tries[q], tries' \in [Procs -> Int],
         \/ UNCHANGED <<secret, pub>>
         \/ UNCHANGED secret /\ pub = None /\ pub' = secret /\ from = "link" /\ pc[p] = from
         \/ secret = None
  PROVE  StartInv'
<1> USE DEF KeyInv, StartInv
<1>1. pc'[p] = to /\ \A q \in Procs \ {p} : pc'[q] = pc[q]
  BY Zenon DEF Goto, PcOK
<1>2. TriesLeft' /\ NoFailedStart'
  BY <1>1, Zenon DEF TriesLeft, NoFailedStart
<1>3. ~Retrying(p)' /\ ~Rechecking(p)' /\ pc'[p] # "remove"
  BY <1>1, Zenon DEF Retrying, Rechecking
<1>4. \A q \in Procs \ {p} : (Retrying(q)' <=> Retrying(q)) /\ (Rechecking(q)' <=> Rechecking(q))
  BY <1>1, Zenon DEF Retrying, Rechecking
<1>5. secret = None => \A q \in Procs : ~Retrying(q) /\ ~Rechecking(q)
  BY Zenon DEF HoldersAgree, Holding, Retrying, Rechecking
<1>6. \A q, r \in Procs \ {p} : q = r
  BY Zenon DEF TwoServers
<1>7. SecondTry'
  BY <1>1, <1>3, <1>4, <1>5, <1>6, Zenon DEF SecondTry
<1> QED
  BY <1>2, <1>7, Zenon

\* The steps of an attempt that does not end the start.
LEMMA AttemptKeeps ==
  ASSUME TwoServers, Attempts >= 2, KeyInv, StartInv, NEW p \in Procs,
         \/ CheckPub(p) /\ pub # key[p]
         \/ LinkPub(p) /\ pub # None
         \/ StatPub(p)
         \/ ComparePub(p) /\ pub # key[p]
         \/ RemovePub(p)
         \/ SyncRemoved(p)
  PROVE  StartInv'
<1> USE DEF KeyInv, StartInv
<1>0. /\ secret' = secret /\ secret # None /\ key[p] = secret /\ Attempts \in Nat
      /\ tries[p] \in Int /\ \A q, r \in Procs \ {p} : q = r
  <2>1. pc[p] \in Holding
    BY Zenon DEF CheckPub, LinkPub, StatPub, ComparePub, RemovePub, SyncRemoved, Again, Goto, Holding
  <2> QED
    BY <2>1, KeyBounds, Zenon DEF CheckPub, LinkPub, StatPub, ComparePub, RemovePub, SyncRemoved, SyncParent,
                files, HoldersAgree, TriesLeft, TwoServers
<1>1. ASSUME NEW from, NEW to \in {"link", "stat", "compare", "remove", "syncRemoved"},
             Goto(p, from, to),
             pub' = pub \/ (from = "remove" /\ pub' = None),
             \A q \in Procs \ {p} : tries'[q] = tries[q], tries' \in [Procs -> Int],
             to = "link" => tries'[p] \in {Attempts, Attempts - 1},
             to \in {"stat", "compare"} => tries'[p] \in {Attempts - 1, Attempts - 2},
             to \in {"remove", "syncRemoved"} => tries'[p] = Attempts - 1,
             to = "remove" => pub # secret,
             \/ ~Retrying(p)' /\ ~Rechecking(p)'
             \/ Retrying(p)' /\ pub' = None
             \/ Retrying(p)' /\ Retrying(p) /\ pub' = pub
             \/ Rechecking(p)' /\ pub' = pub /\ pub = secret /\ (Retrying(p) \/ Rechecking(p))
      PROVE  StartInv'
  <2>1. pc[p] = from /\ pc'[p] = to /\ \A q \in Procs \ {p} : pc'[q] = pc[q]
    BY <1>1, Moved, Zenon
  <2>2. SecretSeen' /\ TriesLeft' /\ NoFailedStart'
    BY <1>0, <1>1, <2>1, Zenon DEF SecretSeen, TriesLeft, NoFailedStart
  <2>3. \A q \in Procs \ {p} : (Retrying(q)' <=> Retrying(q)) /\ (Rechecking(q)' <=> Rechecking(q))
    BY <1>1, <2>1, Zenon DEF Retrying, Rechecking
  <2>4. ASSUME NEW q \in Procs \ {p}
        PROVE  /\ Retrying(q)' => pub' \in {None, secret'}
               /\ Rechecking(q)' => pub' = secret'
               /\ Rechecking(q)' \/ (Retrying(q)' /\ pub' = secret') => pc'[p] # "remove"
    BY <1>0, <1>1, <2>1, <2>3, <2>4, Zenon DEF SecondTry
  <2>5. /\ Retrying(p)' => pub' \in {None, secret'}
        /\ Rechecking(p)' => pub' = secret'
        /\ Rechecking(p)' \/ (Retrying(p)' /\ pub' = secret')
             => \A q \in Procs \ {p} : pc'[q] # "remove"
    <3>1. ~(Retrying(p)' /\ Rechecking(p)')
      BY Zenon DEF Retrying, Rechecking
    <3> QED
      BY <1>0, <1>1, <2>1, <3>1, Zenon DEF SecondTry
  <2>6. SecondTry'
    BY <1>0, <2>1, <2>4, <2>5, Zenon DEF SecondTry
  <2> QED
    BY <2>2, <2>6, Zenon
<1>2. CASE CheckPub(p) /\ pub # key[p]
  <2>1. /\ Goto(p, "checkPub", "link") /\ UNCHANGED pub /\ tries' = [tries EXCEPT ![p] = Attempts]
    BY <1>2, Zenon DEF CheckPub, files
  <2>2. /\ tries'[p] = Attempts /\ \A q \in Procs \ {p} : tries'[q] = tries[q]
        /\ tries' \in [Procs -> Int] /\ pc'[p] = "link"
    BY <1>0, <2>1 DEF TriesLeft, PcOK, Goto
  <2>3. ~Retrying(p)' /\ ~Rechecking(p)'
    BY <1>0, <2>2 DEF Retrying, Rechecking
  <2> QED
    BY <1>0, <1>1, <2>1, <2>2, <2>3, Zenon
<1>3. CASE LinkPub(p) /\ pub # None
  <2>1. /\ Goto(p, "link", "stat") /\ UNCHANGED pub /\ tries' = [tries EXCEPT ![p] = @ - 1]
    BY <1>3, Zenon DEF LinkPub
  <2>2. /\ tries'[p] = tries[p] - 1 /\ \A q \in Procs \ {p} : tries'[q] = tries[q]
        /\ tries' \in [Procs -> Int] /\ pc[p] = "link" /\ pc'[p] = "stat"
    BY <1>0, <2>1 DEF TriesLeft, PcOK, Goto
  <2>3. tries[p] \in {Attempts, Attempts - 1} /\ ~Retrying(p)'
    BY <2>2, Zenon DEF TriesLeft, Retrying
  <2>4. Rechecking(p)' => Retrying(p) /\ pub = secret
    <3>1. Rechecking(p)' => tries[p] = Attempts - 1
      BY <2>2, <2>3, KeyBounds DEF Rechecking
    <3>2. tries[p] = Attempts - 1 => Retrying(p)
      BY <2>2, Zenon DEF Retrying
    <3>3. Retrying(p) => pub \in {None, secret}
      BY Zenon DEF SecondTry
    <3> QED
      BY <1>3, <3>1, <3>2, <3>3, Zenon
  <2>5. tries'[p] \in {Attempts - 1, Attempts - 2}
    BY <1>0, <2>2, <2>3
  <2> QED
    BY <1>1, <2>1, <2>2, <2>3, <2>4, <2>5, Zenon

\* The steps that do not count attempts.
<1>4. ASSUME UNCHANGED tries, NEW from, Goto(p, from, "link"),
             UNCHANGED pub, pub = None \/ from = "syncRemoved", tries[p] = Attempts - 1
      PROVE  StartInv'
  <2>1. pc[p] = from /\ pc'[p] = "link"
    BY <1>4, Zenon DEF Goto, PcOK
  <2>2. Retrying(p)' /\ (from = "syncRemoved" => Retrying(p))
    BY <1>0, <1>4, <2>1, Zenon DEF Retrying
  <2> QED
    BY <1>0, <1>1, <1>4, <2>1, <2>2, Zenon DEF TriesLeft
<1>5. CASE StatPub(p)
  <2>1. UNCHANGED <<pub, tries>> /\ tries[p] \in {Attempts - 1, Attempts - 2} /\ pc[p] = "stat"
    BY <1>5, Zenon DEF StatPub, files, Again, Goto, TriesLeft
  <2>2. CASE pub = None
    <3>1. tries[p] = Attempts - 1
      BY <1>0, <2>1, <2>2, Zenon DEF SecondTry, Rechecking
    <3>2. tries[p] # 0
      BY <3>1, KeyBounds
    <3>3. Goto(p, "stat", "link")
      BY <1>5, <2>2, <3>2, Zenon DEF StatPub, Again
    <3> QED
      BY <1>4, <2>1, <2>2, <3>1, <3>3, Zenon
  <2>3. CASE pub # None
    <3>1. Goto(p, "stat", "compare")
      BY <1>5, <2>3, Zenon DEF StatPub, Again
    <3>2. pc'[p] = "compare"
      BY <3>1, Zenon DEF Goto, PcOK
    <3>3. ~Retrying(p)' /\ (Rechecking(p)' => Rechecking(p) /\ pub = secret)
      BY <2>1, <3>2, Zenon DEF Retrying, Rechecking, SecondTry
    <3> QED
      BY <1>0, <1>1, <2>1, <3>1, <3>3, Zenon DEF TriesLeft
  <2> QED
    BY <2>2, <2>3, Zenon
<1>6. CASE ComparePub(p) /\ pub # key[p]
  <2>1. Goto(p, "compare", "remove") /\ UNCHANGED <<pub, tries>> /\ pc[p] = "compare"
    BY <1>6, Zenon DEF ComparePub, files, Goto
  <2>2. pc'[p] = "remove" /\ pub # secret
    BY <1>0, <1>6, <2>1, Zenon DEF Goto, PcOK
  <2>3. ~Retrying(p)' /\ ~Rechecking(p)' /\ ~Rechecking(p)
    BY <2>1, <2>2, Zenon DEF Retrying, Rechecking, SecondTry
  <2>4. tries[p] = Attempts - 1
    BY <2>1, <2>3, Zenon DEF Rechecking, TriesLeft
  <2> QED
    BY <1>0, <1>1, <2>1, <2>2, <2>3, <2>4, Zenon DEF TriesLeft
<1>7. CASE RemovePub(p)
  <2>1. UNCHANGED tries /\ pc[p] = "remove" /\ tries[p] = Attempts - 1
    BY <1>7, Zenon DEF RemovePub, Again, Goto, TriesLeft
  <2>2. CASE pub = None
    <3>1. tries[p] # 0
      BY <2>1, KeyBounds
    <3>2. Goto(p, "remove", "link") /\ UNCHANGED pub
      BY <1>7, <2>2, <3>1, Zenon DEF RemovePub, Again
    <3> QED
      BY <1>4, <2>1, <2>2, <3>2, Zenon
  <2>3. CASE pub # None
    <3>1. Goto(p, "remove", "syncRemoved") /\ pub' = None
      BY <1>7, <2>3, Zenon DEF RemovePub
    <3>2. Retrying(p)'
      BY <3>1, Zenon DEF Retrying, Goto, PcOK
    <3> QED
      BY <1>0, <1>1, <2>1, <3>1, <3>2, Zenon DEF TriesLeft
  <2> QED
    BY <2>2, <2>3, Zenon
<1>8. CASE SyncRemoved(p)
  <2>1. UNCHANGED <<tries, pub>> /\ pc[p] = "syncRemoved" /\ tries[p] = Attempts - 1
    BY <1>8, Zenon DEF SyncRemoved, SyncParent, Again, Goto, TriesLeft
  <2>2. tries[p] # 0
    BY <1>0, <2>1
  <2>3. Goto(p, "syncRemoved", "link")
    BY <1>8, <2>2, Zenon DEF SyncRemoved, Again
  <2> QED
    BY <1>4, <2>1, <2>3, Zenon
<1> QED
  BY <1>2, <1>3, <1>5, <1>6, <1>7, <1>8, Zenon

LEMMA NextStart ==
  ASSUME TwoServers, Attempts >= 2, KeyInv, CreatorsFresh, StartInv, [Next]_vars
  PROVE  StartInv'
<1> USE DEF KeyInv, StartInv
<1>0. SecretSeen' /\ tries \in [Procs -> Int] /\ Attempts \in Nat
  BY NextCreators, KeyBounds, Zenon DEF TriesLeft
<1>1. CASE UNCHANGED vars
  BY <1>1, Zenon DEF vars, files, procs, SecretSeen, TriesLeft, SecondTry, Retrying, Rechecking, NoFailedStart
<1>2. CASE PowerLoss
  <2>1. pc' = [p \in Procs |-> "down"] /\ tries' = [p \in Procs |-> 0]
    BY <1>2, Zenon DEF PowerLoss
  <2> QED
    BY <2>1 DEF SecretSeen, TriesLeft, SecondTry, Retrying, Rechecking, NoFailedStart
<1>3. ASSUME NEW p \in Procs, Kill(p) PROVE StartInv'
  <2>1. /\ pc[p] \in Steps /\ pc' = [pc EXCEPT ![p] = "down"]
        /\ UNCHANGED <<secret, pub>> /\ tries' = [tries EXCEPT ![p] = 0]
    BY <1>3, Zenon DEF Kill, files, PcOK
  <2>2. tries' \in [Procs -> Int] /\ \A q \in Procs \ {p} : tries'[q] = tries[q]
    BY <1>0, <2>1
  <2> QED
    BY <1>0, <2>1, <2>2, EarlyStart, Zenon
<1>4. ASSUME NEW p \in Procs, Start(p) \/ ReadSecret(p) \/ SyncSecret(p) \/ SyncPub(p)
      PROVE  StartInv'
  <2>1. /\ UNCHANGED <<secret, pub, tries>>
        /\ \E from \in {"down", "read", "syncSecret", "syncPub"},
              to \in {"read", "reload", "create", "serving"} : Goto(p, from, to)
    BY <1>4, Zenon DEF Start, ReadSecret, SyncSecret, SyncPub, SyncParent, files
  <2> QED
    BY <1>0, <2>1, EarlyStart
<1>5. ASSUME NEW p \in Procs, LinkSecret(p) PROVE StartInv'
  <2>1. /\ UNCHANGED <<pub, tries>> /\ (secret' = secret \/ secret = None)
        /\ \E to \in {"syncSecret", "reload"} : Goto(p, "create", to)
    BY <1>5, Zenon DEF LinkSecret
  <2> QED
    BY <1>0, <2>1, EarlyStart
<1>6. ASSUME NEW p \in Procs, Reload(p) PROVE StartInv'
  <2>1. pc[p] = "reload" /\ UNCHANGED <<secret, pub, tries>>
    BY <1>6, Zenon DEF Reload, Goto, files
  <2>2. secret # None
    BY <2>1, Zenon DEF SecretSeen
  <2>3. Goto(p, "reload", "checkPub")
    BY <1>6, <2>2, Zenon DEF Reload
  <2> QED
    BY <1>0, <2>1, <2>3, EarlyStart, Zenon
<1>7. ASSUME NEW p \in Procs, (CheckPub(p) \/ ComparePub(p)) /\ pub = key[p] PROVE StartInv'
  <2>1. /\ UNCHANGED <<secret, pub>>
        /\ tries' = tries \/ tries' = [tries EXCEPT ![p] = Attempts]
        /\ \E from \in {"checkPub", "compare"} : Goto(p, from, "serving")
    BY <1>7, Zenon DEF CheckPub, ComparePub, files
  <2>2. tries' \in [Procs -> Int] /\ \A q \in Procs \ {p} : tries'[q] = tries[q]
    BY <1>0, <2>1
  <2> QED
    BY <1>0, <2>1, <2>2, EarlyStart, Zenon
<1>8. ASSUME NEW p \in Procs, LinkPub(p) /\ pub = None PROVE StartInv'
  <2>1. /\ Goto(p, "link", "syncPub") /\ pub' = key[p] /\ UNCHANGED secret
        /\ tries' = [tries EXCEPT ![p] = @ - 1]
    BY <1>8, Zenon DEF LinkPub
  <2>2. pc[p] = "link" /\ pub' = secret
    BY <2>1, Zenon DEF Goto, HoldersAgree, Holding
  <2>3. tries' \in [Procs -> Int] /\ \A q \in Procs \ {p} : tries'[q] = tries[q]
    BY <1>0, <2>1
  <2> QED
    BY <1>0, <1>8, <2>1, <2>2, <2>3, EarlyStart, Zenon
<1> QED
  BY <1>1, <1>2, <1>3, <1>4, <1>5, <1>6, <1>7, <1>8, AttemptKeeps, Zenon DEF Next, LoadOrCreate

\* With the two servers of an installation, no start fails, however their starts
\* interleave and whatever is killed: two of the three attempts of
\* write_public_key are enough against the other server, and the secret key
\* that was found or created is still there when it is read again.
THEOREM StartsSucceed ==
  ASSUME TwoServers, Attempts >= 2
  PROVE  Spec => []NoFailedStart
<1>1. Init => CreatorsFresh /\ StartInv
  BY DEF Init, CreatorsFresh, StartInv, SecretSeen, TriesLeft, SecondTry, Retrying, Rechecking,
         NoFailedStart
<1>2. StartInv => NoFailedStart /\ SecretSeen
  BY Zenon DEF StartInv
<1>3. KeyInv /\ CreatorsFresh /\ StartInv /\ [Next]_vars => CreatorsFresh' /\ StartInv'
  BY <1>2, NextCreators, NextStart, Zenon
<1> QED
  BY <1>1, <1>2, <1>3, InitKeys, StepKeys, PTL DEF Spec

-----------------------------------------------------------------------------
(* A behaviour of ServerParts is one of each part.                         *)

LEMMA StartOfParts == PartsInit => R!Init /\ L!Init
  BY Zenon DEF PartsInit

LEMMA StepsOfParts == [PartsNext]_allVars => [R!Next]_(R!vars) /\ [L!Next]_(L!vars)
<1> USE DEF allVars, relayVars, limitVars, R!vars, L!vars
<1>1. CASE UNCHANGED allVars
  BY <1>1, Zenon
<1>2. CASE KeysNext
  BY <1>2, Zenon DEF KeysNext
<1>3. CASE RelaysNext
  BY <1>3, Zenon DEF RelaysNext
<1>4. CASE RequestsNext
  BY <1>4, Zenon DEF RequestsNext, L!Next
<1>5. CASE ChangesNext
  BY <1>5, Zenon DEF ChangesNext, L!Next
<1>6. CASE ProxyingNext
  BY <1>6, Zenon DEF ProxyingNext, L!Next
<1> QED
  BY <1>1, <1>2, <1>3, <1>4, <1>5, <1>6, Zenon DEF PartsNext

-----------------------------------------------------------------------------
(* The relay list: clients are offered a relay server while there is one.  *)

PostedList == [set : BOOLEAN, servers : Lists \cup SUBSET Servers]
Place == [at : {"none", "console", "posting", "greeting", "handshake", "message", "reply"},
          servers : Lists \cup {{}}]
ListTypes ==
  /\ events \in Seq(PostedList)
  /\ check # None => check.found \subseteq Servers
  /\ conn \in [Conns -> Place]
\* No result of a health check in the queue is empty.
ResultsNotEmpty == \A k \in 1..Len(events) : events[k].set \/ events[k].servers # {}

ListInv == ListTypes /\ ResultsNotEmpty /\ R!NeverWithoutRelay

LEMMA PlaceOf ==
  /\ R!At("none") \in Place /\ R!At("console") \in Place
  /\ R!At("greeting") \in Place /\ R!At("handshake") \in Place
  /\ R!At("message") \in Place /\ R!At("reply") \in Place
  BY Zenon DEF R!At, Place

LEMMA PostKeeps ==
  ASSUME events \in Seq(PostedList), ResultsNotEmpty, NEW set \in BOOLEAN,
         NEW servers \in Lists \cup SUBSET Servers, R!Post(set, servers), set \/ servers # {}
  PROVE  events' \in Seq(PostedList) /\ ResultsNotEmpty'
<1> DEFINE e == [set |-> set, servers |-> servers]
<1>1. e \in PostedList /\ (e.set \/ e.servers # {}) /\ events' = Append(events, e)
  BY Zenon DEF PostedList, R!Post
<1> HIDE DEF e
<1>2. /\ events' \in Seq(PostedList) /\ Len(events') = Len(events) + 1
      /\ \A k \in 1..Len(events) : events'[k] = events[k]
      /\ events'[Len(events) + 1] = e
  BY <1>1
<1> QED
  BY <1>1, <1>2 DEF ResultsNotEmpty

LEMMA NextList ==
  ASSUME ListInv, [R!Next]_(R!vars)
  PROVE  ListInv'
<1> USE DEF ListInv, R!listVars
<1>1. ASSUME UNCHANGED <<configured, offered, events, check>>,
             conn' \in [Conns -> Place]
      PROVE  ListInv'
  BY <1>1, Zenon DEF ListTypes, ResultsNotEmpty, R!NeverWithoutRelay
<1>2. CASE UNCHANGED R!vars
  BY <1>1, <1>2, Zenon DEF R!vars, ListTypes
<1>3. CASE R!StartCheck \/ \E s \in Servers : R!Probe(s)
  <2>1. UNCHANGED <<configured, offered, events, conn>>
    BY <1>3, Zenon DEF R!StartCheck, R!Probe
  <2>2. \E left, found : check' = [left |-> left, found |-> found] /\ found \subseteq Servers
    BY <1>3 DEF R!StartCheck, R!Probe, ListTypes
  <2>3. check'.found \subseteq Servers
    BY <2>2
  <2> QED
    BY <2>1, <2>3, Zenon DEF ListTypes, ResultsNotEmpty, R!NeverWithoutRelay
<1>4. CASE R!TakeEvent
  <2>1. /\ events # <<>> /\ events' = Tail(events) /\ offered' = events[1].servers
        /\ configured' = IF events[1].set THEN events[1].servers ELSE configured
        /\ UNCHANGED <<check, conn>>
    BY <1>4 DEF R!TakeEvent, ListTypes
  <2>2. /\ events' \in Seq(PostedList) /\ 1 \in 1..Len(events)
        /\ Len(events') = Len(events) - 1 /\ Len(events) \in Nat
        /\ \A k \in 1..Len(events') : events'[k] = events[k + 1]
    BY <2>1 DEF ListTypes
  <2>3. events[1].set \/ events[1].servers # {}
    BY <2>2, Zenon DEF ResultsNotEmpty
  <2>4. ResultsNotEmpty'
    BY <2>2 DEF ResultsNotEmpty
  <2> QED
    BY <2>1, <2>2, <2>3, <2>4, Zenon DEF ListTypes, R!NeverWithoutRelay
<1>5. CASE R!EndCheck
  <2>1. UNCHANGED <<configured, offered, conn>> /\ check' = None /\ check.found \in SUBSET Servers
    BY <1>5, Zenon DEF R!EndCheck, ListTypes
  <2>2. UNCHANGED events \/ (check.found # {} /\ R!Post(FALSE, check.found))
    BY <1>5, Zenon DEF R!EndCheck
  <2>3. events' \in Seq(PostedList) /\ ResultsNotEmpty'
    BY <2>1, <2>2, PostKeeps, Zenon DEF ListTypes, ResultsNotEmpty
  <2> QED
    BY <2>1, <2>3, Zenon DEF ListTypes, R!NeverWithoutRelay
<1>6. CASE R!Rebind \/ (\E l \in Listeners : R!ListenerFails(l)) \/ (\E s \in Servers : R!Flip(s))
  BY <1>1, <1>6, Zenon DEF R!Rebind, R!ListenerFails, R!Flip, ListTypes
<1>7. CASE R!RebindFails
  <2>1. /\ events' = <<>> /\ check' = None /\ conn' = [c \in Conns |-> R!At("none")]
        /\ UNCHANGED <<configured, offered>>
    BY <1>7, Zenon DEF R!RebindFails
  <2> QED
    BY <2>1, PlaceOf DEF ListTypes, ResultsNotEmpty, R!NeverWithoutRelay
<1>8. ASSUME NEW c \in Conns, NEW kind \in {"console", "greeting"}, R!Accept(c, kind)
      PROVE  ListInv'
  BY <1>1, <1>8, PlaceOf, Zenon DEF R!Accept, ListTypes
<1>9. ASSUME NEW c \in Conns, R!Task(c) \/ R!Written(c)
      PROVE  ListInv'
  <2>1. CASE R!ConsolePost(c)
    <3>1. /\ UNCHANGED <<configured, offered, check>> /\ R!Post(TRUE, conn[c].servers)
          /\ conn' = [conn EXCEPT ![c] = R!At("reply")]
      BY <2>1, Zenon DEF R!ConsolePost, R!Turn
    <3>2. conn[c].servers \in Lists \cup SUBSET Servers
      BY Zenon DEF ListTypes, Place
    <3>3. events' \in Seq(PostedList) /\ ResultsNotEmpty'
      BY <3>1, <3>2, PostKeeps, Zenon DEF ListTypes
    <3> QED
      BY <3>1, <3>3, PlaceOf, Zenon DEF ListTypes, R!NeverWithoutRelay
  <2>2. CASE ~R!ConsolePost(c)
    <3>1. /\ UNCHANGED <<configured, offered, events, check>>
          /\ \E r \in Place : conn' = [conn EXCEPT ![c] = r]
      BY <1>9, <2>2, PlaceOf, Zenon
      DEF R!Task, R!ConsoleSet, R!ConsoleOther, R!Handshake, R!Message, R!Written, R!Turn, Place
    <3> QED
      BY <1>1, <3>1, Zenon DEF ListTypes
  <2> QED
    BY <2>1, <2>2, Zenon
<1> QED
  BY <1>2, <1>3, <1>4, <1>5, <1>6, <1>7, <1>8, <1>9, Zenon DEF R!Next, R!HealthCheck

\* While relay servers are configured, clients are offered some, for any number
\* of servers, consoles and queued events: check_relay_servers posts no empty
\* result, and a result of an older list that arrives late is not empty either.
THEOREM ARelayIsOffered == PartsSpec => []NeverWithoutRelay
<1>1. R!Init => ListInv
  BY PlaceOf DEF R!Init, ListInv, ListTypes, ResultsNotEmpty, R!NeverWithoutRelay
<1>2. ListInv => NeverWithoutRelay
  BY Zenon DEF ListInv, NeverWithoutRelay
<1> QED
  BY <1>1, <1>2, NextList, StartOfParts, StepsOfParts, PTL DEF PartsSpec

-----------------------------------------------------------------------------
(* IP_CHANGES: an address is no older than the entry that holds it.        *)

ChangeEntry == [since : Nat, ips : SUBSET Ips]
ChangeTypes ==
  changes \in [Ids -> ChangeEntry \cup {None}] /\ seen \in [Ids -> [Ips -> Nat]]
AddressesAged == \A id \in Ids : changes[id] # None =>
  \A ip \in changes[id].ips : seen[id][ip] <= changes[id].since
ChangeInv == ChangeTypes /\ AddressesAged

\* Whatever removes entries, the purge, the cleanup and the console.
LEMMA FewerChanges ==
  ASSUME ChangeInv, NEW kept, changes' = L!Retain(changes, kept), UNCHANGED seen
  PROVE  ChangeInv'
<1>1. /\ changes' \in [Ids -> ChangeEntry \cup {None}]
      /\ \A id \in Ids : changes'[id] = changes[id] \/ changes'[id] = None
  BY Zenon DEF ChangeInv, ChangeTypes, L!Retain
<1> QED
  BY <1>1, Zenon DEF ChangeInv, ChangeTypes, AddressesAged

LEMMA RecordKeeps ==
  ASSUME ChangeInv, NEW id \in Ids, NEW ip \in Ips, L!RecordIpChange(id, ip)
  PROVE  ChangeInv'
<1> DEFINE table == L!Purged(changes, id, L!LiveChanges)
           c == IF table[id] = None THEN [since |-> 0, ips |-> {}] ELSE L!CurrentChange(table[id])
<1>1. \/ changes' = table /\ UNCHANGED seen
      \/ changes' = [table EXCEPT ![id] = [c EXCEPT !.ips = c.ips]] /\ UNCHANGED seen
      \/ /\ changes' = [table EXCEPT ![id] = [c EXCEPT !.ips = c.ips \cup {ip}]]
         /\ seen' = [seen EXCEPT ![id][ip] = 0]
  BY Zenon DEF L!RecordIpChange
<1>2. /\ table \in [Ids -> ChangeEntry \cup {None}]
      /\ \A k \in Ids : table[k] = changes[k] \/ table[k] = None
  BY Zenon DEF ChangeInv, ChangeTypes, L!Purged, L!Retain
<1>3. c \in ChangeEntry /\ \A a \in c.ips : a \in Ips /\ seen[id][a] <= c.since
  <2>1. CASE table[id] = None
    BY <2>1, Zenon DEF ChangeEntry
  <2>2. CASE table[id] # None
    <3>1. table[id] = changes[id] /\ table[id] \in ChangeEntry
      BY <1>2, <2>2, Zenon
    <3>2. \/ c = [since |-> 0, ips |-> {}]
          \/ c = changes[id]
      BY <2>2, <3>1, Zenon DEF L!CurrentChange
    <3> QED
      BY <2>2, <3>1, <3>2 DEF ChangeEntry, ChangeInv, AddressesAged
  <2> QED
    BY <2>1, <2>2, Zenon
<1> HIDE DEF table, c
<1>4. ASSUME UNCHANGED seen, NEW e \in ChangeEntry \cup {None}, changes' = [table EXCEPT ![id] = e],
             e # None => \A a \in e.ips : seen[id][a] <= e.since
      PROVE  ChangeInv'
  <2>1. /\ changes' \in [Ids -> ChangeEntry \cup {None}] /\ changes'[id] = e
        /\ \A k \in Ids \ {id} : changes'[k] = changes[k] \/ changes'[k] = None
    BY <1>2, <1>4, Zenon
  <2> QED
    BY <1>4, <2>1, Zenon DEF ChangeInv, ChangeTypes, AddressesAged
<1>5. CASE changes' = table /\ UNCHANGED seen
  BY <1>2, <1>5, Zenon DEF ChangeInv, ChangeTypes, AddressesAged
<1>6. CASE changes' = [table EXCEPT ![id] = [c EXCEPT !.ips = c.ips]] /\ UNCHANGED seen
  <2>1. [c EXCEPT !.ips = c.ips] = c
    BY <1>3, Zenon DEF ChangeEntry
  <2> QED
    BY <1>3, <1>4, <1>6, <2>1, Zenon
<1>7. CASE /\ changes' = [table EXCEPT ![id] = [c EXCEPT !.ips = c.ips \cup {ip}]]
           /\ seen' = [seen EXCEPT ![id][ip] = 0]
  <2> DEFINE e == [c EXCEPT !.ips = c.ips \cup {ip}]
  <2>1. e \in ChangeEntry /\ e.since = c.since /\ e.ips = c.ips \cup {ip} /\ c.since \in Nat
    BY <1>3, Zenon DEF ChangeEntry
  <2> HIDE DEF e
  <2>2. /\ changes' \in [Ids -> ChangeEntry \cup {None}] /\ changes'[id] = e
        /\ \A k \in Ids \ {id} : changes'[k] = changes[k] \/ changes'[k] = None
    BY <1>2, <1>7, <2>1, Zenon DEF e
  <2>3. /\ seen' \in [Ids -> [Ips -> Nat]] /\ seen'[id][ip] = 0
        /\ \A a \in Ips \ {ip} : seen'[id][a] = seen[id][a]
        /\ \A k \in Ids \ {id} : seen'[k] = seen[k]
    BY <1>7, Zenon DEF ChangeInv, ChangeTypes
  <2>4. \A a \in e.ips : seen'[id][a] <= e.since
    BY <1>3, <2>1, <2>3
  <2>5. AddressesAged'
    BY <2>2, <2>3, <2>4, Zenon DEF ChangeInv, ChangeTypes, AddressesAged
  <2> QED
    BY <2>2, <2>3, <2>5, Zenon DEF ChangeInv, ChangeTypes
<1> QED
  BY <1>1, <1>5, <1>6, <1>7, Zenon

\* Entries and addresses grow old together.
LEMMA TickAges ==
  ASSUME ChangeInv, L!Tick
  PROVE  ChangeInv'
<1>1. /\ changes' = [id \in Ids |-> L!OlderEntry(changes[id], 2 * ChangeDur)]
      /\ seen' = [id \in Ids |-> [ip \in Ips |-> L!Older(seen[id][ip], 2 * ChangeDur)]]
  BY Zenon DEF L!Tick
<1>2. \A a \in Nat : L!Older(a, 2 * ChangeDur) \in Nat
  BY LimitBounds DEF L!Older
<1>3. seen' \in [Ids -> [Ips -> Nat]]
  BY <1>1, <1>2, Zenon DEF ChangeInv, ChangeTypes
<1>4. ASSUME NEW id \in Ids
      PROVE  /\ changes'[id] \in ChangeEntry \cup {None}
             /\ changes'[id] # None => \A ip \in changes'[id].ips : seen'[id][ip] <= changes'[id].since
  <2>1. CASE changes[id] = None
    BY <1>1, <2>1, Zenon DEF L!OlderEntry
  <2>2. CASE changes[id] # None
    <3> DEFINE e == changes[id]
    <3>1. e \in ChangeEntry /\ changes'[id] = [e EXCEPT !.since = L!Older(e.since, 2 * ChangeDur)]
      BY <1>1, <2>2, Zenon DEF ChangeInv, ChangeTypes, L!OlderEntry
    <3>2. /\ changes'[id] \in ChangeEntry /\ changes'[id].ips = e.ips
          /\ changes'[id].since = L!Older(e.since, 2 * ChangeDur)
          /\ e.since \in Nat /\ e.ips \subseteq Ips
      BY <1>2, <3>1, Zenon DEF ChangeEntry
    <3>3. ASSUME NEW ip \in e.ips PROVE seen'[id][ip] <= changes'[id].since
      <4>1. seen[id][ip] \in Nat /\ seen[id][ip] <= e.since
        BY <2>2, <3>2, <3>3, Zenon DEF ChangeInv, ChangeTypes, AddressesAged
      <4>2. seen'[id][ip] = L!Older(seen[id][ip], 2 * ChangeDur)
        BY <1>1, <3>2, <3>3, Zenon
      <4> QED
        BY <3>2, <4>1, <4>2, LimitBounds DEF L!Older
    <3> QED
      BY <3>2, <3>3, Zenon
  <2> QED
    BY <2>1, <2>2, Zenon
<1>5. changes' \in [Ids -> ChangeEntry \cup {None}]
  BY <1>1, <1>4, Zenon
<1> QED
  BY <1>3, <1>4, <1>5, Zenon DEF ChangeInv, ChangeTypes, AddressesAged

LEMMA NextChanges ==
  ASSUME ChangeInv, [L!Next]_(L!vars)
  PROVE  ChangeInv'
<1>1. CASE UNCHANGED <<changes, seen>>
  BY <1>1, Zenon DEF ChangeInv, ChangeTypes, AddressesAged
<1>2. CASE L!Requests \/ L!Proxying
  BY <1>1, <1>2, Zenon DEF L!Requests, L!Proxying, L!AllowIpRequest, L!ShowIpBlockers,
                    L!AllowHttpProxyRequest, L!changeVars
<1>3. CASE L!Changes
  BY <1>3, RecordKeeps, FewerChanges, Zenon DEF L!Changes, L!ShowIpChanges
<1>4. CASE L!CleanupTransientState
  BY <1>4, FewerChanges, Zenon DEF L!CleanupTransientState
<1> QED
  BY <1>1, <1>2, <1>3, <1>4, TickAges, Zenon DEF L!Next, L!vars

\* What the console shows of a peer's addresses was recorded within the last
\* two windows, for any limits and any number of peers and addresses:
\* record_ip_change starts an empty window before it uses an old entry again.
THEOREM ShownChangesAreRecent == PartsSpec => []ChangesAreRecent
<1>1. L!Init => ChangeInv
  BY LimitBounds DEF L!Init, ChangeInv, ChangeTypes, AddressesAged
<1>2. ChangeInv => ChangesAreRecent
  <2> SUFFICES ASSUME ChangeInv, NEW id \in Ids, changes[id] # None,
                      changes[id].since < 2 * ChangeDur, NEW ip \in changes[id].ips
               PROVE  seen[id][ip] < 2 * ChangeDur
    BY Zenon DEF ChangesAreRecent, L!ChangesAreRecent, L!ChangeLive
  <2>1. changes[id].since \in Nat /\ seen[id][ip] \in Nat /\ seen[id][ip] <= changes[id].since
    BY Zenon DEF ChangeInv, ChangeTypes, ChangeEntry, AddressesAged
  <2> QED
    BY <2>1, LimitBounds
<1> QED
  BY <1>1, <1>2, NextChanges, StartOfParts, StepsOfParts, PTL DEF PartsSpec
=============================================================================
