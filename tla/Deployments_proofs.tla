------------------------- MODULE Deployments_proofs -------------------------
(***************************************************************************)
(* Proofs about Deployments, for every set of owners and scripts and every *)
(* number of jobs.                                                         *)
(***************************************************************************)
EXTENDS Deployments, TLAPS

Hashes == Owners \X Scripts

\* What makes the key properties inductive: job ids that are not given out
\* yet appear nowhere, and a deployment hash names the owner of its job.
FutureUntouched ==
    \A j \in JobIds : j[2] > last_job_id => scripts[j] = None /\ hashes[j] = None

KeysAreOld == \A h \in Hashes : key_ids[h] # None => key_ids[h][2] <= last_job_id

HashOfOwner == \A j \in JobIds : hashes[j] # None => hashes[j][1] = j[1]

KeyInv ==
    /\ DeployTypeOK
    /\ KeysNeverCrossOwners /\ KeyAtOneDeployment /\ HashFollowsScript
    /\ FutureUntouched /\ KeysAreOld /\ HashOfOwner

-----------------------------------------------------------------------------
\* A deployment hash keeps the owner of the job.
LEMMA HashTyped ==
    ASSUME NEW j \in JobIds, NEW s \in Scripts
    PROVE  DeploymentHash(j, s) \in Hashes /\ DeploymentHash(j, s)[1] = j[1]
BY DEF DeploymentHash, Hashes, JobIds

\* The next job id is a job id.
LEMMA NewJobId ==
    ASSUME DeployTypeOK, last_job_id < MaxJobs, NEW who \in Owners
    PROVE  /\ <<who, last_job_id + 1>> \in JobIds
           /\ last_job_id + 1 \in 0 .. MaxJobs
           /\ last_job_id \in Nat
BY DeploymentAssumption DEF DeployTypeOK, JobIds

\* transfer_key_id between two deployments of one owner keeps every key with
\* its owner and at one deployment.
LEMMA TransferKeeps ==
    ASSUME KeyInv, NEW from \in Hashes, NEW to \in Hashes, from[1] = to[1]
    PROVE  LET k == transfer_key_id(from, to)
           IN  /\ k \in [Hashes -> JobIds \cup {None}]
               /\ \A h \in Hashes : k[h] # None => k[h][1] = h[1] /\ k[h][2] <= last_job_id
               /\ \A g, h \in Hashes : (g # h /\ k[g] # None) => k[g] # k[h]
<1> DEFINE k == transfer_key_id(from, to)
<1>1. key_ids \in [Hashes -> JobIds \cup {None}]
  BY DEF KeyInv, DeployTypeOK, Hashes
<1>2. k \in [Hashes -> JobIds \cup {None}]
  BY <1>1 DEF transfer_key_id
<1>3. \A h \in Hashes : k[h] = IF h = to THEN key_ids[from]
                               ELSE IF h = from THEN None ELSE key_ids[h]
  BY <1>1 DEF transfer_key_id
<1>4. \A h \in Hashes : k[h] # None => k[h][1] = h[1] /\ k[h][2] <= last_job_id
  BY <1>1, <1>3 DEF KeyInv, KeysNeverCrossOwners, KeysAreOld, Hashes
<1>5. \A g, h \in Hashes : (g # h /\ k[g] # None) => k[g] # k[h]
  BY <1>1, <1>3 DEF KeyInv, KeyAtOneDeployment, Hashes
<1> QED BY <1>2, <1>4, <1>5

-----------------------------------------------------------------------------
\* No deployment, no key: the initial state satisfies the invariant.
LEMMA InitKeys == DeployInit => KeyInv
<1> SUFFICES ASSUME DeployInit PROVE KeyInv
  OBVIOUS
<1> USE DEF DeployInit
<1>1. DeployTypeOK
  BY DeploymentAssumption DEF DeployTypeOK
<1>2. KeysNeverCrossOwners /\ KeyAtOneDeployment /\ HashFollowsScript
  BY DEF KeysNeverCrossOwners, KeyAtOneDeployment, HashFollowsScript
<1>3. FutureUntouched /\ KeysAreOld /\ HashOfOwner
  BY DEF FutureUntouched, KeysAreOld, HashOfOwner, Hashes
<1> QED BY <1>1, <1>2, <1>3 DEF KeyInv

\* register keeps the invariant: the new job has no deployment.
LEMMA RegisterKeys ==
    ASSUME KeyInv, NEW who \in Owners, NEW script \in Scripts, Register(who, script)
    PROVE  KeyInv'
<1> DEFINE job == <<who, last_job_id + 1>>
<1>1. job \in JobIds /\ last_job_id + 1 \in 0 .. MaxJobs /\ last_job_id \in Nat
  BY NewJobId DEF KeyInv, Register, NewJob
<1> USE DEF Register, NewJob
<1>2. DeployTypeOK'
  BY <1>1 DEF KeyInv, DeployTypeOK
<1>3. hashes[job] = None
  BY <1>1 DEF KeyInv, FutureUntouched
<1>4. KeysNeverCrossOwners' /\ KeyAtOneDeployment' /\ HashOfOwner'
  BY DEF KeyInv, KeysNeverCrossOwners, KeyAtOneDeployment, HashOfOwner
<1>5. HashFollowsScript'
  BY <1>1, <1>3 DEF KeyInv, DeployTypeOK, HashFollowsScript
<1>6. FutureUntouched'
  BY <1>1 DEF KeyInv, DeployTypeOK, FutureUntouched, JobIds
<1>7. KeysAreOld'
  BY <1>1 DEF KeyInv, DeployTypeOK, KeysAreOld, Hashes, JobIds
<1> QED BY <1>2, <1>4, <1>5, <1>6, <1>7 DEF KeyInv

\* deploy of an immutable job keeps the invariant: no key moves.
LEMMA DeployImmutableKeys ==
    ASSUME KeyInv, NEW who \in Owners, NEW script \in Scripts,
           NEW original \in JobIds \cup {None}, DeployImmutable(who, script, original)
    PROVE  KeyInv'
<1> DEFINE job  == <<who, last_job_id + 1>>
           hash == DeploymentHash(job, script)
<1>1. job \in JobIds /\ last_job_id + 1 \in 0 .. MaxJobs /\ last_job_id \in Nat
  BY NewJobId DEF KeyInv, DeployImmutable, NewJob
<1>h. hash \in Hashes /\ hash[1] = job[1]
  BY <1>1, HashTyped
<1>s. /\ last_job_id' = last_job_id + 1 /\ scripts' = [scripts EXCEPT ![job] = script]
      /\ hashes' = [hashes EXCEPT ![job] = hash]
      /\ UNCHANGED <<editors, job_key_ids, key_ids>>
  BY DEF DeployImmutable, NewJob
<1>2. DeployTypeOK'
  BY <1>1, <1>h, <1>s DEF KeyInv, DeployTypeOK, Hashes
<1>4. KeysNeverCrossOwners' /\ KeyAtOneDeployment'
  BY <1>s DEF KeyInv, KeysNeverCrossOwners, KeyAtOneDeployment
<1>5. HashFollowsScript' /\ HashOfOwner'
  BY <1>1, <1>h, <1>s DEF KeyInv, DeployTypeOK, HashFollowsScript, HashOfOwner
<1>6. FutureUntouched'
  BY <1>1, <1>s DEF KeyInv, DeployTypeOK, FutureUntouched, JobIds
<1>7. KeysAreOld'
  BY <1>1, <1>s DEF KeyInv, DeployTypeOK, KeysAreOld, Hashes, JobIds
<1> QED BY <1>2, <1>4, <1>5, <1>6, <1>7 DEF KeyInv

\* The keys that a mutable deployment moves or makes stay with the owner.
LEMMA DeployMutableKeyIds ==
    ASSUME KeyInv, NEW who \in Owners, NEW script \in Scripts,
           NEW original \in JobIds \cup {None}, NEW editor \in Owners \cup {None},
           DeployMutable(who, script, editor, original)
    PROVE  LET key == IF original = None THEN <<who, last_job_id + 1>>
                      ELSE key_ids[hashes[original]]
           IN  /\ key \in JobIds /\ key[1] = who
               /\ key_ids' \in [Hashes -> JobIds \cup {None}]
               /\ \A h \in Hashes : key_ids'[h] # None =>
                     key_ids'[h][1] = h[1] /\ key_ids'[h][2] <= last_job_id + 1
               /\ \A g, h \in Hashes : (g # h /\ key_ids'[g] # None) => key_ids'[g] # key_ids'[h]
<1> DEFINE job  == <<who, last_job_id + 1>>
           hash == DeploymentHash(job, script)
<1>1. job \in JobIds /\ last_job_id + 1 \in 0 .. MaxJobs /\ last_job_id \in Nat
  BY NewJobId DEF KeyInv, DeployMutable, NewJob
<1>2. hash \in Hashes /\ hash[1] = who /\ job[1] = who /\ job[2] = last_job_id + 1
  BY <1>1, HashTyped
<1>3. key_ids \in [Hashes -> JobIds \cup {None}]
  BY DEF KeyInv, DeployTypeOK, Hashes
<1>n. \A k \in JobIds : k[2] \in Nat /\ k # None
  BY NoneIsNoJob, DeploymentAssumption DEF JobIds
<1>4. CASE original = None
  <2>1. key_ids' = [key_ids EXCEPT ![hash] = job]
    BY <1>4 DEF DeployMutable
  <2>2. \A h \in Hashes : key_ids[h] # None => key_ids[h][1] = h[1] /\ key_ids[h][2] <= last_job_id
    BY DEF KeyInv, KeysNeverCrossOwners, KeysAreOld, Hashes
  <2>3. \A h \in Hashes : key_ids[h] # job
    BY <1>1, <1>2, <1>n, <2>2
  <2>4. \A h \in Hashes : key_ids'[h] # None =>
            key_ids'[h][1] = h[1] /\ key_ids'[h][2] <= last_job_id + 1
    BY <1>1, <1>2, <1>3, <1>n, <2>1, <2>2
  <2>5. \A g, h \in Hashes : (g # h /\ key_ids'[g] # None) => key_ids'[g] # key_ids'[h]
    BY <1>1, <1>2, <1>3, <2>1, <2>3 DEF KeyInv, KeyAtOneDeployment, Hashes
  <2> QED BY <1>1, <1>2, <1>3, <1>4, <2>1, <2>4, <2>5
<1>5. CASE original # None
  <2> DEFINE from == hashes[original]
  <2>1. MayReuse(job, original, editor, hash) /\ original \in JobIds
    BY <1>5 DEF DeployMutable
  <2>2. from \in Hashes /\ from[1] = hash[1] /\ key_ids[from] # None
    BY <1>2, <2>1 DEF MayReuse, KeyInv, DeployTypeOK, HashOfOwner, Hashes
  <2>3. key_ids' = transfer_key_id(from, hash)
    BY <1>5 DEF DeployMutable
  <2>4. key_ids[from] \in JobIds /\ key_ids[from][1] = who
    BY <1>2, <1>3, <2>2 DEF KeyInv, KeysNeverCrossOwners, Hashes
  <2>5. \A h \in Hashes : key_ids'[h] # None =>
            key_ids'[h][1] = h[1] /\ key_ids'[h][2] <= last_job_id
    BY <1>2, <2>2, <2>3, TransferKeeps
  <2>6. /\ key_ids' \in [Hashes -> JobIds \cup {None}]
        /\ \A g, h \in Hashes : (g # h /\ key_ids'[g] # None) => key_ids'[g] # key_ids'[h]
    <3> HIDE DEF from, hash
    <3> QED BY <1>2, <2>2, <2>3, TransferKeeps
  <2>7. \A h \in Hashes : key_ids'[h] # None =>
            key_ids'[h][1] = h[1] /\ key_ids'[h][2] <= last_job_id + 1
    BY <1>1, <1>n, <2>5, <2>6
  <2> QED BY <1>5, <2>4, <2>6, <2>7
<1> QED BY <1>4, <1>5

\* deploy of a mutable job keeps the invariant.
LEMMA DeployMutableKeys ==
    ASSUME KeyInv, NEW who \in Owners, NEW script \in Scripts,
           NEW original \in JobIds \cup {None}, NEW editor \in Owners \cup {None},
           DeployMutable(who, script, editor, original)
    PROVE  KeyInv'
<1> DEFINE job    == <<who, last_job_id + 1>>
           hash   == DeploymentHash(job, script)
           key    == IF original = None THEN job ELSE key_ids[hashes[original]]
           owning == IF editor # None THEN editor
                     ELSE IF original = None THEN who ELSE editors[original]
<1>1. job \in JobIds /\ last_job_id + 1 \in 0 .. MaxJobs /\ last_job_id \in Nat
  BY NewJobId DEF KeyInv, DeployMutable, NewJob
<1>h. hash \in Hashes /\ hash[1] = job[1] /\ job[1] = who
  BY <1>1, HashTyped
<1>k. /\ key \in JobIds /\ key[1] = who
      /\ key_ids' \in [Hashes -> JobIds \cup {None}]
      /\ \A h \in Hashes : key_ids'[h] # None =>
            key_ids'[h][1] = h[1] /\ key_ids'[h][2] <= last_job_id + 1
      /\ \A g, h \in Hashes : (g # h /\ key_ids'[g] # None) => key_ids'[g] # key_ids'[h]
  BY DeployMutableKeyIds
<1>s. /\ last_job_id' = last_job_id + 1 /\ scripts' = [scripts EXCEPT ![job] = script]
      /\ hashes' = [hashes EXCEPT ![job] = hash]
      /\ editors' = [editors EXCEPT ![job] = owning]
      /\ job_key_ids' = [job_key_ids EXCEPT ![job] = key]
  BY DEF DeployMutable, NewJob
<1>o. owning \in Owners \cup {None}
  BY DEF KeyInv, DeployTypeOK
<1>2. DeployTypeOK'
  <2> HIDE DEF job, hash, key, owning
  <2> QED BY <1>1, <1>h, <1>k, <1>s, <1>o DEF KeyInv, DeployTypeOK, Hashes
<1>4. KeysNeverCrossOwners' /\ KeyAtOneDeployment'
  <2> HIDE DEF hash, key, owning
  <2> QED BY <1>1, <1>h, <1>k, <1>s
          DEF KeyInv, DeployTypeOK, KeysNeverCrossOwners, KeyAtOneDeployment, Hashes
<1>5. HashFollowsScript' /\ HashOfOwner'
  BY <1>1, <1>h, <1>s DEF KeyInv, DeployTypeOK, HashFollowsScript, HashOfOwner
<1>6. FutureUntouched'
  BY <1>1, <1>s DEF KeyInv, DeployTypeOK, FutureUntouched, JobIds
<1>7. KeysAreOld'
  BY <1>k, <1>s DEF KeysAreOld
<1> QED BY <1>2, <1>4, <1>5, <1>6, <1>7 DEF KeyInv

\* edit_script keeps the invariant: the key moves to the new script of the
\* same owner and the hash follows.
LEMMA EditScriptKeys ==
    ASSUME KeyInv, NEW who \in Owners, NEW job \in JobIds, NEW script \in Scripts,
           EditScript(who, job, script)
    PROVE  KeyInv'
<1> DEFINE old == DeploymentHash(job, scripts[job])
           new == DeploymentHash(job, script)
<1>1. scripts[job] \in Scripts
  BY DEF EditScript, KeyInv, DeployTypeOK
<1>2. /\ old \in Hashes /\ old[1] = job[1]
      /\ new \in Hashes /\ new[1] = job[1]
  BY <1>1, HashTyped
<1>s. /\ scripts' = [scripts EXCEPT ![job] = script]
      /\ key_ids' = transfer_key_id(old, new)
      /\ hashes' = [hashes EXCEPT ![job] = new]
      /\ scripts[job] # None
      /\ UNCHANGED <<last_job_id, editors, job_key_ids>>
  BY DEF EditScript
<1>k. /\ key_ids' \in [Hashes -> JobIds \cup {None}]
      /\ \A h \in Hashes : key_ids'[h] # None =>
            key_ids'[h][1] = h[1] /\ key_ids'[h][2] <= last_job_id
      /\ \A g, h \in Hashes : (g # h /\ key_ids'[g] # None) => key_ids'[g] # key_ids'[h]
  BY <1>2, <1>s, TransferKeeps
<1> HIDE DEF old
<1>3. DeployTypeOK'
  BY <1>2, <1>s, <1>k DEF KeyInv, DeployTypeOK, Hashes
<1>4. KeysNeverCrossOwners' /\ KeyAtOneDeployment'
  BY <1>s, <1>k DEF KeyInv, KeysNeverCrossOwners, KeyAtOneDeployment, Hashes
<1>5. HashFollowsScript' /\ HashOfOwner'
  BY <1>2, <1>s DEF KeyInv, DeployTypeOK, HashFollowsScript, HashOfOwner
<1>6. FutureUntouched' /\ KeysAreOld'
  BY <1>s, <1>k DEF KeyInv, DeployTypeOK, FutureUntouched, KeysAreOld
<1> QED BY <1>3, <1>4, <1>5, <1>6 DEF KeyInv

\* transfer_editor and deregister keep the invariant: no key id moves.
LEMMA OtherKeys ==
    ASSUME KeyInv, NEW who \in Owners, NEW job \in JobIds, NEW e \in Owners \cup {None},
           TransferEditor(who, job, e) \/ Deregister(job)
    PROVE  KeyInv'
<1>1. CASE TransferEditor(who, job, e)
  BY <1>1 DEF TransferEditor, KeyInv, DeployTypeOK, KeysNeverCrossOwners, KeyAtOneDeployment,
              HashFollowsScript, FutureUntouched, KeysAreOld, HashOfOwner
<1>2. CASE Deregister(job)
  BY <1>2 DEF Deregister, KeyInv, DeployTypeOK, KeysNeverCrossOwners, KeyAtOneDeployment,
              HashFollowsScript, FutureUntouched, KeysAreOld, HashOfOwner
<1> QED BY <1>1, <1>2

\* Every step of the deployments keeps the invariant.
LEMMA NextKeys == KeyInv /\ [DeployNext]_deployVars => KeyInv'
<1> SUFFICES ASSUME KeyInv, [DeployNext]_deployVars PROVE KeyInv'
  OBVIOUS
<1>1. CASE UNCHANGED deployVars
  BY <1>1 DEF deployVars, KeyInv, DeployTypeOK, KeysNeverCrossOwners, KeyAtOneDeployment,
              HashFollowsScript, FutureUntouched, KeysAreOld, HashOfOwner
<1>2. CASE DeployNext
  <2>1. ASSUME NEW who \in Owners, NEW script \in Scripts, Register(who, script)
        PROVE  KeyInv'
    BY <2>1, RegisterKeys
  <2>2. ASSUME NEW who \in Owners, NEW script \in Scripts, NEW original \in JobIds \cup {None},
               DeployImmutable(who, script, original)
        PROVE  KeyInv'
    BY <2>2, DeployImmutableKeys
  <2>3. ASSUME NEW who \in Owners, NEW script \in Scripts, NEW original \in JobIds \cup {None},
               NEW editor \in Owners \cup {None}, DeployMutable(who, script, editor, original)
        PROVE  KeyInv'
    BY <2>3, DeployMutableKeys
  <2>4. ASSUME NEW who \in Owners, NEW job \in JobIds, NEW script \in Scripts,
               EditScript(who, job, script)
        PROVE  KeyInv'
    BY <2>4, EditScriptKeys
  <2>5. ASSUME NEW who \in Owners, NEW job \in JobIds, NEW e \in Owners \cup {None},
               TransferEditor(who, job, e)
        PROVE  KeyInv'
    BY <2>5, OtherKeys
  <2>6. ASSUME NEW job \in JobIds, Deregister(job) PROVE KeyInv'
    <3>1. job[1] \in Owners
      BY DEF JobIds
    <3> QED BY <2>6, <3>1, OtherKeys
  <2> QED BY <1>2, <2>1, <2>2, <2>3, <2>4, <2>5, <2>6 DEF DeployNext
<1> QED BY <1>1, <1>2

-----------------------------------------------------------------------------
\* The storage of deployments stays well typed: deploy never stores a missing
\* key id.
THEOREM DeployTyped == DeploySpec => []DeployTypeOK
<1>1. KeyInv => DeployTypeOK
  BY DEF KeyInv
<1> QED BY InitKeys, NextKeys, <1>1, PTL DEF DeploySpec

\* deploy and edit_script never hand keys made for one owner to another.
THEOREM KeysStayWithOwner == DeploySpec => []KeysNeverCrossOwners
<1>1. KeyInv => KeysNeverCrossOwners
  BY DEF KeyInv
<1> QED BY InitKeys, NextKeys, <1>1, PTL DEF DeploySpec

\* deploy and edit_script move a key id, they never copy it: it is on offer to
\* the deployments of one script.
THEOREM KeyIdsUnique == DeploySpec => []KeyAtOneDeployment
<1>1. KeyInv => KeyAtOneDeployment
  BY DEF KeyInv
<1> QED BY InitKeys, NextKeys, <1>1, PTL DEF DeploySpec

\* edit_script keeps the stored hash of a deployed job that of its script.
THEOREM HashesFollow == DeploySpec => []HashFollowsScript
<1>1. KeyInv => HashFollowsScript
  BY DEF KeyInv
<1> QED BY InitKeys, NextKeys, <1>1, PTL DEF DeploySpec
=============================================================================
