----------------------------- MODULE Deployments -----------------------------
(***************************************************************************)
(* Mutable deployments: deploy, edit_script and transfer_editor of the     *)
(* marketplace, with the key ids that tell processors which keys a job     *)
(* uses.  What register_for does besides storing the script is the module  *)
(* Marketplace.  Hashes are injective: a deployment hash is the pair of    *)
(* owner and script, a key id is the job it was made for.                  *)
(***************************************************************************)
EXTENDS Naturals

CONSTANTS Owners,     \* accounts: owners and editors
          Scripts,
          MaxJobs,    \* bound on the jobs registered
          None

ASSUME DeploymentAssumption == MaxJobs \in Nat /\ None \notin Owners

JobIds == Owners \X (1 .. MaxJobs)

ASSUME NoneIsNoJob == None \notin JobIds \cup (Owners \X Scripts)

VARIABLES last_job_id,      \* LocalJobIdSequence
          scripts,          \* StoredJobRegistration: the script of a job, or None
          editors,          \* Editors
          job_key_ids,      \* JobKeyIds
          hashes,           \* DeploymentHashes
          key_ids           \* DeploymentKeyIds

deployVars == <<last_job_id, scripts, editors, job_key_ids, hashes, key_ids>>

DeploymentHash(job, script) == <<job[1], script>>

-----------------------------------------------------------------------------
\* Slip: the key id stays with the original deployment as well.
transfer_key_id_copied(from, to) == [key_ids EXCEPT ![to] = key_ids[from]]

\* The key id moves from one deployment to the other, whichever job it is of.
transfer_key_id(from, to) ==
    [h \in DOMAIN key_ids |-> IF h = to THEN key_ids[from]
                              ELSE IF h = from THEN None ELSE key_ids[h]]

\* Slip: keys may be reused from a job of any owner.
MayReuse_anyOwner(job, original, editor, hash) ==
    /\ editors[original] # None
    /\ editor # None => editors[original] \in {job[1], editor}
    /\ hashes[original] # None
    /\ editors[original] = job[1] \/ hashes[original] = hash
    /\ key_ids[hashes[original]] # None

\* deploy: the checks on reuse_keys_from for a mutable job.
MayReuse(job, original, editor, hash) ==
    /\ original[1] = job[1]
    /\ editors[original] # None
    /\ editor # None => editors[original] \in {job[1], editor}
    /\ hashes[original] # None
    /\ editors[original] = job[1] \/ hashes[original] = hash
    /\ key_ids[hashes[original]] # None

\* register_for stores the registration of a new job.
NewJob(job, script) ==
    /\ last_job_id < MaxJobs
    /\ last_job_id' = last_job_id + 1
    /\ scripts' = [scripts EXCEPT ![job] = script]

Register(who, script) ==
    /\ NewJob(<<who, last_job_id + 1>>, script)
    /\ UNCHANGED <<editors, job_key_ids, hashes, key_ids>>

\* deploy with ScriptMutability::Immutable
DeployImmutable(who, script, original) ==
    LET job  == <<who, last_job_id + 1>>
        hash == DeploymentHash(job, script)
    IN  /\ original # None => /\ hashes[original] \in {None, hash}
                              /\ editors[original] = None
        /\ NewJob(job, script)
        /\ hashes' = [hashes EXCEPT ![job] = hash]
        /\ UNCHANGED <<editors, job_key_ids, key_ids>>

\* deploy with ScriptMutability::Mutable(editor)
DeployMutable(who, script, editor, original) ==
    LET job    == <<who, last_job_id + 1>>
        hash   == DeploymentHash(job, script)
        key    == IF original = None THEN job ELSE key_ids[hashes[original]]
        owning == IF editor # None THEN editor
                  ELSE IF original = None THEN who ELSE editors[original]
    IN  /\ original # None => MayReuse(job, original, editor, hash)
        /\ NewJob(job, script)
        /\ editors' = [editors EXCEPT ![job] = owning]
        /\ key_ids' = IF original = None THEN [key_ids EXCEPT ![hash] = key]
                      ELSE transfer_key_id(hashes[original], hash)
        /\ job_key_ids' = [job_key_ids EXCEPT ![job] = key]
        /\ hashes' = [hashes EXCEPT ![job] = hash]

\* Slip: DeploymentHashes is not updated.
EditScript_hashKept(who, job, script) ==
    LET old == DeploymentHash(job, scripts[job])
    IN  /\ editors[job] = who /\ scripts[job] # None
        /\ key_ids[old] # None
        /\ scripts' = [scripts EXCEPT ![job] = script]
        /\ key_ids' = transfer_key_id(old, DeploymentHash(job, script))
        /\ UNCHANGED <<last_job_id, editors, job_key_ids, hashes>>

EditScript(who, job, script) ==
    LET old == DeploymentHash(job, scripts[job])
        new == DeploymentHash(job, script)
    IN  /\ editors[job] = who
        /\ scripts[job] # None
        /\ key_ids[old] # None
        /\ scripts' = [scripts EXCEPT ![job] = script]
        /\ key_ids' = transfer_key_id(old, new)
        /\ hashes' = [hashes EXCEPT ![job] = new]
        /\ UNCHANGED <<last_job_id, editors, job_key_ids>>

\* transfer_editor; None makes the job immutable.
TransferEditor(who, job, new_editor) ==
    /\ editors[job] = who
    /\ editors' = [editors EXCEPT ![job] = new_editor]
    /\ UNCHANGED <<last_job_id, scripts, job_key_ids, hashes, key_ids>>

\* deregister: the registration and the key id of the job go, its editor and
\* its deployment hash stay.
Deregister(job) ==
    /\ scripts[job] # None
    /\ scripts' = [scripts EXCEPT ![job] = None]
    /\ job_key_ids' = [job_key_ids EXCEPT ![job] = None]
    /\ UNCHANGED <<last_job_id, editors, hashes, key_ids>>

DeployInit ==
    /\ last_job_id = 0
    /\ scripts = [j \in JobIds |-> None] /\ editors = [j \in JobIds |-> None]
    /\ job_key_ids = [j \in JobIds |-> None] /\ hashes = [j \in JobIds |-> None]
    /\ key_ids = [h \in Owners \X Scripts |-> None]

DeployNext ==
    \/ \E who \in Owners, script \in Scripts :
          \/ Register(who, script)
          \/ \E original \in JobIds \cup {None} :
                \/ DeployImmutable(who, script, original)
                \/ \E editor \in Owners \cup {None} :
                      DeployMutable(who, script, editor, original)
    \/ \E who \in Owners, job \in JobIds :
          \/ \E script \in Scripts : EditScript(who, job, script)
          \/ \E new_editor \in Owners \cup {None} : TransferEditor(who, job, new_editor)
    \/ \E job \in JobIds : Deregister(job)

DeploySpec == DeployInit /\ [][DeployNext]_deployVars

-----------------------------------------------------------------------------
\* The storage of deployments is well typed.
DeployTypeOK ==
    /\ last_job_id \in 0 .. MaxJobs
    /\ scripts \in [JobIds -> Scripts \cup {None}]
    /\ editors \in [JobIds -> Owners \cup {None}]
    /\ job_key_ids \in [JobIds -> JobIds \cup {None}]
    /\ hashes \in [JobIds -> (Owners \X Scripts) \cup {None}]
    /\ key_ids \in [Owners \X Scripts -> JobIds \cup {None}]

\* deploy and edit_script: keys made for one owner are never handed to a job
\* or a future deployment of another owner.
KeysNeverCrossOwners ==
    /\ \A j \in JobIds : job_key_ids[j] # None => job_key_ids[j][1] = j[1]
    /\ \A h \in Owners \X Scripts : key_ids[h] # None => key_ids[h][1] = h[1]

\* deploy: "the keys are transferred, meaning no other job can reuse them" -
\* a key id is on offer to the deployments of one script only.
KeyAtOneDeployment ==
    \A g, h \in Owners \X Scripts : (g # h /\ key_ids[g] # None) => key_ids[g] # key_ids[h]

\* edit_script: the deployment hash of a deployed job is that of the script
\* it runs, so that a later deploy compares with what really runs.
HashFollowsScript ==
    \A j \in JobIds :
        (hashes[j] # None /\ scripts[j] # None) => hashes[j] = DeploymentHash(j, scripts[j])
=============================================================================
