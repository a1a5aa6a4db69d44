-------------------------- MODULE WorkerPoolProofs --------------------------
(***************************************************************************)
(* Proofs about WorkerPool for any configuration and any number of         *)
(* workers, callers, jobs and leftover threads.                            *)
(***************************************************************************)
EXTENDS WorkerPool, FunctionTheorems, FiniteSetTheorems, TLAPS

-----------------------------------------------------------------------------
(* The invariant of every pool: how the table, the threads and the calls fit *)
(* together, and whose hands a running job is in.                            *)

\* An object is registered only once it is created, a worker in the table that
\* was never started has no thread, and a call in progress names its worker.
Registered ==
    /\ \A i \in Ids : pool[i] # None => pool[i] <= created
    /\ \A o \in Objs : o > created => ~looping[o] /\ wthread[o] = "none"
    /\ \A i \in Ids : pool[i] # None /\ ~looping[pool[i]] => wthread[pool[i]] = "none"
    /\ \A c \in Callers : call[c].obj = None => call[c] = NoCall

\* A job is running exactly while it is in a worker's hand, and in no other's.
HandsSound ==
    /\ \A j \in Jobs : status[j] = "running" <=> \E o \in Objs : hand[o] = j
    /\ \A o, p \in Objs : hand[o] # None /\ hand[o] = hand[p] => o = p

Sound == TypeOK /\ Registered /\ HandsSound

-----------------------------------------------------------------------------
(* The invariant of a pool whose users let it name the workers: the object   *)
(* registered under an id is the one created under it.                       *)

OwnIds ==
    /\ \A i \in Objs : pool[i] \in {i, None} /\ info[i].id = i
    /\ \A o \in Objs : o > created =>
          info[o] = NewInfo(o) /\ \A c \in Callers : call[c].obj # o

Assigned == OwnIds /\ ExclusiveAssignment /\ ResourcesConserved /\ NoOrphanWorker

-----------------------------------------------------------------------------
(* The table.                                                              *)

LEMMA MembersAreObjs == ASSUME TypeOK PROVE Members \subseteq Objs /\ None \notin Members
BY DEF Members, TypeOK

\* What Reshape leaves of the table.
LEMMA ReshapeFacts ==
    ASSUME TypeOK, Registered, NEW gone \in SUBSET Members, NEW n \in Nat, Reshape(gone, n)
    PROVE  /\ created' = created + n /\ created' \in 0..MaxObjs /\ created <= created'
           /\ gone \subseteq Objs
           /\ \A i \in Ids : pool'[i] = IF i \in (created + 1)..created' THEN i
                                        ELSE IF pool[i] \in gone THEN None ELSE pool[i]
           /\ pool' \in [Ids -> Objs \union {None}]
           /\ \A i \in Ids : pool'[i] # None =>
                 \/ pool'[i] = pool[i] /\ pool'[i] \notin gone /\ pool'[i] <= created
                 \/ pool'[i] > created /\ pool'[i] <= created'
           /\ \A o \in Objs : info'[o] = IF o \in gone
                                         THEN [info[o] EXCEPT !.state = "stopped"] ELSE info[o]
<1>1. created' = created + n /\ created' \in 0..MaxObjs /\ created <= created'
  BY ConfigAssumption DEF Reshape, TypeOK
<1>2. gone \subseteq Objs
  BY MembersAreObjs
<1>3. \A i \in Ids : pool'[i] = IF i \in (created + 1)..created' THEN i
                                ELSE IF pool[i] \in gone THEN None ELSE pool[i]
  BY <1>1 DEF Reshape
<1>4. \A i \in (created + 1)..created' : i \in Objs
  BY <1>1, ConfigAssumption DEF Objs, TypeOK
<1>5. pool' \in [Ids -> Objs \union {None}]
  BY <1>1, <1>4 DEF Reshape, TypeOK
<1>6. \A i \in Ids : pool'[i] # None =>
         \/ pool'[i] = pool[i] /\ pool'[i] \notin gone /\ pool'[i] <= created
         \/ pool'[i] > created /\ pool'[i] <= created'
  BY <1>1, <1>3 DEF Registered, TypeOK
<1>7. \A o \in Objs : info'[o] = IF o \in gone
                                 THEN [info[o] EXCEPT !.state = "stopped"] ELSE info[o]
  BY DEF Reshape
<1> QED
  BY <1>1, <1>2, <1>3, <1>5, <1>6, <1>7

\* The numbers of workers and of late workers are numbers.
LEMMA Counts ==
    ASSUME TypeOK
    PROVE  /\ Size \in Nat
           /\ \A S \in SUBSET Members : Cardinality(S) \in Nat
           /\ (IF Size < MinWorkers THEN MinWorkers - Size ELSE 0) \in Nat
<1>1. IsFiniteSet(Objs)
  BY FS_Interval, ConfigAssumption DEF Objs
<1>2. \A S \in SUBSET Members : Cardinality(S) \in Nat
  <2> TAKE S \in SUBSET Members
  <2>1. IsFiniteSet(S)
    BY <1>1, FS_Subset, MembersAreObjs
  <2> QED
    BY <2>1, FS_CardinalityType
<1>3. Size \in Nat
  <2>1. IsFiniteSet(Ids)
    BY <1>1, FS_Union, ConfigAssumption DEF Ids
  <2>2. IsFiniteSet({i \in Ids : pool[i] # None})
    BY <2>1, FS_Subset
  <2> QED
    BY <2>2, FS_CardinalityType DEF Size
<1>4. (IF Size < MinWorkers THEN MinWorkers - Size ELSE 0) \in Nat
  BY <1>3, ConfigAssumption
<1> QED
  BY <1>2, <1>3, <1>4

-----------------------------------------------------------------------------
(* Sound is inductive.                                                     *)

Infos == [id : Ids, state : {"idle", "busy", "unhealthy", "stopped"},
          available : Nat, job : Callers \union {None}, late : BOOLEAN]

Calls == [obj : Objs \union {None}, req : Requests \union {0}]

\* The variables only the pool's owner and its two threads use.
AdminOK ==
    /\ running \in BOOLEAN
    /\ stopping \subseteq Stoppers
    /\ emptied \in BOOLEAN /\ (emptied => running)
    /\ loop \in [Loops -> {"unborn", "check", "act", "dead"}]
    /\ userAdded \in Nat /\ userRemoved \in Nat

LEMMA InitSound == Init => Sound
<1> SUFFICES ASSUME Init PROVE Sound
  OBVIOUS
<1> USE DEF Init
<1>1. \A o \in Objs : NewInfo(o) \in Infos
  BY ConfigAssumption DEF NewInfo, Infos, Ids
<1>2. NoCall \in Calls
  BY DEF NoCall, Calls
<1>3. created \in 0..MaxObjs
  BY ConfigAssumption
<1>4. TypeOK
  BY <1>1, <1>2, <1>3 DEF TypeOK, Infos, Calls
<1>5. Registered /\ HandsSound
  BY NamesAssumption DEF Registered, HandsSound, NoCall
<1> QED
  BY <1>4, <1>5 DEF Sound

\* Setting the state, also together with the rest of a WorkerInfo.
LEMMA StateSet ==
    ASSUME NEW r \in Infos, NEW s \in {"idle", "busy", "unhealthy", "stopped"}
    PROVE  [r EXCEPT !.state = s] \in Infos /\ [r EXCEPT !.state = s].id = r.id
BY DEF Infos

\* A step that adds and removes workers, telling the removed ones to stop.
LEMMA ReshapeSound ==
    ASSUME Sound, NEW gone \in SUBSET Members, NEW n \in Nat, Reshape(gone, n),
           StopLooping(gone), UNCHANGED <<wthread, hand, status, call>>, AdminOK'
    PROVE  Sound'
<1> USE DEF Sound
<1>1. /\ created' \in 0..MaxObjs /\ created <= created' /\ gone \subseteq Objs
      /\ pool' \in [Ids -> Objs \union {None}]
      /\ \A i \in Ids : pool'[i] # None =>
            \/ pool'[i] = pool[i] /\ pool'[i] \notin gone /\ pool'[i] <= created
            \/ pool'[i] > created /\ pool'[i] <= created'
      /\ \A o \in Objs : info'[o] = IF o \in gone
                                    THEN [info[o] EXCEPT !.state = "stopped"] ELSE info[o]
  BY ReshapeFacts
<1>2. info' \in [Objs -> Infos]
  <2>1. \A o \in Objs : info[o] \in Infos
    BY DEF TypeOK, Infos
  <2>2. \A o \in Objs : info'[o] \in Infos
    BY <1>1, <2>1, StateSet
  <2> QED
    BY <2>2 DEF Reshape
<1>3. looping' = [o \in Objs |-> looping[o] /\ o \notin gone]
  BY DEF StopLooping
<1>4. looping' \in [Objs -> BOOLEAN]
  BY <1>3 DEF TypeOK
<1>5. TypeOK'
  BY <1>1, <1>2, <1>4 DEF TypeOK, Infos, AdminOK
<1>6. Registered'
  <2>1. \A i \in Ids : pool'[i] # None => pool'[i] <= created'
    <3>1. \A i \in Ids : pool'[i] # None => pool'[i] \in Objs
      BY <1>1
    <3> QED
      BY <1>1, <3>1, ConfigAssumption DEF TypeOK, Objs
  <2>2. \A o \in Objs : o > created' => ~looping'[o] /\ wthread'[o] = "none"
    <3> TAKE o \in Objs
    <3> HAVE o > created'
    <3>1. o > created
      BY <1>1, ConfigAssumption DEF Objs, TypeOK
    <3> QED
      BY <1>3, <3>1 DEF Registered
  <2>3. ASSUME NEW i \in Ids, pool'[i] # None, ~looping'[pool'[i]]
        PROVE  wthread[pool'[i]] = "none"
    <3>1. pool'[i] \in Objs
      BY <1>1, <2>3
    <3>2. CASE pool'[i] = pool[i] /\ pool'[i] \notin gone
      BY <1>3, <2>3, <3>1, <3>2 DEF Registered
    <3>3. CASE pool'[i] > created
      BY <3>1, <3>3 DEF Registered
    <3> QED
      BY <1>1, <2>3, <3>2, <3>3
  <2>4. \A c \in Callers : call'[c].obj = None => call'[c] = NoCall
    BY DEF Registered
  <2> QED
    BY <2>1, <2>2, <2>3, <2>4 DEF Registered
<1> QED
  BY <1>5, <1>6 DEF HandsSound

\* A step that changes nothing but the WorkerInfo and the calls.
LEMMA InfoSound ==
    ASSUME Sound, info' \in [Objs -> Infos], call' \in [Callers -> Calls],
           \A c \in Callers : call'[c].obj = None => call'[c] = NoCall,
           UNCHANGED <<created, pool, looping, wthread, hand, status>>, AdminOK'
    PROVE  Sound'
<1> USE DEF Sound
<1>1. TypeOK'
  BY DEF TypeOK, Infos, Calls, AdminOK
<1>2. Registered' /\ HandsSound'
  BY DEF Registered, HandsSound
<1> QED
  BY <1>1, <1>2

\* What Sound says where the two lemmas above are used.
LEMMA SoundParts ==
    ASSUME Sound
    PROVE  /\ AdminOK
           /\ info \in [Objs -> Infos] /\ call \in [Callers -> Calls]
           /\ \A c \in Callers : call[c].obj = None => call[c] = NoCall
           /\ Members \subseteq Objs
           /\ \A i \in Ids : pool[i] # None => pool[i] \in Members
           /\ looping = [o \in Objs |-> looping[o] /\ o \notin {}]
<1>1. TypeOK /\ Registered
  BY DEF Sound
<1>2. AdminOK /\ info \in [Objs -> Infos] /\ call \in [Callers -> Calls]
  BY <1>1 DEF TypeOK, AdminOK, Infos, Calls
<1>3. looping = [o \in Objs |-> looping[o] /\ o \notin {}]
  BY <1>1 DEF TypeOK
<1> QED
  BY <1>1, <1>2, <1>3, MembersAreObjs DEF Registered, Members

LEMMA RenewTyped ==
    ASSUME info \in [Objs -> Infos], NEW o \in Objs,
           NEW s \in {"idle", "busy", "unhealthy", "stopped"}, NEW a \in Nat,
           NEW j \in Callers \union {None}
    PROVE  Renew(o, s, a, j) \in [Objs -> Infos]
<1> DEFINE r == [id |-> info[o].id, state |-> s, available |-> a, job |-> j, late |-> FALSE]
<1>1. r \in Infos
  BY DEF Infos
<1> HIDE DEF r
<1>2. [info EXCEPT ![o] = r] \in [Objs -> Infos]
  BY <1>1
<1> QED
  BY <1>2 DEF Renew, r

\* The two steps of a caller of process_job_on_worker.
LEMMA AssignSound ==
    ASSUME Sound, NEW c \in Callers, NEW req \in Requests, Assign(c, req)
    PROVE  Sound'
<1>1. PICK o \in Members :
         /\ info[o].available >= req
         /\ info' = Renew(o, "busy", info[o].available - req, c)
         /\ call' = [call EXCEPT ![c] = [obj |-> o, req |-> req]]
  BY DEF Assign
<1>2. o \in Objs /\ o # None /\ req \in Nat
  BY SoundParts, MembersAreObjs, ConfigAssumption DEF Sound
<1>3. info[o].available - req \in Nat
  <2>1. info[o].available \in Nat
    BY <1>2, SoundParts DEF Infos
  <2> QED
    BY <1>1, <1>2, <2>1
<1>4. info' \in [Objs -> Infos]
  BY <1>1, <1>2, <1>3, SoundParts, RenewTyped
<1>5. /\ call' \in [Callers -> Calls]
      /\ \A d \in Callers : call'[d].obj = None => call'[d] = NoCall
  BY <1>1, <1>2, SoundParts DEF Calls
<1> QED
  BY <1>4, <1>5, InfoSound, SoundParts DEF Assign, AdminOK

\* A call in progress has a worker, and holds an amount of its resources.
LEMMA CallTyped ==
    ASSUME Sound, NEW c \in Callers, call[c] # NoCall
    PROVE  call[c].obj \in Objs /\ call[c].req \in Nat
<1>1. call[c] \in Calls /\ call[c].obj # None
  BY SoundParts
<1>2. call[c].obj \in Objs /\ call[c].req \in Requests \union {0}
  BY <1>1 DEF Calls
<1>3. \A r \in Requests \union {0} : r \in Nat
  BY ConfigAssumption
<1> QED
  BY <1>2, <1>3, Zenon

LEMMA ReleaseSound == ASSUME Sound, NEW c \in Callers, Release(c) PROVE Sound'
<1> DEFINE o == pool[info[call[c].obj].id]
<1>1. /\ call[c] # NoCall
      /\ call' = [call EXCEPT ![c] = NoCall]
      /\ info' = IF o = None THEN info
                 ELSE Renew(o, "idle", info[o].available + call[c].req, None)
  BY DEF Release
<1>2. call[c].obj \in Objs /\ call[c].req \in Nat
  BY <1>1, CallTyped
<1>3. o \in Objs \union {None}
  <2>1. info[call[c].obj].id \in Ids
    BY <1>2, SoundParts DEF Infos
  <2> QED
    BY <2>1 DEF Sound, TypeOK
<1> HIDE DEF o
<1>4. info' \in [Objs -> Infos]
  <2>1. CASE o = None
    BY <1>1, <2>1, SoundParts
  <2>2. CASE o # None
    <3>1. info[o].available \in Nat
      BY <1>3, <2>2, SoundParts DEF Infos
    <3>2. info[o].available + call[c].req \in Nat
      BY <1>2, <3>1
    <3> QED
      BY <1>1, <1>3, <2>2, <3>2, SoundParts, RenewTyped
  <2> QED
    BY <2>1, <2>2
<1>5. /\ call' \in [Callers -> Calls]
      /\ \A d \in Callers : call'[d].obj = None => call'[d] = NoCall
  BY <1>1, SoundParts DEF Calls, NoCall
<1> QED
  BY <1>4, <1>5, InfoSound, SoundParts DEF Release, AdminOK

\* A heartbeat, or the lack of one.
LEMMA BeatSound ==
    ASSUME Sound,
           (\E id \in Ids : Heartbeat(id)) \/ (\E o \in Objs : Expire(o))
    PROVE  Sound'
<1>1. ASSUME NEW id \in Ids, Heartbeat(id) PROVE info' \in [Objs -> Infos]
  <2> DEFINE o == pool[id]
             s == IF info[o].state # "unhealthy" THEN info[o].state
                  ELSE IF info[o].job = None THEN "idle" ELSE "busy"
  <2>1. o \in Objs
    BY <1>1, SoundParts DEF Heartbeat
  <2>2. info' = Renew(o, s, info[o].available, info[o].job)
    BY <1>1 DEF Heartbeat
  <2>3. /\ info[o].available \in Nat /\ info[o].job \in Callers \union {None}
        /\ s \in {"idle", "busy", "unhealthy", "stopped"}
    BY <2>1, SoundParts DEF Infos
  <2> HIDE DEF o, s
  <2> QED
    BY <2>1, <2>2, <2>3, SoundParts, RenewTyped
<1>2. ASSUME NEW o \in Objs, Expire(o) PROVE info' \in [Objs -> Infos]
  <2>1. [info[o] EXCEPT !.late = TRUE] \in Infos
    BY SoundParts DEF Infos
  <2>2. info' = [info EXCEPT ![o] = [info[o] EXCEPT !.late = TRUE]]
    BY <1>2 DEF Expire
  <2> QED
    BY <2>1, <2>2, SoundParts
<1>3. info' \in [Objs -> Infos] /\ UNCHANGED <<created, pool, looping, wthread, hand, status, call,
                                              running, stopping, emptied, loop, userAdded, userRemoved>>
  BY <1>1, <1>2 DEF Heartbeat, Expire
<1> QED
  BY <1>3, InfoSound, SoundParts DEF AdminOK

\* The queue: a job is submitted, or a worker's thread takes a step.
LEMMA SubmitSound == ASSUME Sound, NEW j \in Jobs, SubmitJob(j) PROVE Sound'
<1> USE DEF Sound
<1>1. TypeOK'
  BY DEF SubmitJob, TypeOK
<1>2. Registered'
  BY DEF SubmitJob, Registered
<1>3. HandsSound'
  BY DEF SubmitJob, HandsSound, TypeOK
<1> QED
  BY <1>1, <1>2, <1>3

LEMMA StepSound == ASSUME Sound, NEW o \in Objs, WorkerStep(o) PROVE Sound'
<1> USE DEF Sound
<1>0. /\ UNCHANGED <<running, stopping, emptied, created, pool, info, looping, call, loop, userAdded, userRemoved>>
      /\ CheckRunning(o) \/ FetchJob(o) \/ FinishJob(o)
  BY DEF WorkerStep
<1>1. TypeOK' /\ HandsSound'
  <2>1. CASE CheckRunning(o)
    BY <1>0, <2>1 DEF CheckRunning, TypeOK, HandsSound
  <2>2. CASE FetchJob(o)
    <3>1. CASE Pending = {}
      BY <1>0, <2>2, <3>1 DEF FetchJob, TypeOK, HandsSound
    <3>2. CASE Pending # {}
      <4>1. PICK j \in Pending : /\ wthread' = [wthread EXCEPT ![o] = "execute"]
                                 /\ hand' = [hand EXCEPT ![o] = j]
                                 /\ status' = [status EXCEPT ![j] = "running"]
        BY <2>2, <3>2 DEF FetchJob
      <4>2. j \in Jobs /\ j # None /\ status[j] = "pending" /\ hand[o] = None
        BY <2>2, NamesAssumption DEF Pending, FetchJob, TypeOK
      <4>3. \A p \in Objs : hand[p] # j
        BY <4>2 DEF HandsSound
      <4>4. TypeOK'
        BY <1>0, <4>1, <4>2 DEF TypeOK
      <4>5. /\ \A p \in Objs : hand'[p] = IF p = o THEN j ELSE hand[p]
            /\ \A k \in Jobs : status'[k] = IF k = j THEN "running" ELSE status[k]
        BY <4>1, <4>2 DEF TypeOK
      <4>6. HandsSound'
        BY <4>2, <4>3, <4>5, NamesAssumption DEF HandsSound
      <4> QED
        BY <4>4, <4>6
    <3> QED
      BY <3>1, <3>2
  <2>3. CASE FinishJob(o)
    <3>1. /\ wthread[o] = "execute" /\ wthread' = [wthread EXCEPT ![o] = "check"]
          /\ hand' = [hand EXCEPT ![o] = None]
          /\ status' = [status EXCEPT ![hand[o]] = "completed"]
      BY <2>3 DEF FinishJob
    <3>2. hand[o] \in Jobs
      BY <3>1 DEF TypeOK
    <3>3. TypeOK'
      BY <1>0, <3>1, <3>2 DEF TypeOK
    <3>4. HandsSound'
      BY <3>1, <3>2, NamesAssumption DEF HandsSound, TypeOK
    <3> QED
      BY <3>3, <3>4
  <2> QED
    BY <1>0, <2>1, <2>2, <2>3
<1>2. /\ wthread[o] # "none"
      /\ \A p \in Objs : p # o => wthread'[p] = wthread[p]
  BY <1>0 DEF CheckRunning, FetchJob, FinishJob, TypeOK
<1>3. \A i \in Ids : pool[i] # None => pool[i] \in Objs
  BY DEF TypeOK
<1>4. Registered'
  BY <1>0, <1>2, <1>3 DEF Registered
<1> QED
  BY <1>1, <1>4

\* The pool's users and owner.
LEMMA UserSound ==
    ASSUME Sound,
           \/ AddWorker \/ \E id \in Ids : RemoveWorker(id)
           \/ \E t \in Stoppers : StopBegin(t) \/ StopFinish(t)
    PROVE  Sound'
<1>1. CASE AddWorker
  BY <1>1, ReshapeSound, SoundParts DEF AddWorker, StopLooping, AdminOK
<1>2. ASSUME NEW id \in Ids, RemoveWorker(id) PROVE Sound'
  <2>1. {pool[id]} \in SUBSET Members
    BY <1>2, SoundParts DEF RemoveWorker
  <2> QED
    BY <1>2, <2>1, ReshapeSound, SoundParts DEF RemoveWorker, AdminOK
<1>3. ASSUME NEW t \in Stoppers, StopBegin(t) PROVE Sound'
  BY <1>3, InfoSound, SoundParts DEF StopBegin, AdminOK
<1>4. ASSUME NEW t \in Stoppers, StopFinish(t) PROVE Sound'
  BY <1>4, ReshapeSound, SoundParts DEF StopFinish, AdminOK
<1> QED
  BY <1>1, <1>2, <1>3, <1>4

\* add_worker with an id of the user's may replace a worker in the table.
LEMMA NamedSound == ASSUME Sound, NEW id \in CustomIds, AddNamedWorker(id) PROVE Sound'
<1> USE DEF Sound
<1> DEFINE o == created + 1
<1>1. id \in Ids /\ o \in Objs /\ created' = o /\ created' \in 0..MaxObjs
  BY ConfigAssumption DEF AddNamedWorker, Ids, Objs, TypeOK
<1>2. /\ pool' = [pool EXCEPT ![id] = o]
      /\ info' = [info EXCEPT ![o] = NewInfo(id)]
      /\ UNCHANGED <<looping, wthread, hand, status, call>>
  BY DEF AddNamedWorker
<1>3. NewInfo(id) \in Infos
  BY <1>1, ConfigAssumption DEF NewInfo, Infos
<1>4. info' \in [Objs -> Infos]
  BY <1>1, <1>2, <1>3, SoundParts
<1>5. AdminOK'
  BY SoundParts DEF AddNamedWorker, AdminOK
<1>6. TypeOK'
  BY <1>1, <1>2, <1>4, <1>5 DEF TypeOK, Infos, AdminOK
<1>7. Registered'
  <2>1. /\ ~looping[o] /\ wthread[o] = "none"
    BY <1>1, ConfigAssumption DEF Registered, TypeOK, Objs
  <2>2. \A i \in Ids : pool'[i] = IF i = id THEN o ELSE pool[i]
    BY <1>1, <1>2 DEF TypeOK
  <2>3. \A i \in Ids : pool[i] # None => pool[i] \in Objs
    BY DEF TypeOK
  <2> QED
    BY <1>1, <1>2, <2>1, <2>2, <2>3, ConfigAssumption DEF Registered, TypeOK, Objs
<1> QED
  BY <1>2, <1>6, <1>7 DEF HandsSound

\* start: every worker of the refilled table that is not running gets a thread; it
\* had none before, so no thread that holds a job is started over.
LEMMA StartSound == ASSUME Sound, Start PROVE Sound'
<1> USE DEF Sound
<1> DEFINE n == IF Size < MinWorkers THEN MinWorkers - Size ELSE 0
           begun == {o \in Objs : ~looping[o] /\ \E i \in Ids : pool'[i] = o}
<1>1. /\ Reshape({}, n)
      /\ looping' = [o \in Objs |-> looping[o] \/ o \in begun]
      /\ wthread' = [o \in Objs |-> IF o \in begun THEN "check" ELSE wthread[o]]
      /\ UNCHANGED <<hand, status, call>>
  BY DEF Start
<1>2. n \in Nat /\ {} \in SUBSET Members
  BY Counts
<1> HIDE DEF n
<1>3. /\ created' \in 0..MaxObjs /\ created <= created'
      /\ pool' \in [Ids -> Objs \union {None}]
      /\ \A i \in Ids : pool'[i] # None =>
            \/ pool'[i] = pool[i] /\ pool'[i] <= created
            \/ pool'[i] > created /\ pool'[i] <= created'
      /\ \A o \in Objs : info'[o] = info[o]
  BY <1>1, <1>2, ReshapeFacts
<1>4. info' \in [Objs -> Infos]
  <2>1. info' = info
    BY <1>1, <1>3, SoundParts DEF Reshape
  <2> QED
    BY <2>1, SoundParts
<1>5. AdminOK'
  <2>1. PICK s \in Scalers, h \in Healths : loop' = [loop EXCEPT ![s] = "check", ![h] = "check"]
    BY DEF Start
  <2> QED
    BY <2>1, SoundParts DEF Start, AdminOK
<1>6. \A o \in begun : wthread[o] = "none" /\ hand[o] = None
  <2> TAKE o \in begun
  <2>1. PICK i \in Ids : pool'[i] = o
    OBVIOUS
  <2>2. o \in Objs /\ o # None /\ ~looping[o]
    BY NamesAssumption DEF Ids
  <2>3. wthread[o] = "none"
    BY <1>3, <2>1, <2>2 DEF Registered
  <2> QED
    BY <2>2, <2>3 DEF TypeOK
<1>7. looping' \in [Objs -> BOOLEAN]
      /\ wthread' \in [Objs -> {"none", "check", "fetch", "execute", "dead"}]
  BY <1>1 DEF TypeOK
<1>8. TypeOK'
  BY <1>1, <1>3, <1>4, <1>5, <1>6, <1>7 DEF TypeOK, Infos, AdminOK
<1>9. Registered'
  <2>1. \A i \in Ids : pool'[i] # None => pool'[i] \in Objs
    BY <1>3
  <2>2. \A i \in Ids : pool'[i] # None => pool'[i] <= created'
    BY <1>3, <2>1, ConfigAssumption DEF TypeOK, Objs
  <2>3. \A o \in Objs : o > created' => ~looping'[o] /\ wthread'[o] = "none"
    <3> TAKE o \in Objs
    <3> HAVE o > created'
    <3>1. o > created
      BY <1>3, ConfigAssumption DEF Objs, TypeOK
    <3>2. o \notin begun
      BY <2>2, <1>3, ConfigAssumption, NamesAssumption DEF Objs, Ids
    <3> QED
      BY <1>1, <3>1, <3>2 DEF Registered
  <2>4. \A i \in Ids : pool'[i] # None => looping'[pool'[i]]
    BY <1>1, <2>1
  <2> QED
    BY <1>1, <2>2, <2>3, <2>4 DEF Registered
<1> QED
  BY <1>1, <1>8, <1>9 DEF HandsSound

\* The scaler and the health check.
LEMMA LoopSound == ASSUME Sound, NEW l \in Loops, LoopStep(l) PROVE Sound'
<1>1. CASE LoopCheck(l)
  <2>1. loop' \in [Loops -> {"unborn", "check", "act", "dead"}]
    BY <1>1, SoundParts DEF LoopCheck, AdminOK
  <2> QED
    BY <1>1, <2>1, InfoSound, SoundParts DEF LoopCheck, AdminOK
<1>2. CASE LoopAct(l)
  <2>1. AdminOK' /\ UNCHANGED <<wthread, hand, status, call>>
    BY <1>2, SoundParts DEF LoopAct, AdminOK
  <2>2. CASE CheckScaling
    <3>1. CASE ScalingUp /\ Reshape({}, 1) /\ UNCHANGED looping
      BY <2>1, <3>1, ReshapeSound, SoundParts DEF StopLooping
    <3>2. CASE \E o \in Members : Reshape({o}, 0) /\ StopLooping({o})
      BY <2>1, <3>2, ReshapeSound
    <3>3. CASE UNCHANGED <<created, pool, info, looping>>
      BY <2>1, <3>3, InfoSound, SoundParts
    <3> QED
      BY <2>2, <3>1, <3>2, <3>3 DEF CheckScaling
  <2>3. CASE CheckHealth
    <3> DEFINE late == {o \in Members : info[o].late}
    <3>1. CASE Reshape(late, Cardinality(late)) /\ StopLooping(late)
      <4>1. late \in SUBSET Members /\ Cardinality(late) \in Nat
        BY Counts DEF Sound
      <4> QED
        BY <2>1, <3>1, <4>1, ReshapeSound
    <3>2. CASE /\ info' = [o \in Objs |-> IF o \in late
                              THEN [info[o] EXCEPT !.state = "unhealthy"] ELSE info[o]]
               /\ UNCHANGED <<created, pool, looping>>
      <4>1. info' \in [Objs -> Infos]
        BY <3>2, SoundParts, StateSet
      <4> QED
        BY <2>1, <3>2, <4>1, InfoSound, SoundParts
    <3> QED
      BY <2>3, <3>1, <3>2 DEF CheckHealth
  <2> QED
    BY <1>2, <2>2, <2>3 DEF LoopAct
<1> QED
  BY <1>1, <1>2 DEF LoopStep

LEMMA NextSound == ASSUME Sound, [Next]_vars PROVE Sound'
<1>1. CASE UNCHANGED vars
  BY <1>1 DEF vars, Sound, TypeOK, Registered, HandsSound
<1>2. CASE Next
  BY <1>2, UserSound, NamedSound, BeatSound, SubmitSound, AssignSound, ReleaseSound,
     StepSound, LoopSound, StartSound DEF Next
<1> QED
  BY <1>1, <1>2

LEMMA SpecSound == Spec => []Sound
BY InitSound, NextSound, PTL DEF Spec

-----------------------------------------------------------------------------
\* Every variable of the pool keeps its type.
THEOREM TypeCorrect == Spec => []TypeOK
<1>1. Sound => TypeOK
  BY DEF Sound
<1> QED
  BY <1>1, SpecSound, PTL

\* A running job is in the hands of exactly one worker's thread, however workers are
\* added, replaced, removed, stopped and started over.
THEOREM RunningJobsAreHeldOnce == Spec => []RunningJobHeldOnce
<1>1. Sound => RunningJobHeldOnce
  <2> SUFFICES ASSUME Sound, NEW j \in Jobs
               PROVE  status[j] = "running" <=> Cardinality({o \in Objs : hand[o] = j}) = 1
    BY DEF RunningJobHeldOnce
  <2> DEFINE H == {o \in Objs : hand[o] = j}
  <2>1. IsFiniteSet(H)
    BY FS_Interval, FS_Subset, ConfigAssumption DEF Objs
  <2>2. status[j] = "running" <=> \E o \in Objs : hand[o] = j
    BY DEF Sound, HandsSound
  <2>3. \A o, p \in H : o = p
    BY NamesAssumption DEF Sound, HandsSound
  <2>4. (\E o \in Objs : hand[o] = j) <=> \E o : H = {o}
    BY <2>3
  <2> HIDE DEF H
  <2>5. Cardinality(H) = 1 <=> \E o : H = {o}
    BY <2>1, FS_Singleton
  <2> QED
    BY <2>2, <2>4, <2>5 DEF H
<1> QED
  BY <1>1, SpecSound, PTL

-----------------------------------------------------------------------------
(* Assigned is inductive in a pool whose users let it name the workers.  A    *)
(* user's own id may be given to a second worker while a call holds the first *)
(* one; the release then finds the second under it.                           *)

GeneratedIds == CustomIds = {}

LEMMA MemberIs ==
    ASSUME GeneratedIds, TypeOK, OwnIds
    PROVE  \A o : o \in Members <=> o \in Objs /\ pool[o] = o
BY NamesAssumption DEF GeneratedIds, Members, OwnIds, Ids, TypeOK

LEMMA MemberWillBe ==
    ASSUME GeneratedIds, TypeOK', OwnIds'
    PROVE  \A o : o \in Members' <=> o \in Objs /\ pool'[o] = o
BY NamesAssumption DEF GeneratedIds, Members, OwnIds, Ids, TypeOK

LEMMA InitAssigned == GeneratedIds /\ Init => Assigned
<1> SUFFICES ASSUME GeneratedIds, Init PROVE Assigned
  OBVIOUS
<1>1. Members = {}
  BY DEF Init, Members
<1>2. OwnIds
  BY NamesAssumption DEF Init, OwnIds, GeneratedIds, Ids, NewInfo, NoCall
<1> QED
  BY <1>1, <1>2 DEF Init, Assigned, ExclusiveAssignment, ResourcesConserved, NoOrphanWorker

\* A step that adds and removes workers and starts none outside the table.
LEMMA ReshapeAssigned ==
    ASSUME GeneratedIds, Sound, Sound', Assigned,
           NEW gone \in SUBSET Members, NEW n \in Nat, Reshape(gone, n),
           \A o \in Objs : looping'[o] => (looping[o] /\ o \notin gone) \/ pool'[o] = o,
           UNCHANGED call
    PROVE  Assigned'
<1> USE DEF Sound, Assigned
<1>1. /\ created' \in 0..MaxObjs /\ created <= created' /\ gone \subseteq Objs
      /\ \A i \in Ids : pool'[i] = IF i \in (created + 1)..created' THEN i
                                   ELSE IF pool[i] \in gone THEN None ELSE pool[i]
      /\ \A o \in Objs : info'[o] = IF o \in gone
                                    THEN [info[o] EXCEPT !.state = "stopped"] ELSE info[o]
  BY ReshapeFacts
<1>2. Ids = Objs /\ \A o : o \in Members <=> o \in Objs /\ pool[o] = o
  BY MemberIs DEF GeneratedIds, Ids
<1>3. \A o \in gone : pool[o] = o /\ o <= created
  BY <1>2, NamesAssumption DEF Registered
<1>4. \A o \in Objs : o > created' => o > created /\ o \notin gone
  BY <1>1, <1>3, ConfigAssumption, SMTT(30) DEF Objs, TypeOK
<1>5. OwnIds'
  <2>1. \A i \in Objs : info[i] \in Infos
    BY SoundParts
  <2>2. \A i \in Objs : info'[i].id = i
    <3> TAKE i \in Objs
    <3>1. [info[i] EXCEPT !.state = "stopped"].id = info[i].id
      BY <2>1, StateSet
    <3>2. info[i].id = i
      BY DEF OwnIds
    <3> QED
      BY <1>1, <3>1, <3>2
  <2>3. \A i \in Objs : pool'[i] \in {i, None}
    BY <1>1, <1>2 DEF OwnIds
  <2>4. \A o \in Objs : o > created' => info'[o] = NewInfo(o)
    BY <1>1, <1>4 DEF OwnIds
  <2> QED
    BY <1>4, <2>2, <2>3, <2>4 DEF OwnIds, NewInfo
<1>6. \A o : o \in Members' <=> o \in Objs /\ pool'[o] = o
  BY <1>5, MemberWillBe
<1>7. \A o \in Members' : \/ o \in Members /\ o \notin gone /\ info'[o] = info[o]
                          \/ /\ o \notin gone /\ info'[o] = NewInfo(o)
                             /\ \A c \in Callers : call[c].obj # o
  <2> TAKE o \in Members'
  <2>1. o \in Objs /\ pool'[o] = o /\ o # None
    BY <1>2, <1>6, NamesAssumption
  <2>2. CASE o \in (created + 1)..created'
    <3>1. o > created
      BY <2>1, <2>2, ConfigAssumption DEF Objs, TypeOK
    <3>2. o \notin gone
      BY <1>3, <2>1, <3>1, ConfigAssumption DEF Objs, TypeOK
    <3> QED
      BY <1>1, <2>1, <3>1, <3>2 DEF OwnIds
  <2>3. CASE o \notin (created + 1)..created'
    BY <1>1, <1>2, <2>1, <2>3
  <2> QED
    BY <2>2, <2>3
<1>8. ASSUME NEW o \in Members'
      PROVE  /\ \A c \in Callers : call[c].obj = o <=> info'[o].job = c
             /\ info'[o].state = "idle" => {c \in Callers : call[c].obj = o} = {}
             /\ info'[o].available = IF info'[o].job = None THEN Capacity
                                     ELSE Capacity - call[info'[o].job].req
  <2>1. CASE o \in Members /\ info'[o] = info[o]
    BY <2>1 DEF ExclusiveAssignment, ResourcesConserved, Idle, CallsOn
  <2>2. CASE info'[o] = NewInfo(o) /\ \A c \in Callers : call[c].obj # o
    BY <2>2, NamesAssumption DEF NewInfo
  <2> QED
    BY <1>7, <2>1, <2>2
<1>9. ExclusiveAssignment' /\ ResourcesConserved'
  BY <1>8 DEF ExclusiveAssignment, ResourcesConserved, Idle, CallsOn
<1>10. NoOrphanWorker'
  <2> SUFFICES ASSUME NEW o \in Objs, looping'[o] PROVE pool'[o] = o
    BY <1>6 DEF NoOrphanWorker
  <2>1. CASE looping[o] /\ o \notin gone
    <3>1. pool[o] = o
      BY <1>2, <2>1 DEF NoOrphanWorker
    <3> QED
      BY <1>1, <1>2, <2>1, <3>1
  <2> QED
    BY <2>1
<1> QED
  BY <1>5, <1>9, <1>10

\* A step that leaves the table alone, if it keeps what is said of each worker.
LEMMA InfoAssigned ==
    ASSUME GeneratedIds, Sound, Assigned, UNCHANGED <<created, pool, looping>>,
           \A o \in Objs : o > created =>
              info'[o] = info[o] /\ \A c \in Callers : call'[c].obj = o => call[c].obj = o,
           \A o \in Objs : info'[o].id = info[o].id,
           \A o \in Members :
              /\ \A c \in Callers : call'[c].obj = o <=> info'[o].job = c
              /\ info'[o].state = "idle" => \A c \in Callers : call'[c].obj # o
              /\ info'[o].available = IF info'[o].job = None THEN Capacity
                                      ELSE Capacity - call'[info'[o].job].req
    PROVE  Assigned'
<1> USE DEF Assigned
<1>1. Members' = Members
  BY DEF Members
<1>2. OwnIds'
  BY DEF OwnIds, NewInfo
<1>3. ExclusiveAssignment' /\ ResourcesConserved' /\ NoOrphanWorker'
  BY <1>1 DEF ExclusiveAssignment, ResourcesConserved, NoOrphanWorker, Idle, CallsOn
<1> QED
  BY <1>2, <1>3

\* The fields a renewed WorkerInfo has, and the others it leaves.
LEMMA RenewFields ==
    ASSUME info \in [Objs -> Infos], NEW o \in Objs, NEW s, NEW a, NEW j
    PROVE  LET f == Renew(o, s, a, j) IN
           /\ f[o].id = info[o].id /\ f[o].state = s /\ f[o].available = a /\ f[o].job = j
           /\ \A p \in Objs : p # o => f[p] = info[p]
BY DEF Renew

\* What Assigned says of a worker in the table.
LEMMA AssignedParts ==
    ASSUME GeneratedIds, Sound, Assigned, NEW o \in Members
    PROVE  /\ o \in Objs /\ pool[o] = o /\ o <= created /\ o # None
           /\ info[o].id = o
           /\ \A c \in Callers : call[c].obj = o <=> info[o].job = c
           /\ info[o].state = "idle" =>
                 info[o].job = None /\ \A c \in Callers : call[c].obj # o
           /\ info[o].available \in Nat /\ info[o].job \in Callers \union {None}
           /\ info[o].available = IF info[o].job = None THEN Capacity
                                  ELSE Capacity - call[info[o].job].req
<1>1. o \in Objs /\ pool[o] = o
  BY MemberIs DEF Sound, Assigned
<1>2. o # None /\ o \in Ids
  BY <1>1, NamesAssumption DEF Ids
<1>3. o <= created /\ info[o].id = o
  BY <1>1, <1>2 DEF Sound, Registered, Assigned, OwnIds
<1>4. info[o] \in Infos
  BY <1>1, SoundParts
<1>5. info[o].available \in Nat /\ info[o].job \in Callers \union {None}
  BY <1>4 DEF Infos
<1>6. /\ \A c \in Callers : call[c].obj = o <=> info[o].job = c
      /\ info[o].state = "idle" => \A c \in Callers : call[c].obj # o
  BY DEF Assigned, ExclusiveAssignment, Idle, CallsOn
<1>7. info[o].available = IF info[o].job = None THEN Capacity
                          ELSE Capacity - call[info[o].job].req
  BY DEF Assigned, ResourcesConserved
<1> QED
  BY <1>1, <1>2, <1>3, <1>5, <1>6, <1>7

LEMMA AssignAssigned ==
    ASSUME GeneratedIds, Sound, Assigned,
           NEW c \in Callers, NEW req \in Requests, Assign(c, req)
    PROVE  Assigned'
<1>1. PICK o \in Members :
         /\ Idle(o)
         /\ info' = Renew(o, "busy", info[o].available - req, c)
         /\ call[c] = NoCall /\ call' = [call EXCEPT ![c] = [obj |-> o, req |-> req]]
  BY DEF Assign
<1>2. /\ o \in Objs /\ o <= created /\ o # None
      /\ info[o].job = None /\ \A d \in Callers : call[d].obj # o
      /\ info[o].available = Capacity
  BY <1>1, AssignedParts DEF Idle
<1>3. /\ info'[o].id = info[o].id /\ info'[o].state = "busy"
      /\ info'[o].available = Capacity - req /\ info'[o].job = c
      /\ \A p \in Objs : p # o => info'[p] = info[p]
  BY <1>1, <1>2, SoundParts, RenewFields
<1>4. /\ call'[c].obj = o /\ call'[c].req = req
      /\ \A d \in Callers : d # c => call'[d] = call[d]
  BY <1>1, SoundParts
<1>5. call[c].obj = None
  BY <1>1 DEF NoCall
<1>6. \A p \in Objs : p > created => p # o
  BY <1>2, ConfigAssumption DEF Objs, Sound, TypeOK
<1>7. ASSUME NEW p \in Members
      PROVE  /\ \A d \in Callers : call'[d].obj = p <=> info'[p].job = d
             /\ info'[p].state = "idle" => \A d \in Callers : call'[d].obj # p
             /\ info'[p].available = IF info'[p].job = None THEN Capacity
                                     ELSE Capacity - call'[info'[p].job].req
  <2>1. CASE p = o
    BY <1>2, <1>3, <1>4, <2>1, NamesAssumption
  <2>2. CASE p # o
    <3>1. p \in Objs /\ p # None /\ info'[p] = info[p]
      BY <1>3, <2>2, AssignedParts
    <3>2. info[p].job # c
      BY <1>5, <3>1, AssignedParts
    <3> QED
      BY <1>2, <1>3, <1>4, <1>5, <2>2, <3>1, <3>2, AssignedParts
  <2> QED
    BY <2>1, <2>2
<1>8. UNCHANGED <<created, pool, looping>>
  BY DEF Assign
<1>9. \A p \in Objs : p > created =>
         info'[p] = info[p] /\ \A d \in Callers : call'[d].obj = p => call[d].obj = p
  BY <1>3, <1>4, <1>6
<1>10. \A p \in Objs : info'[p].id = info[p].id
  BY <1>3
<1> QED
  BY <1>7, <1>8, <1>9, <1>10, InfoAssigned

\* A release finds the worker of the call under its id, or nothing.
LEMMA ReleaseAssigned ==
    ASSUME GeneratedIds, Sound, Assigned, NEW c \in Callers, Release(c)
    PROVE  Assigned'
<1> DEFINE o == call[c].obj
<1>1. call[c] # NoCall /\ call' = [call EXCEPT ![c] = NoCall] /\ UNCHANGED <<created, pool, looping>>
  BY DEF Release
<1>2. o \in Objs /\ o # None /\ call[c].req \in Nat
  BY <1>1, CallTyped, NamesAssumption DEF Ids
<1>3. info[o].id = o /\ pool[o] \in {o, None}
  BY <1>2 DEF Assigned, OwnIds
<1>4. info' = IF pool[o] = None THEN info
              ELSE Renew(pool[o], "idle", info[pool[o]].available + call[c].req, None)
  BY <1>3 DEF Release
<1>5. /\ call'[c].obj = None
      /\ \A d \in Callers : d # c => call'[d] = call[d]
  BY <1>1, SoundParts DEF NoCall
<1> HIDE DEF o
<1>6. o \in Members <=> pool[o] = o
  BY <1>2, MemberIs DEF Sound, Assigned
<1>7. \A p \in Objs : p # o => info'[p] = info[p]
  BY <1>2, <1>3, <1>4, SoundParts, RenewFields
<1>8. CASE o \in Members
  <2>1. info' = Renew(o, "idle", info[o].available + call[c].req, None)
    BY <1>2, <1>4, <1>6, <1>8
  <2>2. /\ info'[o].id = info[o].id /\ info'[o].job = None
        /\ info'[o].available = info[o].available + call[c].req
    BY <1>2, <2>1, SoundParts, RenewFields
  <2>3. info[o].job = c
    BY <1>8, AssignedParts DEF o
  <2>4. info[o].available = Capacity - call[c].req
    BY <1>8, <2>3, AssignedParts, NamesAssumption
  <2>5. info'[o].available = Capacity
    BY <1>2, <2>2, <2>4, ConfigAssumption
  <2>6. \A d \in Callers : d # c => call[d].obj # o
    BY <1>8, <2>3, AssignedParts
  <2>7. ASSUME NEW p \in Members
        PROVE  /\ \A d \in Callers : call'[d].obj = p <=> info'[p].job = d
               /\ info'[p].state = "idle" => \A d \in Callers : call'[d].obj # p
               /\ info'[p].available = IF info'[p].job = None THEN Capacity
                                       ELSE Capacity - call'[info'[p].job].req
    <3>1. CASE p = o
      BY <1>2, <1>5, <2>2, <2>5, <2>6, <3>1, NamesAssumption
    <3>2. CASE p # o
      <4>1. p \in Objs /\ p # None /\ info'[p] = info[p]
        BY <1>7, <3>2, AssignedParts
      <4>2. info[p].job # c
        BY <3>2, AssignedParts DEF o
      <4> QED
        BY <1>5, <3>2, <4>1, <4>2, AssignedParts DEF o
    <3> QED
      BY <3>1, <3>2
  <2>8. o <= created
    BY <1>8, AssignedParts
  <2>9. \A p \in Objs : p > created =>
           info'[p] = info[p] /\ \A d \in Callers : call'[d].obj = p => call[d].obj = p
    <3>1. \A p \in Objs : p > created => p # o
      BY <1>2, <2>8, ConfigAssumption DEF Objs, Sound, TypeOK
    <3>2. \A p \in Objs : p # None
      BY NamesAssumption DEF Ids
    <3> QED
      BY <1>5, <1>7, <3>1, <3>2
  <2>10. \A p \in Objs : info'[p].id = info[p].id
    BY <1>7, <2>2
  <2> QED
    BY <1>1, <2>7, <2>9, <2>10, InfoAssigned
<1>9. CASE o \notin Members
  <2>1. info' = info
    BY <1>3, <1>4, <1>6, <1>9
  <2>2. ASSUME NEW p \in Members
        PROVE  /\ \A d \in Callers : call'[d].obj = p <=> info'[p].job = d
               /\ info'[p].state = "idle" => \A d \in Callers : call'[d].obj # p
               /\ info'[p].available = IF info'[p].job = None THEN Capacity
                                       ELSE Capacity - call'[info'[p].job].req
    <3>1. p # o /\ p # None /\ info[p].job # c
      BY <1>9, AssignedParts DEF o
    <3> QED
      BY <1>5, <2>1, <3>1, AssignedParts DEF o
  <2>3. \A p \in Objs : p > created =>
           info'[p] = info[p] /\ \A d \in Callers : call'[d].obj = p => call[d].obj = p
    <3>1. \A p \in Objs : p # None
      BY NamesAssumption DEF Ids
    <3> QED
      BY <1>5, <2>1, <3>1
  <2> QED
    BY <1>1, <2>1, <2>2, <2>3, InfoAssigned
<1> QED
  BY <1>8, <1>9

\* Heartbeats and their lack, and the health check's mark, concern the state alone,
\* and a worker is only idle again when it has no job.
LEMMA MarkAssigned ==
    ASSUME GeneratedIds, Sound, Assigned, UNCHANGED <<created, pool, looping, call>>,
           \A o \in Objs : o \notin Members => info'[o] = info[o],
           \A o \in Members :
              /\ info'[o].id = info[o].id /\ info'[o].job = info[o].job
              /\ info'[o].available = info[o].available
              /\ info'[o].state = "idle" => info[o].state = "idle" \/ info[o].job = None
    PROVE  Assigned'
<1>1. \A o \in Objs : o > created => o \notin Members
  BY AssignedParts, ConfigAssumption DEF Objs, Sound, TypeOK
<1>2. \A o \in Objs : info'[o].id = info[o].id
  OBVIOUS
<1>3. ASSUME NEW p \in Members
      PROVE  /\ \A d \in Callers : call'[d].obj = p <=> info'[p].job = d
             /\ info'[p].state = "idle" => \A d \in Callers : call'[d].obj # p
             /\ info'[p].available = IF info'[p].job = None THEN Capacity
                                     ELSE Capacity - call'[info'[p].job].req
  BY AssignedParts, NamesAssumption
<1> QED
  BY <1>1, <1>2, <1>3, InfoAssigned

LEMMA BeatAssigned ==
    ASSUME GeneratedIds, Sound, Assigned,
           (\E id \in Ids : Heartbeat(id)) \/ (\E o \in Objs : Expire(o))
    PROVE  Assigned'
<1>1. ASSUME NEW id \in Ids, Heartbeat(id) PROVE Assigned'
  <2> DEFINE o == pool[id]
             s == IF info[o].state # "unhealthy" THEN info[o].state
                  ELSE IF info[o].job = None THEN "idle" ELSE "busy"
  <2>1. o \in Members /\ o \in Objs
    BY <1>1, SoundParts DEF Heartbeat
  <2>2. info' = Renew(o, s, info[o].available, info[o].job)
    BY <1>1 DEF Heartbeat
  <2>3. s = "idle" => info[o].state = "idle" \/ info[o].job = None
    OBVIOUS
  <2> HIDE DEF o, s
  <2>4. /\ info'[o].id = info[o].id /\ info'[o].state = s
        /\ info'[o].available = info[o].available /\ info'[o].job = info[o].job
        /\ \A p \in Objs : p # o => info'[p] = info[p]
    BY <2>1, <2>2, SoundParts, RenewFields
  <2>5. \A p \in Members : p \in Objs
    BY SoundParts
  <2> QED
    BY <1>1, <2>1, <2>3, <2>4, <2>5, MarkAssigned DEF Heartbeat
<1>2. ASSUME NEW o \in Objs, Expire(o) PROVE Assigned'
  <2>1. o \in Members /\ info' = [info EXCEPT ![o].late = TRUE] /\ \A p \in Members : p \in Objs
    BY <1>2, SoundParts DEF Expire
  <2>2. \A p \in Objs : p # o => info'[p] = info[p]
    BY <2>1, SoundParts
  <2>3. info[o] \in Infos /\ info'[o] = [info[o] EXCEPT !.late = TRUE]
    BY <2>1, SoundParts
  <2>4. /\ info'[o].id = info[o].id /\ info'[o].state = info[o].state
        /\ info'[o].available = info[o].available /\ info'[o].job = info[o].job
    BY <2>3 DEF Infos
  <2> QED
    BY <1>2, <2>1, <2>2, <2>4, MarkAssigned DEF Expire
<1> QED
  BY <1>1, <1>2

\* Adding, removing, scaling, replacing, starting and stopping workers.
LEMMA UserAssigned ==
    ASSUME GeneratedIds, Sound, Sound', Assigned,
           \/ AddWorker \/ Start \/ \E id \in Ids : RemoveWorker(id)
           \/ \E t \in Stoppers : StopFinish(t)
    PROVE  Assigned'
<1>1. CASE AddWorker
  BY <1>1, ReshapeAssigned DEF AddWorker
<1>2. ASSUME NEW id \in Ids, RemoveWorker(id) PROVE Assigned'
  <2>1. {pool[id]} \in SUBSET Members
    BY <1>2, SoundParts DEF RemoveWorker
  <2> QED
    BY <1>2, <2>1, ReshapeAssigned DEF RemoveWorker, StopLooping
<1>3. ASSUME NEW t \in Stoppers, StopFinish(t) PROVE Assigned'
  BY <1>3, ReshapeAssigned DEF StopFinish, StopLooping
<1>4. CASE Start
  <2> DEFINE n == IF Size < MinWorkers THEN MinWorkers - Size ELSE 0
  <2>1. n \in Nat
    BY Counts DEF Sound
  <2>2. Reshape({}, n) /\ UNCHANGED call
    BY <1>4 DEF Start
  <2> HIDE DEF n
  <2>3. \A o \in Objs : looping'[o] => looping[o] \/ \E i \in Ids : pool'[i] = o
    BY <1>4 DEF Start
  <2>4. Ids = Objs
    BY DEF GeneratedIds, Ids
  <2>5. \A i \in Ids : pool'[i] # None => pool'[i] = i
    BY <2>1, <2>2, <2>4, ReshapeFacts DEF Sound, Assigned, OwnIds
  <2>6. \A o \in Objs : looping'[o] => looping[o] \/ pool'[o] = o
    BY <2>3, <2>4, <2>5, NamesAssumption
  <2> QED
    BY <2>1, <2>2, <2>6, ReshapeAssigned
<1> QED
  BY <1>1, <1>2, <1>3, <1>4

LEMMA LoopAssigned ==
    ASSUME GeneratedIds, Sound, Sound', Assigned, NEW l \in Loops, LoopStep(l)
    PROVE  Assigned'
<1>1. CASE LoopCheck(l)
  BY <1>1, MarkAssigned DEF LoopCheck
<1>2. CASE LoopAct(l)
  <2>1. UNCHANGED call
    BY <1>2 DEF LoopAct
  <2>2. CASE CheckScaling
    <3>1. CASE ScalingUp /\ Reshape({}, 1) /\ UNCHANGED looping
      BY <2>1, <3>1, ReshapeAssigned
    <3>2. ASSUME NEW o \in Members, Reshape({o}, 0), StopLooping({o}) PROVE Assigned'
      BY <2>1, <3>2, ReshapeAssigned DEF StopLooping
    <3>3. CASE UNCHANGED <<created, pool, info, looping>>
      BY <2>1, <3>3, MarkAssigned
    <3> QED
      BY <2>2, <3>1, <3>2, <3>3 DEF CheckScaling
  <2>3. CASE CheckHealth
    <3> DEFINE late == {o \in Members : info[o].late}
    <3>1. CASE Reshape(late, Cardinality(late)) /\ StopLooping(late)
      <4>1. late \in SUBSET Members /\ Cardinality(late) \in Nat
        BY Counts DEF Sound
      <4>2. \A o \in Objs : looping'[o] => looping[o] /\ o \notin late
        BY <3>1 DEF StopLooping
      <4> HIDE DEF late
      <4> QED
        BY <2>1, <3>1, <4>1, <4>2, ReshapeAssigned
    <3>2. CASE /\ info' = [o \in Objs |-> IF o \in late
                              THEN [info[o] EXCEPT !.state = "unhealthy"] ELSE info[o]]
               /\ UNCHANGED <<created, pool, looping>>
      <4>1. \A o \in Objs : o \notin Members => info'[o] = info[o]
        BY <3>2
      <4>2. ASSUME NEW o \in Members
            PROVE  /\ info'[o].id = info[o].id /\ info'[o].job = info[o].job
                   /\ info'[o].available = info[o].available
                   /\ info'[o].state = "idle" => info[o].state = "idle"
        <5>1. o \in Objs /\ info[o] \in Infos
          BY SoundParts
        <5>2. CASE o \in late
          <6>1. info'[o] = [info[o] EXCEPT !.state = "unhealthy"]
            BY <3>2, <5>1, <5>2
          <6> HIDE DEF late
          <6> QED
            BY <5>1, <6>1 DEF Infos
        <5>3. CASE o \notin late
          BY <3>2, <5>1, <5>3
        <5> QED
          BY <5>2, <5>3
      <4> QED
        BY <2>1, <3>2, <4>1, <4>2, MarkAssigned
    <3> QED
      BY <2>3, <3>1, <3>2 DEF CheckHealth
  <2> QED
    BY <1>2, <2>2, <2>3 DEF LoopAct
<1> QED
  BY <1>1, <1>2 DEF LoopStep

LEMMA NextAssigned ==
    ASSUME GeneratedIds, Sound, Sound', Assigned, [Next]_vars
    PROVE  Assigned'
<1>1. CASE UNCHANGED <<created, pool, info, looping, call>>
  BY <1>1, MarkAssigned
<1>2. ASSUME NEW j \in Jobs, SubmitJob(j) PROVE Assigned'
  BY <1>1, <1>2 DEF SubmitJob
<1>3. ASSUME NEW o \in Objs, WorkerStep(o) PROVE Assigned'
  BY <1>1, <1>3 DEF WorkerStep
<1>4. CASE (\E t \in Stoppers : StopBegin(t)) \/ UNCHANGED vars
  BY <1>1, <1>4 DEF StopBegin, vars
<1>5. ~\E id \in CustomIds : AddNamedWorker(id)
  BY DEF GeneratedIds
<1>6. CASE Next
  BY <1>2, <1>3, <1>4, <1>5, <1>6, UserAssigned, LoopAssigned, BeatAssigned, AssignAssigned,
     ReleaseAssigned DEF Next
<1> QED
  BY <1>4, <1>6

LEMMA SpecAssigned == ASSUME GeneratedIds PROVE Spec => []Assigned
<1>1. Init => Assigned
  BY InitAssigned
<1>2. Sound /\ Sound' /\ Assigned /\ [Next]_vars => Assigned'
  BY NextAssigned
<1> QED
  BY <1>1, <1>2, SpecSound, PTL DEF Spec

\* While users do not choose worker ids, a worker in the table serves at most the one
\* caller it records, and an idle one nobody: through replacements, late heartbeats and
\* removals in the middle of a call, and with threads left over from earlier starts.
THEOREM AssignmentIsExclusive == GeneratedIds => (Spec => []ExclusiveAssignment)
<1> SUFFICES ASSUME GeneratedIds PROVE Spec => []ExclusiveAssignment
  OBVIOUS
<1>1. Spec => []Assigned
  BY SpecAssigned
<1>2. Assigned => ExclusiveAssignment
  BY DEF Assigned
<1> QED
  BY <1>1, <1>2, PTL

\* No worker's resources leak or are given back twice.
THEOREM ResourcesAreConserved == GeneratedIds => (Spec => []ResourcesConserved)
<1> SUFFICES ASSUME GeneratedIds PROVE Spec => []ResourcesConserved
  OBVIOUS
<1>1. Spec => []Assigned
  BY SpecAssigned
<1>2. Assigned => ResourcesConserved
  BY DEF Assigned
<1> QED
  BY <1>1, <1>2, PTL

\* Every worker that still serves the queue is in the table, by whatever route others
\* left it.
THEOREM NoWorkerIsOrphaned == GeneratedIds => (Spec => []NoOrphanWorker)
<1> SUFFICES ASSUME GeneratedIds PROVE Spec => []NoOrphanWorker
  OBVIOUS
<1>1. Spec => []Assigned
  BY SpecAssigned
<1>2. Assigned => NoOrphanWorker
  BY DEF Assigned
<1> QED
  BY <1>1, <1>2, PTL

-----------------------------------------------------------------------------
(* The bounds on the pool.                                                 *)

Occupied == {i \in Ids : pool[i] # None}

\* A worker is registered under one id, the generated one if not under a user's.
Tidy ==
    /\ \A i \in Objs : pool[i] \in {i, None}
    /\ \A i, k \in Ids : pool[i] # None /\ pool[i] = pool[k] => i = k

Bounded == Tidy /\ PoolWithinBounds

LEMMA OccupiedFinite == IsFiniteSet(Ids) /\ IsFiniteSet(Occupied)
<1>1. IsFiniteSet(Objs)
  BY FS_Interval, ConfigAssumption DEF Objs
<1>2. IsFiniteSet(Ids)
  BY <1>1, FS_Union, ConfigAssumption DEF Ids
<1> QED
  BY <1>2, FS_Subset DEF Occupied

\* The removed workers are as many as the ids they leave.
LEMMA LeftIds ==
    ASSUME TypeOK, Tidy, NEW gone \in SUBSET Members
    PROVE  LET left == {i \in Ids : pool[i] \in gone} IN
           left \subseteq Occupied /\ IsFiniteSet(left) /\ Cardinality(left) = Cardinality(gone)
<1> DEFINE left == {i \in Ids : pool[i] \in gone}
           f == [i \in left |-> pool[i]]
<1>1. left \subseteq Occupied
  BY DEF Occupied, Members
<1>2. IsFiniteSet(left)
  BY <1>1, OccupiedFinite, FS_Subset
<1>3. f \in Bijection(left, gone)
  <2>1. f \in [left -> gone]
    OBVIOUS
  <2>2. \A i, k \in left : f[i] = f[k] => i = k
    BY <1>1 DEF Tidy, Occupied
  <2>3. \A o \in gone : \E i \in left : f[i] = o
    BY DEF Members
  <2> HIDE DEF f, left
  <2> QED
    BY <2>1, <2>2, <2>3, Fun_IsBij
<1> HIDE DEF f, left
<1>4. ExistsBijection(left, gone)
  BY <1>3 DEF ExistsBijection
<1> QED
  BY <1>1, <1>2, <1>4, FS_Bijection DEF left

LEMMA ReshapeSize ==
    ASSUME Sound, Tidy, NEW gone \in SUBSET Members, NEW n \in Nat, Reshape(gone, n)
    PROVE  /\ Size \in Nat /\ Cardinality(gone) \in Nat
           /\ Size' = Size - Cardinality(gone) + n
           /\ \A i \in Objs : pool'[i] \in {i, None}
           /\ \A i, k \in Ids : pool'[i] # None /\ pool'[i] = pool'[k] => i = k
<1> DEFINE left == {i \in Ids : pool[i] \in gone}
           new == (created + 1)..created'
<1>1. TypeOK /\ Registered
  BY DEF Sound
<1>2. /\ created' = created + n /\ created' \in 0..MaxObjs /\ created <= created'
      /\ \A i \in Ids : pool'[i] = IF i \in new THEN i
                                   ELSE IF pool[i] \in gone THEN None ELSE pool[i]
      /\ gone \subseteq Objs
  BY <1>1, ReshapeFacts
<1>3. left \subseteq Occupied /\ IsFiniteSet(left) /\ Cardinality(left) = Cardinality(gone)
  BY <1>1, LeftIds
<1>4. /\ IsFiniteSet(new) /\ Cardinality(new) = n
      /\ new \subseteq Objs /\ new \subseteq Ids
  <2>1. created \in Nat /\ created' \in Nat /\ created + 1 \in Int /\ created' \in Int
    BY <1>1, <1>2 DEF TypeOK
  <2>2. IsFiniteSet(new) /\ Cardinality(new) = IF created + 1 > created' THEN 0
                                               ELSE created' - (created + 1) + 1
    <3>1. \A a, b \in Int : /\ IsFiniteSet(a..b)
                            /\ Cardinality(a..b) = IF a > b THEN 0 ELSE b - a + 1
      BY FS_Interval
    <3> QED
      BY <2>1, <3>1, Zenon
  <2> QED
    BY <1>2, <2>1, <2>2, ConfigAssumption DEF Objs, Ids
<1>5. \A i \in Ids : pool[i] # None => pool[i] \in Objs /\ pool[i] \notin new
  <2>1. \A i \in Ids : pool[i] # None => pool[i] \in Objs /\ pool[i] <= created
    BY <1>1 DEF TypeOK, Registered
  <2> QED
    BY <1>1, <2>1 DEF TypeOK, Objs
<1>6. new \intersect Occupied = {}
  <2> SUFFICES ASSUME NEW i \in new, pool[i] # None PROVE FALSE
    BY DEF Occupied
  <2>1. pool[i] = i /\ i \in Ids
    BY <1>4 DEF Tidy
  <2> QED
    BY <1>5, <2>1
<1> HIDE DEF new, left
<1>7. Occupied' = (Occupied \ left) \union new
  <2>1. \A i \in new : i # None
    BY <1>4, NamesAssumption
  <2> QED
    BY <1>2, <1>4, <2>1 DEF Occupied, left
<1>8. /\ IsFiniteSet(Occupied \ left)
      /\ Cardinality(Occupied \ left) = Cardinality(Occupied) - Cardinality(gone)
  <2>1. Occupied \intersect left = left
    BY <1>3
  <2>2. /\ IsFiniteSet(Occupied \ left)
        /\ Cardinality(Occupied \ left) = Cardinality(Occupied) - Cardinality(Occupied \intersect left)
    BY OccupiedFinite, FS_Difference, Zenon
  <2> QED
    BY <1>3, <2>1, <2>2
<1>9. Cardinality((Occupied \ left) \union new) = Cardinality(Occupied \ left) + n
  <2>1. (Occupied \ left) \intersect new = {}
    BY <1>6
  <2>2. Cardinality((Occupied \ left) \union new)
           = Cardinality(Occupied \ left) + Cardinality(new)
             - Cardinality((Occupied \ left) \intersect new)
    BY <1>4, <1>8, FS_Union, Zenon
  <2>4. Cardinality((Occupied \ left) \intersect new) = 0
    BY <2>1, FS_EmptySet
  <2>3. Cardinality(Occupied \ left) \in Nat
    BY <1>8, FS_CardinalityType
  <2> QED
    BY <1>4, <2>2, <2>3, <2>4
<1>10. Size = Cardinality(Occupied) /\ Size' = Cardinality(Occupied')
  BY DEF Size, Occupied
<1>11. Size \in Nat /\ Cardinality(gone) \in Nat
  BY <1>1, Counts
<1>12. Size' = Size - Cardinality(gone) + n
  BY <1>7, <1>8, <1>9, <1>10
<1>13. \A i \in Objs : pool'[i] \in {i, None}
  BY <1>2 DEF Tidy, Ids
<1>14. ASSUME NEW i \in Ids, NEW k \in Ids, pool'[i] # None, pool'[i] = pool'[k]
       PROVE  i = k
  <2>1. CASE i \in new /\ k \in new
    BY <1>2, <1>14, <2>1
  <2>2. CASE i \notin new /\ k \notin new
    BY <1>2, <1>14, <2>2 DEF Tidy
  <2>3. CASE i \in new /\ k \notin new
    BY <1>2, <1>5, <1>14, <2>3
  <2>4. CASE i \notin new /\ k \in new
    BY <1>2, <1>5, <1>14, <2>4
  <2> QED
    BY <2>1, <2>2, <2>3, <2>4
<1> QED
  BY <1>11, <1>12, <1>13, <1>14

LEMMA NoneGone == {} \in SUBSET Members /\ Cardinality({}) = 0 /\ 1 \in Nat /\ 0 \in Nat
BY FS_EmptySet

LEMMA InitBounded == Init => Bounded
<1> SUFFICES ASSUME Init PROVE Bounded
  OBVIOUS
<1>1. Tidy
  BY NamesAssumption DEF Init, Tidy, Ids
<1>2. Size = 0
  <2>1. {i \in Ids : pool[i] # None} = {}
    BY DEF Init
  <2> QED
    BY <2>1, FS_EmptySet DEF Size
<1> QED
  BY <1>1, <1>2, ConfigAssumption DEF Init, Bounded, PoolWithinBounds

\* The steps that leave the table alone.
LEMMA RestBounded ==
    ASSUME Bounded, UNCHANGED <<pool, userAdded, userRemoved>>,
           UNCHANGED <<running, emptied>> \/ \E t \in Stoppers : StopBegin(t)
    PROVE  Bounded'
<1>1. Size' = Size
  BY DEF Size
<1>2. running' /\ ~emptied' => running /\ ~emptied
  BY DEF StopBegin
<1> QED
  BY <1>1, <1>2 DEF Bounded, Tidy, PoolWithinBounds

LEMMA UserBounded ==
    ASSUME Sound, Bounded, AddWorker \/ (\E id \in Ids : RemoveWorker(id))
    PROVE  Bounded'
<1>1. userAdded \in Nat /\ userRemoved \in Nat /\ MinWorkers \in Nat /\ MaxWorkers \in Nat
  BY ConfigAssumption DEF Sound, TypeOK
<1>2. CASE AddWorker
  <2>1. Reshape({}, 1) /\ userAdded' = userAdded + 1 /\ UNCHANGED <<running, stopping, emptied, userRemoved>>
    BY <1>2 DEF AddWorker
  <2>2. /\ Size \in Nat /\ Size' = Size - 0 + 1
        /\ \A i \in Objs : pool'[i] \in {i, None}
        /\ \A i, k \in Ids : pool'[i] # None /\ pool'[i] = pool'[k] => i = k
    BY <2>1, NoneGone, ReshapeSize DEF Bounded
  <2> QED
    BY <1>1, <2>1, <2>2 DEF Bounded, Tidy, PoolWithinBounds
<1>3. ASSUME NEW id \in Ids, RemoveWorker(id) PROVE Bounded'
  <2>1. /\ Reshape({pool[id]}, 0) /\ userRemoved' = userRemoved + 1
        /\ UNCHANGED <<running, stopping, emptied, userAdded>>
        /\ {pool[id]} \in SUBSET Members
    BY <1>3 DEF RemoveWorker, Members
  <2>2. Cardinality({pool[id]}) = 1
    BY FS_Singleton
  <2>3. /\ Size \in Nat /\ Size' = Size - 1 + 0
        /\ \A i \in Objs : pool'[i] \in {i, None}
        /\ \A i, k \in Ids : pool'[i] # None /\ pool'[i] = pool'[k] => i = k
    BY <2>1, <2>2, NoneGone, ReshapeSize DEF Bounded
  <2> QED
    BY <1>1, <2>1, <2>3 DEF Bounded, Tidy, PoolWithinBounds
<1> QED
  BY <1>2, <1>3

LEMMA NamedBounded ==
    ASSUME Sound, Bounded, NEW id \in CustomIds, AddNamedWorker(id)
    PROVE  Bounded'
<1> DEFINE o == created + 1
<1>1. userAdded \in Nat /\ userRemoved \in Nat /\ MinWorkers \in Nat /\ MaxWorkers \in Nat
  BY ConfigAssumption DEF Sound, TypeOK
<1>2. /\ id \in Ids /\ id \notin Objs /\ o # None
      /\ userAdded' = userAdded + 1 /\ UNCHANGED <<running, stopping, emptied, userRemoved>>
      /\ \A i \in Ids : pool'[i] = IF i = id THEN o ELSE pool[i]
  BY NamesAssumption, ConfigAssumption DEF AddNamedWorker, Ids, Objs, Sound, TypeOK
<1>3. \A i \in Ids : pool[i] # o
  <2>1. \A i \in Ids : pool[i] # None => pool[i] \in Objs /\ pool[i] <= created
    BY DEF Sound, TypeOK, Registered
  <2> QED
    BY <1>2, <2>1 DEF Sound, TypeOK, Objs
<1> HIDE DEF o
<1>4. Size \in Nat /\ Size' \in {Size, Size + 1}
  <2>1. Occupied' = Occupied \union {id}
    BY <1>2 DEF Occupied
  <2>2. Cardinality(Occupied \union {id}) = IF id \in Occupied THEN Cardinality(Occupied)
                                            ELSE Cardinality(Occupied) + 1
    BY OccupiedFinite, FS_AddElement, Zenon
  <2> QED
    BY <2>1, <2>2, Counts DEF Size, Occupied, Sound
<1>5. \A i \in Objs : pool'[i] \in {i, None}
  BY <1>2 DEF Bounded, Tidy, Ids
<1>6. \A i, k \in Ids : pool'[i] # None /\ pool'[i] = pool'[k] => i = k
  BY <1>2, <1>3 DEF Bounded, Tidy
<1>7. Tidy'
  BY <1>2, <1>5, <1>6 DEF Bounded, Tidy
<1>8. PoolWithinBounds'
  <2>1. /\ Size <= MaxWorkers + userAdded
        /\ running /\ ~emptied => Size + userRemoved >= MinWorkers
    BY DEF Bounded, PoolWithinBounds
  <2>2. /\ Size' <= MaxWorkers + (userAdded + 1)
        /\ running /\ ~emptied => Size' + userRemoved >= MinWorkers
    <3>1. Size' <= MaxWorkers + (userAdded + 1)
      BY <1>1, <1>4, <2>1
    <3>2. ASSUME running, ~emptied PROVE Size' + userRemoved >= MinWorkers
      <4>1. Size + userRemoved >= MinWorkers
        BY <2>1, <3>2
      <4>2. CASE Size' = Size
        BY <4>1, <4>2
      <4>3. CASE Size' = Size + 1
        BY <1>1, <1>4, <4>1, <4>3
      <4> QED
        BY <1>4, <4>2, <4>3
    <3> QED
      BY <3>1, <3>2
  <2> QED
    BY <1>2, <2>2 DEF PoolWithinBounds
<1> QED
  BY <1>7, <1>8 DEF Bounded

LEMMA LoopBounded == ASSUME Sound, Bounded, NEW l \in Loops, LoopAct(l) PROVE Bounded'
<1>1. /\ userAdded \in Nat /\ userRemoved \in Nat /\ MinWorkers \in Nat /\ MaxWorkers \in Nat
      /\ Size \in Nat
      /\ UNCHANGED <<running, emptied, userAdded, userRemoved>>
  BY ConfigAssumption, Counts DEF Sound, TypeOK, LoopAct
<1>2. CASE UNCHANGED pool
  BY <1>1, <1>2, RestBounded
<1>3. CASE ScalingUp /\ Reshape({}, 1)
  <2>1. /\ Size < MaxWorkers /\ Size' = Size - 0 + 1
        /\ \A i \in Objs : pool'[i] \in {i, None}
        /\ \A i, k \in Ids : pool'[i] # None /\ pool'[i] = pool'[k] => i = k
    BY <1>3, NoneGone, ReshapeSize DEF Bounded, ScalingUp
  <2> QED
    BY <1>1, <2>1 DEF Bounded, Tidy, PoolWithinBounds
<1>4. ASSUME NEW o \in Members, ScalingDown, Reshape({o}, 0)
      PROVE  Bounded'
  <2>1. Cardinality({o}) = 1 /\ {o} \in SUBSET Members
    BY FS_Singleton
  <2>2. /\ Size > MinWorkers /\ Size' = Size - 1 + 0
        /\ \A i \in Objs : pool'[i] \in {i, None}
        /\ \A i, k \in Ids : pool'[i] # None /\ pool'[i] = pool'[k] => i = k
    BY <1>4, <2>1, NoneGone, ReshapeSize DEF Bounded, ScalingDown
  <2> QED
    BY <1>1, <2>2 DEF Bounded, Tidy, PoolWithinBounds
<1>5. ASSUME NEW gone \in SUBSET Members, Reshape(gone, Cardinality(gone))
      PROVE  Bounded'
  <2>1. Cardinality(gone) \in Nat
    BY Counts DEF Sound
  <2>2. /\ Size' = Size - Cardinality(gone) + Cardinality(gone)
        /\ \A i \in Objs : pool'[i] \in {i, None}
        /\ \A i, k \in Ids : pool'[i] # None /\ pool'[i] = pool'[k] => i = k
    BY <1>5, <2>1, ReshapeSize DEF Bounded
  <2>3. Size' = Size
    BY <1>1, <2>1, <2>2
  <2> QED
    BY <1>1, <2>2, <2>3 DEF Bounded, Tidy, PoolWithinBounds
<1>6. CASE CheckScaling
  BY <1>2, <1>3, <1>4, <1>6 DEF CheckScaling
<1>7. CASE CheckHealth
  <2> DEFINE late == {o \in Members : info[o].late}
  <2>1. late \in SUBSET Members /\ (Reshape(late, Cardinality(late)) \/ UNCHANGED pool)
    BY <1>7 DEF CheckHealth
  <2> HIDE DEF late
  <2> QED
    BY <1>2, <1>5, <2>1
<1> QED
  BY <1>6, <1>7 DEF LoopAct

LEMMA OwnerBounded == ASSUME Sound, Bounded, Start \/ \E t \in Stoppers : StopFinish(t) PROVE Bounded'
<1>1. /\ userAdded \in Nat /\ userRemoved \in Nat /\ MinWorkers \in Nat /\ MaxWorkers \in Nat
      /\ Size \in Nat /\ MinWorkers <= MaxWorkers
  BY ConfigAssumption, Counts DEF Sound, TypeOK
<1>2. CASE Start
  <2> DEFINE n == IF Size < MinWorkers THEN MinWorkers - Size ELSE 0
  <2>1. Reshape({}, n) /\ n \in Nat /\ UNCHANGED <<userAdded, userRemoved>>
    BY <1>1, <1>2 DEF Start
  <2>2. Size' = IF Size < MinWorkers THEN MinWorkers ELSE Size
    <3>1. Size' = Size - 0 + n
      <4> HIDE DEF n
      <4> QED
        BY <2>1, NoneGone, ReshapeSize DEF Bounded
    <3> QED
      BY <1>1, <3>1
  <2> HIDE DEF n
  <2>3. /\ \A i \in Objs : pool'[i] \in {i, None}
        /\ \A i, k \in Ids : pool'[i] # None /\ pool'[i] = pool'[k] => i = k
    BY <2>1, NoneGone, ReshapeSize DEF Bounded
  <2> QED
    BY <1>1, <2>1, <2>2, <2>3 DEF Bounded, Tidy, PoolWithinBounds
<1>3. ASSUME NEW t \in Stoppers, StopFinish(t) PROVE Bounded'
  <2>1. /\ Reshape(Members, 0) /\ userAdded' = 0 /\ userRemoved' = 0
        /\ running' => emptied'
    BY <1>3 DEF StopFinish
  <2>2. \A i \in Ids : pool'[i] = None
    <3>1. created \in Nat /\ \A i \in (created + 1)..(created + 0) : FALSE
      BY DEF Sound, TypeOK
    <3> QED
      BY <2>1, <3>1 DEF Reshape, Members
  <2>3. Size' = 0
    <3>1. {i \in Ids : pool'[i] # None} = {}
      BY <2>2
    <3> QED
      BY <3>1, FS_EmptySet DEF Size
  <2> QED
    BY <1>1, <2>1, <2>2, <2>3 DEF Bounded, Tidy, PoolWithinBounds, Ids
<1> QED
  BY <1>2, <1>3

LEMMA NextBounded == ASSUME Sound, Bounded, [Next]_vars PROVE Bounded'
<1>1. CASE /\ UNCHANGED <<pool, userAdded, userRemoved>>
           /\ UNCHANGED <<running, emptied>> \/ \E t \in Stoppers : StopBegin(t)
  BY <1>1, RestBounded
<1>2. CASE \/ UNCHANGED vars \/ \E t \in Stoppers : StopBegin(t)
           \/ \E id \in Ids : Heartbeat(id)
           \/ \E j \in Jobs : SubmitJob(j)
           \/ \E c \in Callers : Release(c) \/ \E req \in Requests : Assign(c, req)
           \/ \E o \in Objs : WorkerStep(o) \/ Expire(o)
           \/ \E l \in Loops : LoopCheck(l)
  BY <1>1, <1>2 DEF vars, StopBegin, Heartbeat, SubmitJob, Release, Assign, WorkerStep, Expire,
     LoopCheck
<1> QED
  BY <1>2, UserBounded, NamedBounded, LoopBounded, OwnerBounded DEF Next, LoopStep

\* However scaler, health check, users, and threads left over from an earlier start
\* interleave, and whichever start() and stop() calls overlap, a running pool stays between
\* min_workers and max_workers, up to what users added and removed by hand, and from
\* below unless a stop() overtaken by its start() took its table.
THEOREM PoolStaysWithinBounds == Spec => []PoolWithinBounds
<1>1. Sound /\ Bounded /\ [Next]_vars => Bounded'
  BY NextBounded
<1>2. Bounded => PoolWithinBounds
  BY DEF Bounded
<1> QED
  BY <1>1, <1>2, InitBounded, SpecSound, PTL DEF Spec
=============================================================================
