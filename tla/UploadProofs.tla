---------------------------- MODULE UploadProofs ----------------------------
(***************************************************************************)
(* What Upload promises, for any names of files and any bounds.  The       *)
(* queue is empty between two events, so a job is posted by the very call  *)
(* that hands it over; the current folder is then that of the session      *)
(* unless two folders are being created at once.                           *)
(***************************************************************************)
EXTENDS Upload, TLAPS

Manager ==
    [authorized : {"UNAUTH", "SUCCESS", "FAILURE"},
     state : {"UNSET", "WAITING_FOR_JOBS"}, queue : Seq(Job),
     folder : Session \cup {NoFolder}, token : {"none", "valid", "invalid"},
     posts : 0..MaxPosts, pending : SUBSET Post]

\* Between two events nothing is queued, and jobs are accepted only once the
\* queue is served.
QueueIsServed ==
    /\ nm.queue = <<>>
    /\ nm.authorized = "SUCCESS" => nm.state = "WAITING_FOR_JOBS"

TypeInv == TypeOK /\ QueueIsServed

\* The request that a call of addUploadJob posts.
Posted(m, job) ==
    [no |-> m.posts + 1, job |-> job, token |-> m.token,
     parent |-> IF job.kind = "folder" THEN NoFolder ELSE m.folder]

\* A job handed to a manager that serves its queue is posted at once.
LEMMA EnqueuePosts ==
    ASSUME NEW m \in Manager, m.queue = <<>>, m.state = "WAITING_FOR_JOBS",
           NEW job \in Job
    PROVE  Enqueue(m, job) =
              [m EXCEPT !.posts = m.posts + 1,
                        !.pending = m.pending \cup {Posted(m, job)}]
<1> DEFINE q == [m EXCEPT !.queue = Append(m.queue, job)]
<1>1. /\ q.queue = <<job>> /\ Len(q.queue) = 1 /\ q.queue[1] = job
      /\ q.posts = m.posts /\ q.pending = m.pending /\ q.token = m.token
      /\ q.folder = m.folder
  BY DEF Manager
<1>2. {Request(q, i) : i \in DOMAIN q.queue} = {Posted(m, job)}
  <2>1. DOMAIN q.queue = {1}
    BY <1>1
  <2>2. Request(q, 1) = Posted(m, job)
    BY <1>1 DEF Request, Posted
  <2> HIDE DEF q
  <2> QED BY <2>1, <2>2
<1>3. processAllJobs(q) = [m EXCEPT !.posts = m.posts + 1,
                                    !.pending = m.pending \cup {Posted(m, job)}]
  BY <1>1, <1>2 DEF processAllJobs, Manager
<1> QED BY <1>3 DEF Enqueue

\* What a call of addUploadJob does to the manager: nothing, or one request.
LEMMA AddsOneRequest ==
    ASSUME TypeInv, NEW job \in Job, addUploadJob(job)
    PROVE  /\ nm'.queue = <<>>
           /\ nm'.state = nm.state /\ nm'.authorized = nm.authorized
           /\ nm' \in Manager
           /\ handed' = handed \cup {job}
           /\ \/ Rejects(nm, job) /\ nm' = nm /\ told' = told \cup {job}
                 /\ overlap' = overlap
              \/ /\ ~Rejects(nm, job) /\ told' = told
                 /\ nm'.folder = (IF job.kind = "folder" THEN NoFolder ELSE nm.folder)
                 /\ overlap' = (overlap \/ Overlaps(job))
                 /\ nm'.pending = nm.pending \cup {Posted(nm, job)}
<1>0. nm \in Manager /\ nm.queue = <<>>
  BY DEF TypeInv, TypeOK, QueueIsServed, Manager
<1>1. CASE Rejects(nm, job) /\ told' = told \cup {job} /\ UNCHANGED <<nm, overlap>>
  BY <1>0, <1>1 DEF addUploadJob
<1>2. CASE /\ ~Rejects(nm, job) /\ nm.posts < MaxPosts
           /\ nm' = Enqueue(IF job.kind = "folder" THEN [nm EXCEPT !.folder = NoFolder]
                            ELSE nm, job)
           /\ overlap' = (overlap \/ Overlaps(job)) /\ UNCHANGED told
  <2> DEFINE m == IF job.kind = "folder" THEN [nm EXCEPT !.folder = NoFolder] ELSE nm
  <2>1. nm.state = "WAITING_FOR_JOBS"
    BY <1>2 DEF Rejects, TypeInv, QueueIsServed
  <2>2. /\ m \in Manager /\ m.queue = <<>> /\ m.state = "WAITING_FOR_JOBS"
        /\ m.posts = nm.posts /\ m.pending = nm.pending /\ m.authorized = nm.authorized
        /\ m.folder = (IF job.kind = "folder" THEN NoFolder ELSE nm.folder)
        /\ Posted(m, job) = Posted(nm, job)
    BY <1>0, <2>1 DEF Manager, Posted
  <2>3. nm' = [m EXCEPT !.posts = m.posts + 1,
                        !.pending = m.pending \cup {Posted(m, job)}]
    <3>1. nm' = Enqueue(m, job)
      BY <1>2
    <3> HIDE DEF m
    <3> QED BY <2>2, <3>1, EnqueuePosts
  <2>4. Posted(nm, job) \in Post /\ nm.posts + 1 \in 0..MaxPosts
    BY <1>0, <1>2, UploadAssumption DEF Posted, Post, Manager
  <2> HIDE DEF m
  <2>5. nm' \in Manager
    BY <2>2, <2>3, <2>4 DEF Manager
  <2>6. /\ nm'.queue = <<>> /\ nm'.state = nm.state /\ nm'.authorized = nm.authorized
        /\ nm'.folder = (IF job.kind = "folder" THEN NoFolder ELSE nm.folder)
        /\ nm'.pending = nm.pending \cup {Posted(nm, job)}
    BY <2>1, <2>2, <2>3 DEF Manager
  <2> QED BY <1>2, <2>5, <2>6 DEF addUploadJob
<1> QED BY <1>1, <1>2 DEF addUploadJob

\* The two callers of addUploadJob hand over jobs.
LEMMA JobsAreJobs ==
    /\ \A s \in Session : Folder(s) \in Job
    /\ \A f \in File : Upload(f) \in Job
BY DEF Job, Folder, Upload, File

-----------------------------------------------------------------------------
(* Type correctness *)

LEMMA InitTypeInv == Init => TypeInv
<1> SUFFICES ASSUME Init PROVE TypeInv
  OBVIOUS
<1>1. nm \in Manager
  BY UploadAssumption DEF Init, Manager
<1>2. QueueIsServed
  BY DEF Init, QueueIsServed
<1>3. session \in Session /\ index \in 0..MaxIndex
  BY UploadAssumption DEF Init, Session
<1> QED BY <1>1, <1>2, <1>3 DEF Init, TypeInv, TypeOK, Manager

LEMMA NextTypeInv == TypeInv /\ [Next]_vars => TypeInv'
<1> SUFFICES ASSUME TypeInv, [Next]_vars PROVE TypeInv'
  OBVIOUS
<1> USE DEF TypeInv, QueueIsServed
<1>0. /\ nm \in Manager
      /\ \A q \in Manager : q.queue = <<>> /\ q.state = nm.state /\ q.authorized = nm.authorized
                            => (q.authorized = "SUCCESS" => q.state = "WAITING_FOR_JOBS")
  BY DEF TypeOK, Manager
<1>1. ASSUME NEW enabled \in BOOLEAN, setCurrDir(enabled) PROVE TypeInv'
  <2>1. session + 1 \in Session /\ session' \in Session
    BY <1>1, UploadAssumption DEF setCurrDir, TypeOK, Session
  <2>2. CASE addUploadJob(Folder(session'))
    <3>1. Folder(session') \in Job
      BY <2>1, JobsAreJobs
    <3> QED BY <1>1, <2>1, <2>2, <3>1, AddsOneRequest DEF setCurrDir, TypeOK, Manager
  <2>3. CASE UNCHANGED <<nm, told, handed, overlap>>
    BY <1>1, <2>1, <2>3 DEF setCurrDir, TypeOK
  <2> QED BY <1>1, <2>2, <2>3 DEF setCurrDir
<1>2. ASSUME NEW name \in Names, writeTypeToLogFil(name) PROVE TypeInv'
  <2> DEFINE f == [session |-> session, index |-> index, name |-> name]
  <2>1. f \in File
    BY DEF TypeOK, File
  <2>2. CASE addUploadJob(Upload(f))
    <3>1. Upload(f) \in Job
      BY <2>1, JobsAreJobs
    <3> QED BY <1>2, <2>1, <2>2, <3>1, AddsOneRequest
            DEF writeTypeToLogFil, TypeOK, Manager
  <2>3. CASE UNCHANGED <<nm, told, handed, overlap>>
    BY <1>2, <2>1, <2>3 DEF writeTypeToLogFil, TypeOK
  <2> QED BY <1>2, <2>2, <2>3 DEF writeTypeToLogFil
<1>3. CASE incrementFileIndex
  BY <1>3, UploadAssumption DEF incrementFileIndex, TypeOK
<1>4. CASE authorize
  <2>1. ASSUME NEW granted \in BOOLEAN, NEW text \in {"none", "valid", "invalid"},
               oauthStateChanged(granted, text)
        PROVE  nm' \in Manager /\ nm'.queue = <<>>
               /\ (nm'.authorized = "SUCCESS" => nm'.state = "WAITING_FOR_JOBS")
    BY <1>0, <2>1 DEF oauthStateChanged, Manager
  <2>2. nm.token \in {"none", "valid", "invalid"}
    BY <1>0 DEF Manager
  <2>3. \E granted \in BOOLEAN, text \in {"none", "valid", "invalid"} :
           oauthStateChanged(granted, text)
    BY <1>4, <2>2 DEF authorize
  <2>4. nm' \in Manager /\ QueueIsServed'
    BY <2>1, <2>3
  <2> QED BY <1>4, <2>4 DEF authorize, local, TypeOK, Manager
<1>5. ASSUME NEW p \in nm.pending, replyFinished(p) PROVE TypeInv'
  <2>1. p \in Post /\ p.job \in Job /\ p.parent \in Session \cup {NoFolder}
        /\ p.job.session \in Session
    BY <1>0 DEF Manager, Post, Job, Folder, Upload, File
  <2>2. nm' \in Manager /\ QueueIsServed'
    BY <1>0, <1>5, <2>1 DEF replyFinished, Succeeds, Fails, Answered, Manager
  <2>3. CASE Succeeds(p)
    BY <1>5, <2>1, <2>2, <2>3 DEF replyFinished, Succeeds, local, TypeOK, Manager
  <2>4. CASE Fails(p)
    BY <1>5, <2>1, <2>2, <2>4 DEF replyFinished, Fails, local, TypeOK, Manager
  <2> QED BY <1>5, <2>3, <2>4 DEF replyFinished
<1>6. CASE UNCHANGED vars
  BY <1>6 DEF vars, TypeOK
<1> QED BY <1>1, <1>2, <1>3, <1>4, <1>5, <1>6 DEF Next

\* Every variable keeps its type, and the queue is empty between two events.
THEOREM TypeCorrect == Spec => []TypeOK
<1>1. TypeInv => TypeOK
  BY DEF TypeInv
<1> QED BY <1>1, InitTypeInv, NextTypeInv, PTL DEF Spec

-----------------------------------------------------------------------------
(* Folders *)

\* Before the authorisation there are no folders, and while none overlap the
\* current one, and the one being created, are those of the session.
FolderInv ==
    /\ nm.authorized # "SUCCESS" => nm.folder = NoFolder /\ nm.pending = {}
    /\ ~overlap /\ google =>
          /\ nm.folder \in {NoFolder, session}
          /\ \A p \in nm.pending : p.job.kind = "folder" => p.job.session = session

UploadInv == FolderInv /\ InItsFolder /\ NoFileAtTheRoot /\ NothingWaits

LEMMA InitUploadInv == Init => UploadInv
BY DEF Init, UploadInv, FolderInv, InItsFolder, NoFileAtTheRoot, NothingWaits, Uploaded

\* Nothing changes for an upload under way that is rejected, or never asked for.
LEMMA UnchangedUploads ==
    ASSUME UploadInv, nm' = nm, drive' = drive, overlap' = overlap, refused' = refused,
           \/ told' = told /\ handed' = handed
           \/ \E job : told' = told \cup {job} /\ handed' = handed \cup {job}
    PROVE  (InItsFolder /\ NoFileAtTheRoot /\ NothingWaits)'
BY DEF UploadInv, InItsFolder, NoFileAtTheRoot, NothingWaits, Uploaded

LEMMA NextUploadInv == TypeInv /\ UploadInv /\ [Next]_vars => UploadInv'
<1> SUFFICES ASSUME TypeInv, UploadInv, [Next]_vars PROVE UploadInv'
  OBVIOUS
<1>0. nm \in Manager /\ session \in Session /\ NoFolder \notin Session
  BY UploadAssumption DEF TypeInv, TypeOK, Manager, Session
<1>1. ASSUME NEW enabled \in BOOLEAN, setCurrDir(enabled) PROVE UploadInv'
  <2>1. /\ session' = session + 1 /\ session' \in Session
        /\ google' = enabled /\ UNCHANGED <<drive, refused>>
    BY <1>0, <1>1, UploadAssumption DEF setCurrDir, Session
  <2>2. CASE enabled /\ addUploadJob(Folder(session'))
    <3> DEFINE job == Folder(session')
    <3>1. job \in Job /\ job.kind = "folder" /\ job.session = session'
      BY <2>1, JobsAreJobs DEF Folder
    <3> HIDE DEF job
    <3>2. addUploadJob(job)
      BY <2>2 DEF job
    <3>3. CASE Rejects(nm, job) /\ nm' = nm /\ told' = told \cup {job} /\ overlap' = overlap
      <4>1. nm.authorized # "SUCCESS"
        BY <3>1, <3>3 DEF Rejects
      <4>2. FolderInv'
        BY <3>3, <4>1 DEF UploadInv, FolderInv
      <4>3. handed' = handed \cup {job}
        BY <3>1, <3>2, AddsOneRequest
      <4> QED BY <2>1, <3>3, <4>2, <4>3, UnchangedUploads DEF UploadInv
    <3>4. CASE /\ ~Rejects(nm, job) /\ told' = told /\ nm'.folder = NoFolder
               /\ overlap' = (overlap \/ Overlaps(job))
               /\ nm'.pending = nm.pending \cup {Posted(nm, job)}
               /\ handed' = handed \cup {job} /\ nm'.authorized = nm.authorized
      <4>1. nm.authorized = "SUCCESS"
        BY <3>4 DEF Rejects
      <4>2. /\ Posted(nm, job).job = job
            /\ ~overlap' => \A p \in nm.pending : p.job.kind # "folder"
        BY <3>1, <3>4 DEF Posted, Overlaps
      <4>3. FolderInv'
        BY <3>1, <3>4, <4>1, <4>2 DEF FolderInv
      <4>4. Uploaded' = Uploaded
        BY <2>1, <3>1, <3>4, <4>2 DEF Uploaded
      <4>5. (InItsFolder /\ NoFileAtTheRoot)'
        BY <3>4, <4>4 DEF UploadInv, InItsFolder, NoFileAtTheRoot
      <4>6. NothingWaits'
        BY <2>1, <3>4, <4>2 DEF UploadInv, NothingWaits
      <4> QED BY <4>3, <4>5, <4>6 DEF UploadInv
    <3> QED BY <3>1, <3>2, <3>3, <3>4, AddsOneRequest
  <2>3. CASE ~enabled /\ UNCHANGED <<nm, told, handed, overlap>>
    <3>1. FolderInv'
      BY <2>1, <2>3 DEF UploadInv, FolderInv
    <3> QED BY <2>1, <2>3, <3>1, UnchangedUploads DEF UploadInv
  <2> QED BY <1>1, <2>2, <2>3 DEF setCurrDir
<1>2. ASSUME NEW name \in Names, writeTypeToLogFil(name) PROVE UploadInv'
  <2>1. UNCHANGED <<google, session, drive, refused>>
    BY <1>2 DEF writeTypeToLogFil
  <2> DEFINE f == [session |-> session, index |-> index, name |-> name]
             job == Upload(f)
  <2>2. CASE google /\ addUploadJob(job)
    <3>1. job \in Job /\ job.kind = "file" /\ job.session = session
      <4>1. f \in File /\ f.session = session
        BY <1>0 DEF TypeInv, TypeOK, File
      <4> QED BY <4>1, JobsAreJobs DEF Upload
    <3> HIDE DEF job
    <3>2. handed' = handed \cup {job} /\ nm'.authorized = nm.authorized
      BY <2>2, <3>1, AddsOneRequest
    <3>3. CASE Rejects(nm, job) /\ nm' = nm /\ told' = told \cup {job} /\ overlap' = overlap
      <4>1. FolderInv'
        BY <2>1, <3>3 DEF UploadInv, FolderInv
      <4> QED BY <2>1, <3>2, <3>3, <4>1, UnchangedUploads DEF UploadInv
    <3>4. CASE /\ ~Rejects(nm, job) /\ told' = told /\ nm'.folder = nm.folder
               /\ overlap' = (overlap \/ Overlaps(job))
               /\ nm'.pending = nm.pending \cup {Posted(nm, job)}
      <4>1. /\ nm.authorized = "SUCCESS" /\ nm.folder # NoFolder /\ overlap' = overlap
            /\ Posted(nm, job).job = job /\ Posted(nm, job).parent = nm.folder
        <5>1. job.kind # "folder" /\ ~Overlaps(job) /\ overlap \in BOOLEAN
          BY <3>1 DEF Overlaps, TypeInv, TypeOK
        <5>2. nm.authorized = "SUCCESS" /\ nm.folder # NoFolder
          BY <3>1, <3>4 DEF Rejects
        <5> QED BY <3>4, <5>1, <5>2 DEF Posted
      <4>2. FolderInv'
        BY <2>1, <3>1, <3>2, <3>4, <4>1 DEF UploadInv, FolderInv
      <4>3. Uploaded' = Uploaded \cup {Posted(nm, job)}
        BY <2>1, <3>1, <3>4, <4>1 DEF Uploaded
      <4>4. ~overlap => nm.folder = session
        BY <2>2, <4>1 DEF UploadInv, FolderInv
      <4>5. InItsFolder'
        BY <3>1, <4>1, <4>3, <4>4 DEF UploadInv, InItsFolder
      <4>6. NoFileAtTheRoot'
        BY <4>1, <4>3 DEF UploadInv, NoFileAtTheRoot
      <4>7. NothingWaits'
        BY <2>1, <3>2, <3>4, <4>1 DEF UploadInv, NothingWaits
      <4> QED BY <4>2, <4>5, <4>6, <4>7 DEF UploadInv
    <3> QED BY <2>2, <3>1, <3>3, <3>4, AddsOneRequest
  <2>3. CASE UNCHANGED <<nm, told, handed, overlap>>
    <3>1. FolderInv'
      BY <2>1, <2>3 DEF UploadInv, FolderInv
    <3> QED BY <2>1, <2>3, <3>1, UnchangedUploads DEF UploadInv
  <2> QED BY <1>2, <2>2, <2>3 DEF writeTypeToLogFil
<1>3. CASE incrementFileIndex
  <2>1. FolderInv'
    BY <1>3 DEF incrementFileIndex, UploadInv, FolderInv
  <2> QED BY <1>3, <2>1, UnchangedUploads DEF incrementFileIndex, UploadInv
<1>4. CASE authorize
  <2>1. /\ nm'.folder = nm.folder /\ nm'.pending = nm.pending
        /\ nm.folder = NoFolder /\ nm.pending = {}
        /\ UNCHANGED <<drive, refused, told, handed, overlap>>
    BY <1>0, <1>4 DEF authorize, oauthStateChanged, Manager, UploadInv, FolderInv
  <2>2. FolderInv'
    BY <2>1 DEF FolderInv
  <2>3. (InItsFolder /\ NoFileAtTheRoot /\ NothingWaits)'
    BY <2>1 DEF UploadInv, InItsFolder, NoFileAtTheRoot, NothingWaits, Uploaded
  <2> QED BY <2>2, <2>3 DEF UploadInv
<1>5. ASSUME NEW p \in nm.pending, replyFinished(p) PROVE UploadInv'
  <2>1. /\ UNCHANGED <<google, session, told, handed, overlap>>
        /\ nm.authorized = "SUCCESS" /\ p.job.session \in Session
    BY <1>0, <1>5 DEF replyFinished, local, UploadInv, FolderInv, Manager, Post, Job,
                      Folder, Upload, File
  <2>2. /\ nm'.pending = nm.pending \ {p} /\ nm'.authorized = nm.authorized
        /\ \/ nm'.folder = nm.folder
           \/ p.job.kind = "folder" /\ nm'.folder = p.job.session
        /\ \/ refused' = refused /\ drive' = drive \cup {[job |-> p.job, parent |-> p.parent]}
           \/ refused' = refused \cup {p.job} /\ drive' = drive
    BY <1>0, <1>5 DEF replyFinished, Succeeds, Fails, Answered, Manager
  <2>3. FolderInv'
    BY <2>1, <2>2 DEF UploadInv, FolderInv
  <2>4. \A u \in Uploaded' : \E v \in Uploaded : u.job = v.job /\ u.parent = v.parent
    <3> DEFINE d == [job |-> p.job, parent |-> p.parent]
    <3>1. d.job = p.job /\ d.parent = p.parent
      OBVIOUS
    <3> HIDE DEF d
    <3>2. drive' \subseteq drive \cup {d} /\ nm'.pending \subseteq nm.pending
      BY <2>2 DEF d
    <3>3. d.job.kind = "file" => p \in Uploaded
      BY <3>1 DEF Uploaded
    <3>4. \A u \in Uploaded' : u \in Uploaded \/ (u = d /\ d.job.kind = "file")
      BY <3>2 DEF Uploaded
    <3> QED BY <3>1, <3>3, <3>4
  <2>5. (InItsFolder /\ NoFileAtTheRoot)'
    BY <2>1, <2>4 DEF UploadInv, InItsFolder, NoFileAtTheRoot
  <2>6. NothingWaits'
    BY <2>1, <2>2 DEF UploadInv, NothingWaits
  <2> QED BY <2>3, <2>5, <2>6 DEF UploadInv
<1>6. CASE UNCHANGED vars
  <2>1. FolderInv'
    BY <1>6 DEF vars, UploadInv, FolderInv
  <2> QED BY <1>6, <2>1, UnchangedUploads DEF vars, UploadInv
<1> QED BY <1>1, <1>2, <1>3, <1>4, <1>5, <1>6 DEF Next

LEMMA UploadInvHolds == Spec => []UploadInv
<1>1. Init => TypeInv /\ UploadInv
  BY InitTypeInv, InitUploadInv
<1>2. TypeInv /\ UploadInv /\ [Next]_vars => (TypeInv /\ UploadInv)'
  BY NextTypeInv, NextUploadInv
<1> QED BY <1>1, <1>2, PTL DEF Spec

\* Files go to the folder of their own session as long as no folder is asked
\* for while another is being created.
THEOREM InItsFolderHolds == Spec => []InItsFolder
<1>1. UploadInv => InItsFolder
  BY DEF UploadInv
<1> QED BY <1>1, UploadInvHolds, PTL

\* No file is ever posted without a parent.
THEOREM NoFileAtTheRootHolds == Spec => []NoFileAtTheRoot
<1>1. UploadInv => NoFileAtTheRoot
  BY DEF UploadInv
<1> QED BY <1>1, UploadInvHolds, PTL

\* Every job handed over is on its way, done, refused or told to have failed.
THEOREM NothingWaitsHolds == Spec => []NothingWaits
<1>1. UploadInv => NothingWaits
  BY DEF UploadInv
<1> QED BY <1>1, UploadInvHolds, PTL
=============================================================================
