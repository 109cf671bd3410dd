-------------------------------- MODULE Upload --------------------------------
(***************************************************************************)
(* Files and their upload: LogFileHandler (logfilehandler.cpp) writes a    *)
(* file into the directory of the session and, when the user has asked for *)
(* it, hands it to NetworkManager (networkmanager.cpp), which posts it to  *)
(* Google Drive.  Both live in the main thread and a signal between them   *)
(* is a call; the replies of the network come later and in any order.      *)
(*                                                                         *)
(* A session has a directory and, on the drive, a folder; the number of    *)
(* the session stands for both.  The folder must exist before a file can   *)
(* name it as its parent, and its identifier is known when the reply to    *)
(* its creation has arrived.                                               *)
(*                                                                         *)
(* The drive and the authorisation server are external.                    *)
(***************************************************************************)
EXTENDS Integers, Sequences, FiniteSets

CONSTANTS
    Names,       \* names of files without the index: whose and of which type
    NoFolder,    \* the empty m_curr_folder_id
    MaxSession,  \* bound: sessions
    MaxIndex,    \* bound: m_currFileIndex
    MaxPosts     \* bound: requests posted

ASSUME UploadAssumption ==
    /\ MaxSession \in Nat
    /\ MaxIndex \in Nat
    /\ MaxPosts \in Nat
    /\ NoFolder \notin 0..MaxSession

VARIABLES
    nm,       \* the NetworkManager: m_authorized, m_upload_state, m_job_queue,
              \* m_curr_folder_id, m_currentAccessToken and its unanswered posts
    google,   \* m_googleEnabled
    session,  \* m_currDir; 0 before the first
    index,    \* m_currFileIndex
    disk,     \* the files written
    drive,    \* what has been uploaded
    refused,  \* ghost: jobs whose request has failed
    told,     \* ghost: jobs that uploadError has been emitted for
    handed,   \* ghost: jobs handed over to addUploadJob
    overlap,  \* ghost: a folder was asked for while another was being created
    running   \* the program has not crashed

vars == <<nm, google, session, index, disk, drive, refused, told, handed,
          overlap, running>>

local == <<google, session, index, disk>>

Session == 0..MaxSession
File == [session : Session, index : 0..MaxIndex, name : Names]

\* UploadJob: a job without data asks for a folder, which has no name here.
Folder(s) == [kind |-> "folder", session |-> s]
Upload(f) == [kind |-> "file", session |-> f.session, file |-> f]
Job == {Folder(s) : s \in Session} \cup {Upload(f) : f \in File}

\* A request on its way: the job, the parent it names and the token it bears.
Post == [no : 1..MaxPosts, job : Job, parent : Session \cup {NoFolder},
         token : {"none", "valid", "invalid"}]

TypeOK ==
    /\ nm \in [authorized : {"UNAUTH", "SUCCESS", "FAILURE"},
               state : {"UNSET", "WAITING_FOR_JOBS"}, queue : Seq(Job),
               folder : Session \cup {NoFolder},
               token : {"none", "valid", "invalid"},
               posts : 0..MaxPosts, pending : SUBSET Post]
    /\ {google, overlap, running} \subseteq BOOLEAN
    /\ session \in Session
    /\ index \in 0..MaxIndex
    /\ disk \subseteq File
    /\ drive \subseteq [job : Job, parent : Session \cup {NoFolder}]
    /\ refused \cup told \cup handed \subseteq Job

\* m_googleEnabled has no initial value.
Init ==
    /\ nm = [authorized |-> "UNAUTH", state |-> "UNSET", queue |-> <<>>,
             folder |-> NoFolder, token |-> "none", posts |-> 0, pending |-> {}]
    /\ google \in BOOLEAN
    /\ session = 0
    /\ index = 0
    /\ disk = {}
    /\ drive = {}
    /\ refused = {}
    /\ told = {}
    /\ handed = {}
    /\ overlap = FALSE
    /\ running = TRUE

-----------------------------------------------------------------------------
(* NetworkManager: jobs *)

\* createDriveFolder and uploadDataHttpMulti: the i-th job of the queue.
Request(m, i) ==
    LET job == m.queue[i] IN
    [no |-> m.posts + i, job |-> job, token |-> m.token,
     parent |-> IF job.kind = "folder" THEN NoFolder ELSE m.folder]

\* The loop runs without a return to the event loop: no reply can come in.
processAllJobs(m) ==
    [m EXCEPT !.queue = <<>>, !.state = "WAITING_FOR_JOBS",
              !.posts = m.posts + Len(m.queue),
              !.pending = m.pending \cup {Request(m, i) : i \in DOMAIN m.queue}]

Enqueue(m, job) ==
    LET queued == [m EXCEPT !.queue = Append(m.queue, job)]
    IN  IF m.state = "WAITING_FOR_JOBS" THEN processAllJobs(queued) ELSE queued

\* Fault: a file is accepted before its folder is known.
RejectsUnauthorizedOnly(m, job) == m.authorized # "SUCCESS"

\* Jobs that are turned away with uploadError.
Rejects(m, job) ==
    \/ m.authorized # "SUCCESS"
    \/ job.kind = "file" /\ m.folder = NoFolder

\* A folder is asked for while another is still being created.
Overlaps(job) == job.kind = "folder" /\ \E p \in nm.pending : p.job.kind = "folder"

\* Fault: the identifier of the last folder is kept.
AddKeepingFolder(job) ==
    /\ handed' = handed \cup {job}
    /\ IF Rejects(nm, job) THEN nm' = nm /\ told' = told \cup {job} /\ UNCHANGED overlap
       ELSE /\ nm' = Enqueue(nm, job)
            /\ overlap' = (overlap \/ Overlaps(job))
            /\ UNCHANGED told

\* A job for a folder forgets the last one at once.
addUploadJob(job) ==
    /\ handed' = handed \cup {job}
    /\ \/ /\ Rejects(nm, job)
          /\ told' = told \cup {job}
          /\ UNCHANGED <<nm, overlap>>
       \/ /\ ~Rejects(nm, job)
          /\ nm.posts < MaxPosts
          /\ nm' = Enqueue(IF job.kind = "folder" THEN [nm EXCEPT !.folder = NoFolder]
                           ELSE nm, job)
          /\ overlap' = (overlap \/ Overlaps(job))
          /\ UNCHANGED told

-----------------------------------------------------------------------------
(* LogFileHandler *)

\* The session popup: googleEnabled is set, then setCurrDir is called.  In
\* devMode it can be applied without an authorisation.
setCurrDir(enabled) ==
    /\ running
    /\ session < MaxSession
    /\ session' = session + 1
    /\ google' = enabled
    /\ \/ enabled /\ addUploadJob(Folder(session'))
       \/ ~enabled /\ UNCHANGED <<nm, told, handed, overlap>>
    /\ UNCHANGED <<index, disk, drive, refused, running>>

\* Also finishLogFile, for the session log.
writeTypeToLogFil(name) ==
    LET f == [session |-> session, index |-> index, name |-> name] IN
    /\ running
    /\ disk' = disk \cup {f}
    /\ \/ google /\ addUploadJob(Upload(f))
       \/ ~google /\ UNCHANGED <<nm, told, handed, overlap>>
    /\ UNCHANGED <<google, session, index, drive, refused, running>>

\* A session does not start a new count: resetFileIndex is never called.
incrementFileIndex ==
    /\ running
    /\ index < MaxIndex
    /\ index' = index + 1
    /\ UNCHANGED <<nm, google, session, disk, drive, refused, told, handed,
                   overlap, running>>

-----------------------------------------------------------------------------
(* NetworkManager: authorisation *)

\* Fault: m_upload_state is left as it is.
GrantedIdle(granted, text) ==
    nm' = [nm EXCEPT !.authorized = IF granted THEN "SUCCESS" ELSE "FAILURE",
                     !.token = text]

\* printNetworkReply takes the fourth piece of whatever text arrives for the
\* token.
oauthStateChanged(granted, text) ==
    nm' = [nm EXCEPT !.authorized = IF granted THEN "SUCCESS" ELSE "FAILURE",
                     !.state = IF granted THEN "WAITING_FOR_JOBS" ELSE @,
                     !.token = text]

\* authorize, answered by the server: offered until it has succeeded.
authorize ==
    /\ running
    /\ nm.authorized # "SUCCESS"
    /\ \/ oauthStateChanged(TRUE, "valid")
       \/ \E text \in {nm.token, "invalid"} : oauthStateChanged(FALSE, text)
    /\ UNCHANGED <<local, drive, refused, told, handed, overlap, running>>

-----------------------------------------------------------------------------
(* NetworkManager: replies *)

Answered(p) == [nm EXCEPT !.pending = @ \ {p}]

\* The reply to a folder is told by its mime type; its identifier is kept.
Succeeds(p) ==
    /\ p.token = "valid"
    /\ nm' = IF p.job.kind = "folder"
             THEN [Answered(p) EXCEPT !.folder = p.job.session] ELSE Answered(p)
    /\ drive' = drive \cup {[job |-> p.job, parent |-> p.parent]}
    /\ UNCHANGED <<refused, running>>

\* The drive refuses with a text, as it does when the token has expired, or
\* nothing comes back at all: then the handler reads beyond the end of the
\* list it has split the reply into, which may end the program.
Fails(p) ==
    /\ nm' = Answered(p)
    /\ refused' = refused \cup {p.job}
    /\ running' \in BOOLEAN
    /\ UNCHANGED drive

replyFinished(p) ==
    /\ running
    /\ p \in nm.pending
    /\ Succeeds(p) \/ Fails(p)
    /\ UNCHANGED <<local, told, handed, overlap>>

-----------------------------------------------------------------------------

Next ==
    \/ \E enabled \in BOOLEAN : setCurrDir(enabled)
    \/ \E name \in Names : writeTypeToLogFil(name)
    \/ incrementFileIndex
    \/ authorize
    \/ \E p \in nm.pending : replyFinished(p)

Spec == Init /\ [][Next]_vars

-----------------------------------------------------------------------------

Uploaded == {p \in nm.pending : p.job.kind = "file"} \cup {d \in drive : d.job.kind = "file"}

\* A file goes to the folder of its own session, although the one identifier of
\* the current folder is set by replies that come in any order.  (Not when a
\* folder was asked for while another was still being created: then the reply
\* that comes last wins.)
InItsFolder == ~overlap => \A u \in Uploaded : u.parent = u.job.session

\* The identifier is looked at when a file is accepted and used when it is
\* posted: in between it is never lost, so no file ends up without a folder.
NoFileAtTheRoot == \A u \in Uploaded : u.parent # NoFolder

\* Whatever LogFileHandler hands over is posted at once or its rejection is
\* told: nothing is left in the queue to wait for a call that never comes.
NothingWaits ==
    handed \subseteq told \cup refused \cup {p.job : p \in nm.pending}
                          \cup {d.job : d \in drive}
=============================================================================
