------------------------------ MODULE TaskFiles ------------------------------
(***************************************************************************)
(* The files of a task: copies of the uploaded reference images, the three *)
(* reports, and what reads, rebuilds, copies and deletes them              *)
(* (src/app/api/server.py with src/app/reports.py).                        *)
(*                                                                         *)
(* Everything that writes into the folder of the task holds its mutation   *)
(* lock and tests the tombstone, so it is one step; a step may fail, or    *)
(* its process die, between two files.  A download is sent, and a rerun    *)
(* copies, without the lock.  Who runs the task, and what a crash does to  *)
(* its snapshot, is TaskLifecycle's business: here a run that was lost     *)
(* stays "running" until it is closed or replaced.                         *)
(***************************************************************************)
EXTENDS Integers, Sequences, FiniteSets

CONSTANTS
    Images,     \* images a shopper may upload
    MaxRuns     \* bound on the runs of the thread id

ASSUME FilesConstantsOK == MaxRuns \in Nat

VARIABLES
    uploads,    \* complete uploads, with their content and their owner's file
    stored,     \* task.json: [status, run, bound, listed]; the images its run was given and
                \* those its session_created lists
    folder,     \* [exists, images, reports]: reports[i] is the run report i shows, 0 if missing
    erased,     \* "no", "tombstone" or "answered"
    copying,    \* a rerun: [at, todo, wanted, images]
    reading     \* a download: [at, report, run, content]

filesVars == <<uploads, stored, folder, erased, copying, reading>>

\* REPORT_FILE_SPECS: Markdown, JSON and PDF, in the order they are written.
Reports == 1 .. 3
NoReports == [i \in Reports |-> 0]
MissingReports == {i \in Reports : folder.reports[i] = 0}

\* A writer that keeps what it finds.
CompletedReports(n, run) ==
    [i \in Reports |-> IF i <= n /\ folder.reports[i] = 0 THEN run ELSE folder.reports[i]]

\* write_reports: every file is replaced as a whole, the first n of them before it fails.
WrittenReports(n, run) == [i \in Reports |-> IF i <= n THEN run ELSE folder.reports[i]]

-----------------------------------------------------------------------------
\* upload_reference: without the owner's file, written last, an upload is of no use.
Upload(image) ==
    /\ uploads' = uploads \cup {image}
    /\ UNCHANGED <<stored, folder, erased, copying, reading>>

\* A running snapshot is replaced, whether or not its run still works; a settled one is not.
Creatable == erased = "no" /\ stored.status \in {"none", "running"}

CreateWithImages(images) ==
    /\ Creatable /\ images \subseteq uploads /\ stored.run < MaxRuns
    /\ stored' = [status |-> "running", run |-> stored.run + 1, bound |-> images, listed |-> {}]
    /\ folder' = [folder EXCEPT !.exists = TRUE, !.images = @ \cup images]
    /\ UNCHANGED <<uploads, erased, copying, reading>>

\* Only a folder that this request made is removed again, if that works.
CreateFailsBinding(images) ==
    /\ Creatable /\ images \subseteq uploads /\ stored.run < MaxRuns
    /\ \/ \E some \in SUBSET images :
            folder' = [folder EXCEPT !.exists = TRUE, !.images = @ \cup some]
       \/ ~folder.exists /\ UNCHANGED folder
    /\ UNCHANGED <<uploads, stored, erased, copying, reading>>

Recording == erased = "no" /\ stored.status = "running"

SessionCreated ==
    /\ Recording /\ stored' = [stored EXCEPT !.listed = stored.bound]
    /\ UNCHANGED <<uploads, folder, erased, copying, reading>>

\* _record_task_result: the reports first, then the snapshot that offers them.
RecordResult ==
    /\ Recording /\ stored.listed = stored.bound
    /\ \E n \in 0 .. Cardinality(Reports) :
        /\ folder' = [folder EXCEPT !.exists = TRUE, !.reports = WrittenReports(n, stored.run)]
        /\ stored' \in {stored} \cup (IF n = Cardinality(Reports)
                                      THEN {[stored EXCEPT !.status = "completed"]} ELSE {})
    /\ UNCHANGED <<uploads, erased, copying, reading>>

\* An error, a cancellation or the recovery of a lost run.
CloseRun ==
    /\ Recording /\ stored' = [stored EXCEPT !.status = "closed"]
    /\ UNCHANGED <<uploads, folder, erased, copying, reading>>

\* _load_report_snapshot: if a file is missing all are written again, n of them with success.
Rebuilds(n) ==
    /\ erased = "no" /\ stored.status = "completed"
    /\ folder' = IF MissingReports = {} THEN folder
                 ELSE [folder EXCEPT !.reports = WrittenReports(n, stored.run)]

ListReports ==
    /\ \E n \in 0 .. Cardinality(Reports) : Rebuilds(n)
    /\ UNCHANGED <<uploads, stored, erased, copying, reading>>

Download(i) ==
    /\ reading.at = "idle"
    /\ Rebuilds(Cardinality(Reports))
    /\ reading' = [at |-> "sending", report |-> i, run |-> stored.run, content |-> 0]
    /\ UNCHANGED <<uploads, stored, erased, copying>>

\* The file is opened after the handler has returned.
SendFile ==
    /\ reading.at = "sending"
    /\ reading' = [reading EXCEPT !.at = "idle", !.content = folder.reports[reading.report]]
    /\ UNCHANGED <<uploads, stored, folder, erased, copying>>

\* A report disappears from the disk.
LoseReport(i) ==
    /\ folder.reports[i] # 0 /\ folder' = [folder EXCEPT !.reports[i] = 0]
    /\ UNCHANGED <<uploads, stored, erased, copying, reading>>

-----------------------------------------------------------------------------
WriteTombstone ==
    /\ erased = "no" /\ stored.status # "none" /\ erased' = "tombstone"
    /\ UNCHANGED <<uploads, stored, folder, copying, reading>>

\* The folder goes as a whole, or part of it before a failure; the request may be repeated.
RemoveFolder ==
    /\ erased = "tombstone"
    /\ \/ /\ folder' = [exists |-> FALSE, images |-> {}, reports |-> NoReports]
          /\ erased' = "answered" /\ stored' = [stored EXCEPT !.status = "none"]
       \/ \E kept \in SUBSET folder.images, left \in SUBSET Reports :
          /\ folder' = [folder EXCEPT !.images = kept,
                            !.reports = [i \in Reports |-> IF i \in left THEN @[i] ELSE 0]]
          /\ UNCHANGED <<erased, stored>>
    /\ UNCHANGED <<uploads, copying, reading>>

-----------------------------------------------------------------------------
\* _start_child_task: the parent's snapshot has been read; its folder may go meanwhile.
StartRerun ==
    /\ copying.at = "none" /\ erased = "no" /\ stored.status = "completed"
    /\ copying' = [at |-> "copying", todo |-> stored.listed, wanted |-> stored.listed,
                   images |-> {}]
    /\ UNCHANGED <<uploads, stored, folder, erased, reading>>

\* A copy that is missing is left out; one that goes during the copy, or any other failure,
\* ends the command and leaves the child's folder behind.
CopyImage(image) ==
    /\ copying.at = "copying" /\ image \in copying.todo
    /\ copying' = [copying EXCEPT !.todo = @ \ {image},
                                  !.images = @ \cup ({image} \cap folder.images)]
    /\ UNCHANGED <<uploads, stored, folder, erased, reading>>

RerunFails ==
    /\ copying.at = "copying" /\ copying' = [copying EXCEPT !.at = "abandoned"]
    /\ UNCHANGED <<uploads, stored, folder, erased, reading>>

ChildStarts ==
    /\ copying.at = "copying" /\ copying.todo = {}
    /\ copying' = [copying EXCEPT !.at = "running"]
    /\ UNCHANGED <<uploads, stored, folder, erased, reading>>

-----------------------------------------------------------------------------
FilesInit ==
    /\ uploads = {} /\ erased = "no"
    /\ stored = [status |-> "none", run |-> 0, bound |-> {}, listed |-> {}]
    /\ folder = [exists |-> FALSE, images |-> {}, reports |-> NoReports]
    /\ copying = [at |-> "none", todo |-> {}, wanted |-> {}, images |-> {}]
    /\ reading = [at |-> "idle", report |-> 1, run |-> 0, content |-> 0]

FilesNext ==
    \/ \E image \in Images : Upload(image) \/ CopyImage(image)
    \/ \E images \in SUBSET Images : CreateWithImages(images) \/ CreateFailsBinding(images)
    \/ \E i \in Reports : Download(i) \/ LoseReport(i)
    \/ SessionCreated \/ RecordResult \/ CloseRun \/ ListReports \/ SendFile
    \/ WriteTombstone \/ RemoveFolder \/ StartRerun \/ RerunFails \/ ChildStarts

FilesSpec == FilesInit /\ [][FilesNext]_filesVars

-----------------------------------------------------------------------------
(* Properties *)

FilesTypeOK ==
    /\ uploads \subseteq Images
    /\ stored \in [status : {"none", "running", "completed", "closed"}, run : 0 .. MaxRuns,
                   bound : SUBSET Images, listed : SUBSET Images]
    /\ folder \in [exists : BOOLEAN, images : SUBSET Images, reports : [Reports -> 0 .. MaxRuns]]
    /\ erased \in {"no", "tombstone", "answered"}
    /\ copying \in [at : {"none", "copying", "running", "abandoned"}, todo : SUBSET Images,
                    wanted : SUBSET Images, images : SUBSET Images]
    /\ reading \in [at : {"idle", "sending"}, report : Reports, run : 0 .. MaxRuns,
                    content : 0 .. MaxRuns]

\* The files agree with the snapshot through failures between two of them, lost files,
\* replaced runs and deletion: what a completed task has and what a download sends is of
\* the completed run, never of an earlier run that died after writing reports; the images a
\* snapshot lists are there until the task is deleted, and a rerun of a task that nobody
\* deletes gets them all; nothing comes back once a deletion has been answered.
FilesAgree ==
    /\ stored.status = "completed" /\ erased = "no" =>
            \A i \in Reports \ MissingReports : folder.reports[i] = stored.run
    /\ reading.content \in {0, reading.run}
    /\ erased = "no" => stored.bound \subseteq folder.images /\ stored.listed \subseteq stored.bound
    /\ copying.at = "running" /\ erased = "no" => copying.images = copying.wanted
    /\ erased = "answered" => folder.images = {} /\ MissingReports = Reports
=============================================================================
