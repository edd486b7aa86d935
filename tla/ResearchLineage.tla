--------------------------- MODULE ResearchLineage ---------------------------
(***************************************************************************)
(* Reruns and relaxations of a completed research,                         *)
(* src/app/api/server.py: rerun_task, relax_task, _find_idempotent_child,  *)
(* _start_child_task.  A command carries a key of the client, and a retry  *)
(* of it, on any worker, after a crash or an error, must find the child    *)
(* that the first one started.  There is no table of keys: every command   *)
(* scans the history under the parent's command lock, a flock that all     *)
(* workers share until a deletion of the parent unlinks its file.          *)
(*                                                                         *)
(* One parent is followed; a key stands for a key with its relation.  A    *)
(* worker awaits nothing between its lock and its answer, so it executes   *)
(* one command at a time; other workers interleave.                        *)
(***************************************************************************)
EXTENDS Integers, FiniteSets

CONSTANTS
    LineageWorkers,
    CommandKeys,
    Children,       \* thread ids of children, each used once
    MaxCrashes

ASSUME LineageConstantsOK == "none" \notin CommandKeys

VARIABLES
    childKey,   \* childKey[c]: the key in the task.json of child c, or none
    deleted,    \* deleted[c]: child c was started and deleted since
    parentGone, \* the parent is deleted
    known,      \* known[w]: the children in the records of w
    stale,      \* stale[w]: the parent is in the records of w, whatever the disk says
    command,    \* command[w]: the command w executes
    answers,    \* history: answers[k], the children named in successful answers
    lineageCrashes

lineageVars == <<childKey, deleted, parentGone, known, stale, command, answers, lineageCrashes>>

NoCommand == [pc |-> "idle", key |-> "none", child |-> "none", oldFile |-> FALSE]
HoldsCommandLock(w) == command[w].pc \in {"scan", "start", "answer"}

-----------------------------------------------------------------------------
(* _find_idempotent_child *)

\* The history of w: task.json on the disk, or the own record.
OwnRecords(w) == known[w]
History(w) == {c \in Children : childKey[c] # "none"} \cup known[w]

Existing(w, k) == {c \in History(w) : childKey[c] = k \/ deleted[c] = k}

-----------------------------------------------------------------------------
(* A command of worker w *)

CommandGoes(w, pc) == command' = [command EXCEPT ![w].pc = pc]

\* The parent is found in the records or on the disk; the lock's file is opened.
Open(w, k) ==
    /\ command[w].pc = "idle"
    /\ stale[w] \/ ~parentGone
    /\ command' = [command EXCEPT ![w] = [pc |-> "lock", key |-> k, child |-> "none",
                                          oldFile |-> FALSE]]
    /\ UNCHANGED <<childKey, deleted, parentGone, known, stale, answers, lineageCrashes>>

CommandLockFree(w) ==
    \A v \in LineageWorkers \ {w} : HoldsCommandLock(v) => command[v].oldFile # command[w].oldFile
TakeLock(w) ==
    /\ command[w].pc = "lock" /\ CommandLockFree(w)
    /\ CommandGoes(w, "scan")
    /\ UNCHANGED <<childKey, deleted, parentGone, known, stale, answers, lineageCrashes>>

Answers(w, c) ==
    /\ answers' = [answers EXCEPT ![command[w].key] = @ \cup {c}]
    /\ command' = [command EXCEPT ![w] = NoCommand]

\* The history has a child of this key, or a new one is to be started.
Scan(w) ==
    /\ command[w].pc = "scan"
    /\ \/ \E c \in Existing(w, command[w].key) : Answers(w, c)
       \/ Existing(w, command[w].key) = {} /\ CommandGoes(w, "start") /\ UNCHANGED answers
    /\ UNCHANGED <<childKey, deleted, parentGone, known, stale, lineageCrashes>>

Unused == {c \in Children : childKey[c] = "none" /\ deleted[c] = "none"}

\* _start_child_task.  A lock, a release gate or a write that fails leaves no task.json; the
\* command has failed.
StartChild(w) ==
    /\ command[w].pc = "start"
    /\ \/ \E c \in Unused :
             /\ childKey' = [childKey EXCEPT ![c] = command[w].key]
             /\ known' = [known EXCEPT ![w] = @ \cup {c}]
             /\ command' = [command EXCEPT ![w].pc = "answer", ![w].child = c]
       \/ command' = [command EXCEPT ![w] = NoCommand] /\ UNCHANGED <<childKey, known>>
    /\ UNCHANGED <<deleted, parentGone, stale, answers, lineageCrashes>>

AnswerCommand(w) ==
    /\ command[w].pc = "answer"
    /\ Answers(w, command[w].child)
    /\ UNCHANGED <<childKey, deleted, parentGone, known, stale, lineageCrashes>>

-----------------------------------------------------------------------------
(* What happens around the commands *)

\* A deletion removes task.json, and only the own record.
DeleteChild(w, c) ==
    /\ command[w].pc = "idle" /\ childKey[c] # "none"
    /\ deleted' = [deleted EXCEPT ![c] = childKey[c]]
    /\ childKey' = [childKey EXCEPT ![c] = "none"]
    /\ known' = [known EXCEPT ![w] = @ \ {c}]
    /\ UNCHANGED <<parentGone, stale, command, answers, lineageCrashes>>

\* Deleting the parent also unlinks the file that other workers may have open and locked.
DeleteParent(w) ==
    /\ command[w].pc = "idle" /\ ~parentGone
    /\ parentGone' = TRUE
    /\ stale' = [stale EXCEPT ![w] = FALSE]
    /\ command' = [v \in LineageWorkers |->
                      [command[v] EXCEPT !.oldFile = command[v].pc # "idle"]]
    /\ UNCHANGED <<childKey, deleted, known, answers, lineageCrashes>>

\* Retention drops the records of ended tasks.
Prune(w) ==
    /\ command[w].pc = "idle"
    /\ \E kept \in SUBSET known[w], still \in {FALSE, stale[w]} :
          known' = [known EXCEPT ![w] = kept] /\ stale' = [stale EXCEPT ![w] = still]
    /\ UNCHANGED <<childKey, deleted, parentGone, command, answers, lineageCrashes>>

\* A crash releases the lock and forgets the records; what is on disk stays.
LineageCrash(w) ==
    /\ lineageCrashes < MaxCrashes
    /\ lineageCrashes' = lineageCrashes + 1
    /\ command' = [command EXCEPT ![w] = NoCommand]
    /\ known' = [known EXCEPT ![w] = {}]
    /\ stale' = [stale EXCEPT ![w] = FALSE]
    /\ UNCHANGED <<childKey, deleted, parentGone, answers>>

LineageInit ==
    /\ childKey = [c \in Children |-> "none"] /\ deleted = [c \in Children |-> "none"]
    /\ parentGone = FALSE /\ lineageCrashes = 0
    /\ known = [w \in LineageWorkers |-> {}]
    /\ stale \in [LineageWorkers -> BOOLEAN]
    /\ command = [w \in LineageWorkers |-> NoCommand]
    /\ answers = [k \in CommandKeys |-> {}]

LineageNext ==
    \/ \E w \in LineageWorkers :
          \/ \E k \in CommandKeys : Open(w, k)
          \/ TakeLock(w) \/ Scan(w) \/ StartChild(w) \/ AnswerCommand(w)
          \/ \E c \in Children : DeleteChild(w, c)
          \/ DeleteParent(w) \/ Prune(w) \/ LineageCrash(w)

LineageSpec == LineageInit /\ [][LineageNext]_lineageVars

-----------------------------------------------------------------------------
(* Properties *)

LineageTypeOK ==
    /\ childKey \in [Children -> CommandKeys \cup {"none"}]
    /\ deleted \in [Children -> CommandKeys \cup {"none"}]
    /\ known \in [LineageWorkers -> SUBSET Children]
    /\ stale \in [LineageWorkers -> BOOLEAN] /\ parentGone \in BOOLEAN
    /\ command \in [LineageWorkers ->
          [pc : {"idle", "lock", "scan", "start", "answer"}, key : CommandKeys \cup {"none"},
           child : Children \cup {"none"}, oldFile : BOOLEAN]]
    /\ answers \in [CommandKeys -> SUBSET Children]

\* While the parent exists, a key has at most one child on disk, whichever workers the retries
\* reach and whatever crashed before the answer, and two successful answers to the key name the
\* same child unless the one named first has been deleted.
OneChildPerKey ==
    ~parentGone =>
        \A k \in CommandKeys :
            /\ Cardinality({c \in Children : childKey[c] = k}) <= 1
            /\ \A c, d \in answers[k] :
                    c = d \/ deleted[c] # "none" \/ deleted[d] # "none"
=============================================================================
